--------------------------- MODULE Download_proofs ---------------------------
(****************************************************************************)
(* Proofs about Download.tla for any file, hosts and number of downloaders. *)
(*                                                                          *)
(* Every handler is a chain of operators on the record of what handlers     *)
(* share.  Fine says what holds of that record between any two of these     *)
(* operators, and each operator has a lemma: it leads from a Fine record    *)
(* to a Fine one, and takes no verdict back (Keeps).  An action is then     *)
(* the composition of such lemmas.                                          *)
(****************************************************************************)
EXTENDS Download, CollectionFacts, FiniteSetTheorems, TLAPS

Works  == [phase : Phases, kind : {"none", "hash", "copy"}, range : SUBSET Chunk,
           result : {"none", "match", "differ", "error", "good", "bad"}]
States == [status : Statuses, map : [Chunk -> Mark], tiger : BOOLEAN,
           dl : [Slot -> Open \cup {Closed}], conn : [Source -> Int], work : Works]

OpenTo(S, s) == {d \in OpenSlots(S) : S.dl[d].src = s}

\* A chunk is ACTIVE exactly when it is in a lease, and in one lease only.
Leased(S) ==
  /\ \A c \in Chunk : S.map[c] = "active" <=> \E d \in Slot : c \in LeaseOf(S.dl[d])
  /\ \A d, e \in Slot : \A c \in Chunk :
       c \in LeaseOf(S.dl[d]) /\ c \in LeaseOf(S.dl[e]) => d = e

\* A downloader that connects or waits in a queue has no lease.
Resting(S) == \A d \in Slot : S.dl[d].st \in {"connect", "queue"} => LeaseOf(S.dl[d]) = {}

Counted(S) == \A s \in Source : S.conn[s] = Cardinality(OpenTo(S, s))

Quiet(S) == S.status # "transfer" => OpenSlots(S) = {}

\* What the Work is at, and what its results may be.
Working(S) ==
  /\ S.work.phase \in {"idle", "drained"} => S.work.kind = "none"
  /\ S.work.phase \in {"queued", "running", "returned"} => S.work.kind # "none"
  /\ S.work.kind = "hash" => \A c \in S.work.range : S.map[c] = "full"
  /\ S.work.kind = "hash" => S.status = IF S.work.range = Chunk THEN "hash" ELSE "transfer"
  /\ S.work.kind = "copy" => S.status = "move"
  /\ S.work.kind = "copy" /\ S.work.phase = "returned" => S.work.result \in {"error", "good", "bad"}

Fine(S) == /\ S \in States
           /\ Leased(S) /\ Resting(S) /\ Counted(S) /\ Quiet(S) /\ Working(S)

\* From S to T no verdict VALID was given or taken back, and the Work did not return.
Keeps(S, T) == /\ \A c \in Chunk : T.map[c] = "valid" <=> S.map[c] = "valid"
               /\ T.work = S.work \/ T.work.phase # "returned"

-----------------------------------------------------------------------------
\* An open downloader is an Open one.
LEMMA OpenIs ==
  ASSUME NEW S \in States, NEW d \in Slot
  PROVE  /\ S.dl[d] # Closed <=> S.dl[d] \in Open
         /\ S.dl[d] # Closed <=> d \in OpenSlots(S)
         /\ S.dl[d] # Closed => S.dl[d].st \in {"connect", "chat", "transfer", "overrun", "queue"}
         /\ S.dl[d] = Closed => S.dl[d].st = "closed"
  <1>1. S.dl[d] \in Open \cup {Closed}
      BY DEF States
  <1>2. \A x \in Open : x.st \in {"connect", "chat", "transfer", "overrun", "queue"}
      BY DEF Open
  <1>3. Closed.st = "closed"
      BY DEF Closed
  <1> QED
      BY <1>1, <1>2, <1>3 DEF OpenSlots

\* A closed downloader has no lease; a lease is at most one chunk.
LEMMA LeaseIs ==
  /\ LeaseOf(Closed) = {}
  /\ \A x \in Open : /\ LeaseOf(x) \subseteq Chunk
                     /\ LeaseOf(x) = IF x.task = "file" /\ x.lease # NoChunk THEN {x.lease} ELSE {}
  <1>1. LeaseOf(Closed) = {}
      BY DEF LeaseOf
  <1>2. ASSUME NEW x \in Open
        PROVE  /\ LeaseOf(x) \subseteq Chunk
               /\ LeaseOf(x) = IF x.task = "file" /\ x.lease # NoChunk THEN {x.lease} ELSE {}
    <2>1. x # Closed
        BY DEF Open, Closed
    <2>2. x.lease \in Chunk \cup {NoChunk}
        BY DEF Open
    <2> QED
        BY <2>1, <2>2 DEF LeaseOf
  <1> QED
      BY <1>1, <1>2

\* The downloaders that are open to a host are finitely many.
LEMMA OpenToIs ==
  ASSUME NEW S, NEW s
  PROVE  IsFiniteSet(OpenTo(S, s)) /\ Cardinality(OpenTo(S, s)) \in Nat
         /\ Cardinality(OpenTo(S, s)) <= Cardinality(Slot)
  <1>1. OpenTo(S, s) \subseteq Slot
      BY DEF OpenTo, OpenSlots
  <1> QED
      BY <1>1, SlotAssumption, FS_Subset, FS_CardinalityType

\* With every downloader closed and every count at 0 only the Work is left to look at.
LEMMA ClosedIsFine ==
  ASSUME NEW S \in States, \A d \in Slot : S.dl[d] = Closed, \A s \in Source : S.conn[s] = 0,
         \A c \in Chunk : S.map[c] # "active", Working(S)
  PROVE  Fine(S)
  <1>1. OpenSlots(S) = {}
      BY DEF OpenSlots
  <1>2. \A s : OpenTo(S, s) = {}
      BY <1>1 DEF OpenTo
  <1>3. Counted(S)
      BY <1>2, FS_EmptySet DEF Counted
  <1>4. \A d \in Slot : LeaseOf(S.dl[d]) = {}
      BY LeaseIs
  <1>5. Leased(S) /\ Resting(S)
      BY <1>4 DEF Leased, Resting
  <1> QED
      BY <1>1, <1>3, <1>5 DEF Fine, Quiet

\* What an open downloader may do to its lease: one that it gives up is no longer
\* ACTIVE, one that it takes was not ACTIVE, and it leaves what is FULL alone.
LEMMA SlotChanges ==
  ASSUME NEW S, Fine(S), NEW T \in States, NEW d \in Slot,
         S.dl[d] # Closed, T.dl[d] # Closed, T.dl[d].src = S.dl[d].src,
         \A e \in Slot \ {d} : T.dl[e] = S.dl[e],
         T.status = S.status, T.work = S.work, T.conn = S.conn,
         T.dl[d].st \in {"connect", "queue"} => LeaseOf(T.dl[d]) = {},
         \A c \in Chunk :
           IF c \in LeaseOf(T.dl[d])
           THEN T.map[c] = "active" /\ (S.map[c] = "active" => c \in LeaseOf(S.dl[d]))
           ELSE T.map[c] = "active" <=> S.map[c] = "active" /\ c \notin LeaseOf(S.dl[d]),
         \A c \in Chunk : S.map[c] = "full" => T.map[c] = "full"
  PROVE  Fine(T)
  <1>1. S \in States /\ Leased(S) /\ Resting(S) /\ Counted(S) /\ Quiet(S) /\ Working(S)
      BY DEF Fine
  <1>2. OpenSlots(T) = OpenSlots(S) /\ \A s \in Source : OpenTo(T, s) = OpenTo(S, s)
      BY DEF OpenSlots, OpenTo
  <1>3. Counted(T) /\ Quiet(T)
      BY <1>1, <1>2 DEF Counted, Quiet
  <1>4. Resting(T)
      BY <1>1 DEF Resting
  <1>5. Working(T)
    <2>1. S.work.kind = "hash" => S.work.range \subseteq Chunk
        BY <1>1 DEF States, Works
    <2> QED
        BY <1>1, <2>1 DEF Working
  <1>6. ASSUME NEW c \in Chunk
        PROVE  T.map[c] = "active" <=> \E e \in Slot : c \in LeaseOf(T.dl[e])
    <2>1. CASE c \in LeaseOf(T.dl[d])
        BY <2>1
    <2>2. CASE c \notin LeaseOf(T.dl[d])
      <3>1. (\E e \in Slot : c \in LeaseOf(T.dl[e])) <=> \E e \in Slot \ {d} : c \in LeaseOf(S.dl[e])
          BY <2>2
      <3>2. S.map[c] = "active" /\ c \notin LeaseOf(S.dl[d])
              <=> \E e \in Slot \ {d} : c \in LeaseOf(S.dl[e])
          BY <1>1 DEF Leased
      <3> QED
          BY <2>2, <3>1, <3>2
    <2> QED
        BY <2>1, <2>2
  <1>7. ASSUME NEW e \in Slot, NEW f \in Slot, NEW c \in Chunk,
               c \in LeaseOf(T.dl[e]), c \in LeaseOf(T.dl[f])
        PROVE  e = f
    <2>1. CASE e # d /\ f # d
        BY <1>1, <1>7, <2>1 DEF Leased
    <2>2. ASSUME NEW g \in Slot, g # d, c \in LeaseOf(T.dl[d]), c \in LeaseOf(T.dl[g])
          PROVE  FALSE
      <3>1. c \in LeaseOf(S.dl[g]) /\ S.map[c] = "active"
          BY <1>1, <2>2 DEF Leased
      <3>2. c \in LeaseOf(S.dl[d])
          BY <2>2, <3>1
      <3> QED
          BY <1>1, <2>2, <3>1, <3>2 DEF Leased
    <2> QED
        BY <1>7, <2>1, <2>2
  <1> QED
      BY <1>3, <1>4, <1>5, <1>6, <1>7 DEF Fine, Leased

\* A downloader without a lease may close.
LEMMA SlotCloses ==
  ASSUME NEW S, Fine(S), NEW T \in States, NEW d \in Slot,
         S.dl[d] # Closed, T.dl[d] = Closed, LeaseOf(S.dl[d]) = {},
         \A e \in Slot \ {d} : T.dl[e] = S.dl[e],
         T.status = S.status, T.work = S.work, T.map = S.map,
         T.conn = [S.conn EXCEPT ![S.dl[d].src] = @ - 1]
  PROVE  Fine(T)
  <1>1. S \in States /\ Leased(S) /\ Resting(S) /\ Counted(S) /\ Quiet(S) /\ Working(S)
      BY DEF Fine
  <1>2. LeaseOf(T.dl[d]) = {} /\ T.dl[d].st = "closed"
      BY LeaseIs DEF Closed
  <1>3. /\ OpenSlots(T) = OpenSlots(S) \ {d} /\ d \in OpenSlots(S)
        /\ \A e \in OpenSlots(T) : T.dl[e].src = S.dl[e].src
      BY DEF OpenSlots
  <1>4. Quiet(T) /\ Working(T)
      BY <1>1, <1>3 DEF Quiet, Working
  <1>5. Resting(T) /\ Leased(T)
      BY <1>1, <1>2 DEF Resting, Leased
  <1>6. ASSUME NEW s \in Source PROVE T.conn[s] = Cardinality(OpenTo(T, s))
    <2>1. IsFiniteSet(OpenTo(S, s)) /\ Cardinality(OpenTo(S, s)) \in Nat
        BY OpenToIs
    <2>2. S.conn[s] = Cardinality(OpenTo(S, s)) /\ S.conn \in [Source -> Int]
        BY <1>1 DEF Counted, States
    <2>3. CASE s = S.dl[d].src
      <3>1. OpenTo(T, s) = OpenTo(S, s) \ {d} /\ d \in OpenTo(S, s)
          BY <1>3, <2>3 DEF OpenTo
      <3>2. Cardinality(OpenTo(T, s)) = Cardinality(OpenTo(S, s)) - 1
          BY <3>1, <2>1, FS_RemoveElement
      <3> QED
          BY <2>2, <2>3, <3>2
    <2>4. CASE s # S.dl[d].src
      <3>1. OpenTo(T, s) = OpenTo(S, s)
          BY <1>3, <2>4 DEF OpenTo
      <3> QED
          BY <2>2, <2>4, <3>1
    <2> QED
        BY <2>3, <2>4
  <1> QED
      BY <1>4, <1>5, <1>6 DEF Fine, Counted

\* A new downloader, without a lease, may be opened to any host.
LEMMA SlotOpens ==
  ASSUME NEW S, Fine(S), NEW T \in States, NEW d \in Slot, NEW h \in Source,
         S.dl[d] = Closed, T.dl[d] # Closed, LeaseOf(T.dl[d]) = {}, T.dl[d].src = h,
         \A e \in Slot \ {d} : T.dl[e] = S.dl[e],
         S.status = "transfer", T.status = S.status, T.work = S.work, T.map = S.map,
         T.conn = [S.conn EXCEPT ![h] = @ + 1]
  PROVE  Fine(T)
  <1>1. S \in States /\ Leased(S) /\ Resting(S) /\ Counted(S) /\ Quiet(S) /\ Working(S)
      BY DEF Fine
  <1>2. LeaseOf(S.dl[d]) = {}
      BY LeaseIs
  <1>3. /\ OpenSlots(T) = OpenSlots(S) \cup {d} /\ d \notin OpenSlots(S)
        /\ \A e \in OpenSlots(S) : T.dl[e].src = S.dl[e].src
      BY DEF OpenSlots
  <1>4. Quiet(T) /\ Working(T)
      BY <1>1 DEF Quiet, Working
  <1>5. Resting(T) /\ Leased(T)
      BY <1>1, <1>2 DEF Resting, Leased
  <1>6. ASSUME NEW s \in Source PROVE T.conn[s] = Cardinality(OpenTo(T, s))
    <2>1. IsFiniteSet(OpenTo(S, s)) /\ Cardinality(OpenTo(S, s)) \in Nat
        BY OpenToIs
    <2>2. S.conn[s] = Cardinality(OpenTo(S, s)) /\ S.conn \in [Source -> Int]
        BY <1>1 DEF Counted, States
    <2>3. CASE s = h
      <3>1. OpenTo(T, s) = OpenTo(S, s) \cup {d} /\ d \notin OpenTo(S, s)
          BY <1>3, <2>3 DEF OpenTo
      <3>2. Cardinality(OpenTo(T, s)) = Cardinality(OpenTo(S, s)) + 1
          BY <3>1, <2>1, FS_AddElement
      <3> QED
          BY <2>2, <2>3, <3>2
    <2>4. CASE s # h
      <3>1. OpenTo(T, s) = OpenTo(S, s)
          BY <1>3, <2>4 DEF OpenTo
      <3> QED
          BY <2>2, <2>4, <3>1
    <2> QED
        BY <2>3, <2>4
  <1> QED
      BY <1>4, <1>5, <1>6 DEF Fine, Counted

-----------------------------------------------------------------------------
(* The operators that the handlers are chains of.                          *)

\* What Paint gives has a mark for every chunk.
LEMMA PaintIs ==
  ASSUME NEW m \in [Chunk -> Mark], NEW r, NEW st \in Mark
  PROVE  /\ Paint(m, r, st) \in [Chunk -> Mark]
         /\ \A c \in Chunk : Paint(m, r, st)[c] = IF c \in r THEN st ELSE m[c]
  BY DEF Paint

\* CancelTask gives the lease back and changes nothing else.
LEMMA CancelTaskIs ==
  ASSUME NEW S, Fine(S), NEW d \in Slot, S.dl[d] # Closed, NEW T, T = CancelTask(S, d)
  PROVE  /\ Fine(T) /\ Keeps(S, T)
         /\ T.dl[d] \in Open /\ T.dl[d] # Closed /\ LeaseOf(T.dl[d]) = {}
         /\ T.dl[d].st = S.dl[d].st /\ T.dl[d].src = S.dl[d].src /\ T.dl[d].task = S.dl[d].task
         /\ T.dl[d].lease = NoChunk
         /\ \A e \in Slot \ {d} : T.dl[e] = S.dl[e]
         /\ T.status = S.status /\ T.tiger = S.tiger /\ T.conn = S.conn /\ T.work = S.work
  <1> DEFINE m == Paint(S.map, LeaseOf(S.dl[d]), "empty")
             R == [S EXCEPT !.map = m]
             x == [S.dl[d] EXCEPT !.lease = NoChunk]
  <1>1. S \in States /\ S.dl[d] \in Open
      BY OpenIs DEF Fine
  <1>2. S.map \in [Chunk -> Mark] /\ S.dl \in [Slot -> Open \cup {Closed}]
      BY <1>1 DEF States
  <1>3. m \in [Chunk -> Mark] /\ \A c \in Chunk : m[c] = IF c \in LeaseOf(S.dl[d]) THEN "empty" ELSE S.map[c]
      BY <1>2, PaintIs DEF Mark
  <1>4. T = [R EXCEPT !.dl[d].lease = NoChunk]
      BY Zenon DEF CancelTask
  <1> HIDE DEF m
  <1>5. /\ R \in States /\ R.map = m /\ R.dl = S.dl
        /\ R.status = S.status /\ R.tiger = S.tiger /\ R.conn = S.conn /\ R.work = S.work
      BY <1>1, <1>3 DEF States
  <1> HIDE DEF R
  <1>6. /\ x \in Open /\ x.st = S.dl[d].st /\ x.src = S.dl[d].src /\ x.task = S.dl[d].task
        /\ x.lease = NoChunk
      BY <1>1 DEF Open
  <1>7. T = [R EXCEPT !.dl = [S.dl EXCEPT ![d] = x]]
      BY <1>4, <1>5
  <1> HIDE DEF x
  <1>8. /\ T \in States /\ T.map = m /\ T.dl = [S.dl EXCEPT ![d] = x]
        /\ T.status = S.status /\ T.tiger = S.tiger /\ T.conn = S.conn /\ T.work = S.work
      BY <1>2, <1>5, <1>6, <1>7 DEF States
  <1>9. T.dl[d] = x /\ \A e \in Slot \ {d} : T.dl[e] = S.dl[e]
      BY <1>2, <1>8
  <1>10. LeaseOf(x) = {} /\ x # Closed
      BY <1>6, LeaseIs DEF Open, Closed
  <1>11. Fine(T)
    <2>1. \A c \in Chunk : c \in LeaseOf(S.dl[d]) => S.map[c] = "active"
        BY DEF Fine, Leased
    <2> QED
        BY <2>1, <1>3, <1>6, <1>8, <1>9, <1>10, SlotChanges
  <1>12. Keeps(S, T)
    <2>1. \A c \in Chunk : c \in LeaseOf(S.dl[d]) => S.map[c] = "active"
        BY DEF Fine, Leased
    <2> QED
        BY <2>1, <1>3, <1>8 DEF Keeps
  <1> QED
      BY <1>6, <1>8, <1>9, <1>10, <1>11, <1>12

\* Close gives the lease back and counts the connection out.
LEMMA CloseIs ==
  ASSUME NEW S, Fine(S), NEW d \in Slot, S.dl[d] # Closed, NEW U, U = Close(S, d)
  PROVE  Fine(U) /\ Keeps(S, U) /\ U.status = S.status
  <1> DEFINE T == CancelTask(S, d)
             h == S.dl[d].src
  <1>0. T = CancelTask(S, d)
      OBVIOUS
  <1> HIDE DEF T
  <1>1. /\ Fine(T) /\ Keeps(S, T)
        /\ T.dl[d] \in Open /\ T.dl[d] # Closed /\ LeaseOf(T.dl[d]) = {} /\ T.dl[d].src = h
        /\ \A e \in Slot \ {d} : T.dl[e] = S.dl[e]
        /\ T.status = S.status /\ T.work = S.work
      BY <1>0, CancelTaskIs
  <1> USE DEF T
  <1> DEFINE R == [T EXCEPT !.dl = [T.dl EXCEPT ![d] = Closed]]
  <1>2. U = [R EXCEPT !.conn[h] = @ - 1]
      BY Zenon DEF Close
  <1> HIDE DEF T, h
  <1>3. T \in States /\ h \in Source /\ T.conn \in [Source -> Int] /\ T.dl \in [Slot -> Open \cup {Closed}]
      BY <1>1 DEF Fine, States, Open
  <1>4. /\ R \in States /\ R.dl = [T.dl EXCEPT ![d] = Closed]
        /\ R.status = T.status /\ R.map = T.map /\ R.conn = T.conn /\ R.work = T.work
      BY <1>3 DEF States
  <1> HIDE DEF R
  <1>5. U = [R EXCEPT !.conn = [R.conn EXCEPT ![h] = R.conn[h] - 1]]
      BY <1>2
  <1>6. /\ U \in States /\ U.dl = R.dl /\ U.conn = [T.conn EXCEPT ![h] = @ - 1]
        /\ U.status = T.status /\ U.map = T.map /\ U.work = T.work
      BY <1>3, <1>4, <1>5 DEF States
  <1>7. U.dl[d] = Closed /\ \A e \in Slot \ {d} : U.dl[e] = T.dl[e]
      BY <1>3, <1>4, <1>6
  <1>8. Fine(U)
      BY <1>1, <1>6, <1>7, SlotCloses
  <1> QED
      BY <1>1, <1>6, <1>8 DEF Keeps

\* CloseDownloaders gives all leases back and leaves every count at 0.
LEMMA CloseDownloadersIs ==
  ASSUME NEW S, Fine(S), NEW T, T = CloseDownloaders(S)
  PROVE  /\ T \in States
         /\ \A d \in Slot : T.dl[d] = Closed
         /\ \A s \in Source : T.conn[s] = 0
         /\ \A c \in Chunk : T.map[c] = IF S.map[c] = "active" THEN "empty" ELSE S.map[c]
         /\ T.status = S.status /\ T.tiger = S.tiger /\ T.work = S.work
  <1> DEFINE all == UNION {LeaseOf(S.dl[d]) : d \in Slot}
             m == Paint(S.map, all, "empty")
             n == [s \in Source |-> S.conn[s] - Cardinality({d \in OpenSlots(S) : S.dl[d].src = s})]
             none == [d \in Slot |-> Closed]
             Q == [S EXCEPT !.map = m]
             R == [Q EXCEPT !.conn = n]
  <1>1. S \in States /\ Leased(S) /\ Counted(S)
      BY DEF Fine
  <1>2. S.map \in [Chunk -> Mark] /\ S.conn \in [Source -> Int]
      BY <1>1 DEF States
  <1>3. m \in [Chunk -> Mark] /\ \A c \in Chunk : m[c] = IF S.map[c] = "active" THEN "empty" ELSE S.map[c]
    <2>1. \A c \in Chunk : c \in all <=> S.map[c] = "active"
        BY <1>1 DEF Leased
    <2> HIDE DEF all
    <2> QED
        BY <1>2, <2>1, PaintIs DEF Mark
  <1>4. n = [s \in Source |-> 0]
    <2>1. \A s \in Source : S.conn[s] = Cardinality(OpenTo(S, s)) /\ S.conn[s] \in Int
        BY <1>1, <1>2 DEF Counted
    <2> QED
        BY <2>1 DEF OpenTo
  <1>5. T = [R EXCEPT !.dl = none]
      BY Zenon DEF CloseDownloaders
  <1> HIDE DEF m, n
  <1>6. /\ Q \in States /\ Q.map = m /\ Q.status = S.status /\ Q.tiger = S.tiger /\ Q.work = S.work
      BY <1>1, <1>3 DEF States
  <1> HIDE DEF Q
  <1>7. /\ R \in States /\ R.map = m /\ R.conn = n /\ R.status = S.status /\ R.tiger = S.tiger
        /\ R.work = S.work
      BY <1>4, <1>6 DEF States
  <1> HIDE DEF R
  <1>8. /\ T \in States /\ T.map = m /\ T.conn = n /\ T.dl = none /\ T.status = S.status
        /\ T.tiger = S.tiger /\ T.work = S.work
      BY <1>5, <1>7 DEF States
  <1> QED
      BY <1>3, <1>4, <1>8

\* What ForValidation picks is FULL.
LEMMA ForValidationIs ==
  ASSUME NEW m \in [Chunk -> Mark]
  PROVE  ForValidation(m) \subseteq {c \in Chunk : m[c] = "full"}
  <1> DEFINE whole == {c \in Chunk : Cardinality(Leaf(c)) = PerLeaf /\ \A e \in Leaf(c) : m[e] = "full"}
             tail  == {c \in Chunk : \A e \in c .. Chunks - 1 : m[e] = "full"}
  <1>1. Chunks \in Nat
      BY NumbersAssumption
  <1>2. ForValidation(m) = IF whole # {} THEN Leaf(Min(whole))
                           ELSE IF Cardinality(tail) < PerLeaf THEN tail ELSE {}
      BY DEF ForValidation
  <1>3. CASE whole # {}
    <2>1. IsFiniteSet(whole) /\ whole \in SUBSET Nat
      <3>1. IsFiniteSet(Chunk) /\ Chunk \subseteq Nat
          BY <1>1, FS_Interval DEF Chunk
      <3> QED
          BY <3>1, FS_Subset
    <2> HIDE DEF whole
    <2>2. Min(whole) \in whole
        BY <1>3, <2>1, MinIs
    <2>3. \A e \in Leaf(Min(whole)) : e \in Chunk /\ m[e] = "full"
        BY <2>2 DEF whole, Leaf
    <2> QED
        BY <1>2, <1>3, <2>3
  <1>4. CASE whole = {}
    <2>1. \A c \in tail : m[c] = "full"
        BY <1>1 DEF Chunk
    <2> QED
        BY <1>2, <1>4, <2>1
  <1> QED
      BY <1>3, <1>4

\* Run gives the Work something to do.
LEMMA RunIs ==
  ASSUME NEW kind \in {"hash", "copy"}, NEW range \in SUBSET Chunk
  PROVE  /\ Run(kind, range) \in Works
         /\ Run(kind, range).phase = "queued" /\ Run(kind, range).kind = kind
         /\ Run(kind, range).range = range
  BY DEF Run, Works, Phases

\* FileUpdated closes the downloaders before it leaves TRANSFER, and hands only FULL
\* chunks to the Work.
LEMMA FileUpdatedIs ==
  ASSUME NEW S, Fine(S), NEW T, T = FileUpdated(S),
         S.status # "transfer" => MaskOf(S.map) \in {{"valid"}, {"invalid"}}
  PROVE  Fine(T) /\ Keeps(S, T) /\ (T.status = "transfer" => T.dl = S.dl /\ T.map = S.map)
  <1> DEFINE mask == MaskOf(S.map)
             r    == ForValidation(S.map)
             C    == CloseDownloaders(S)
             hash == [C EXCEPT !.status = "hash", !.work = Run("hash", Chunk)]
             move == [C EXCEPT !.status = "move", !.work = Run("copy", Chunk)]
             part == [S EXCEPT !.work = Run("hash", r)]
  <1>1. T = IF S.work.phase # "idle" THEN S
            ELSE IF mask \in {{"valid"}, {"invalid"}} THEN move
            ELSE IF mask = {"full"} THEN hash
            ELSE IF "full" \in mask /\ S.tiger /\ r # {} THEN part
            ELSE S
      BY Zenon DEF FileUpdated, FileComplete
  <1>2. S \in States /\ S.map \in [Chunk -> Mark] /\ S.status \in Statuses /\ Quiet(S) /\ Working(S)
      BY DEF Fine, States
  <1>3. Keeps(S, S)
      BY DEF Keeps
  <1>4. C = CloseDownloaders(S)
      OBVIOUS
  <1> HIDE DEF C
  <1>5. /\ C \in States
        /\ \A d \in Slot : C.dl[d] = Closed
        /\ \A s \in Source : C.conn[s] = 0
        /\ \A c \in Chunk : C.map[c] = IF S.map[c] = "active" THEN "empty" ELSE S.map[c]
      BY <1>4, CloseDownloadersIs
  <1>6. Chunk \in SUBSET Chunk /\ Run("hash", Chunk) \in Works /\ Run("copy", Chunk) \in Works
      BY RunIs
  <1>7. CASE T = move
    <2> DEFINE D == [C EXCEPT !.status = "move"]
    <2>1. T = [D EXCEPT !.work = Run("copy", Chunk)]
        BY <1>7, Zenon
    <2>2. D \in States /\ D.map = C.map /\ D.dl = C.dl /\ D.conn = C.conn /\ D.status = "move"
        BY <1>5 DEF States, Statuses
    <2> HIDE DEF D
    <2>3. /\ T \in States /\ T.map = C.map /\ T.dl = C.dl /\ T.conn = C.conn /\ T.status = "move"
          /\ T.work = Run("copy", Chunk)
        BY <1>6, <2>1, <2>2 DEF States
    <2>4. Working(T)
        BY <2>3, RunIs DEF Working
    <2>5. Fine(T)
        BY <1>5, <2>3, <2>4, ClosedIsFine
    <2>6. Keeps(S, T)
        BY <1>5, <2>3, RunIs DEF Keeps
    <2> QED
        BY <2>3, <2>5, <2>6
  <1>8. CASE T = hash /\ mask = {"full"}
    <2> DEFINE D == [C EXCEPT !.status = "hash"]
    <2>1. T = [D EXCEPT !.work = Run("hash", Chunk)]
        BY <1>8, Zenon
    <2>2. D \in States /\ D.map = C.map /\ D.dl = C.dl /\ D.conn = C.conn /\ D.status = "hash"
        BY <1>5 DEF States, Statuses
    <2> HIDE DEF D
    <2>3. /\ T \in States /\ T.map = C.map /\ T.dl = C.dl /\ T.conn = C.conn /\ T.status = "hash"
          /\ T.work = Run("hash", Chunk)
        BY <1>6, <2>1, <2>2 DEF States
    <2>4. \A c \in Chunk : T.map[c] = "full"
      <3>1. \A c \in Chunk : S.map[c] = "full"
          BY <1>8 DEF MaskOf
      <3> QED
          BY <1>5, <2>3, <3>1
    <2>5. Working(T)
        BY <2>3, <2>4, RunIs DEF Working
    <2>6. Fine(T)
        BY <1>5, <2>3, <2>5, ClosedIsFine
    <2>7. Keeps(S, T)
        BY <1>5, <2>3, RunIs DEF Keeps
    <2> QED
        BY <2>3, <2>6, <2>7
  <1>9. CASE T = part /\ S.status = "transfer" /\ mask # {"full"} /\ "full" \in mask
    <2>1. r \subseteq {c \in Chunk : S.map[c] = "full"}
        BY <1>2, ForValidationIs
    <2> HIDE DEF r
    <2>2. r \in SUBSET Chunk
        BY <2>1
    <2>3. /\ T \in States /\ T.map = S.map /\ T.dl = S.dl /\ T.conn = S.conn /\ T.status = "transfer"
          /\ T.work = Run("hash", r)
        BY <1>2, <1>9, <2>2, RunIs DEF States
    <2>4. r # Chunk
        BY <1>9, <2>1 DEF MaskOf
    <2>5. Working(T)
        BY <2>1, <2>2, <2>3, <2>4, RunIs DEF Working
    <2>6. Fine(T)
        BY <2>3, <2>5
        DEF Fine, Leased, Resting, Counted, Quiet, OpenSlots, OpenTo
    <2>7. Keeps(S, T)
        BY <2>2, <2>3, RunIs DEF Keeps
    <2> QED
        BY <2>3, <2>6, <2>7
  <1>10. CASE T = S
      BY <1>3, <1>10
  <1> HIDE DEF hash, move, part, r
  <1> QED
      BY <1>1, <1>7, <1>8, <1>9, <1>10

\* FetchTiger changes the task of a downloader that has no lease.
LEMMA FetchTigerIs ==
  ASSUME NEW S, Fine(S), NEW d \in Slot, S.dl[d] # Closed, LeaseOf(S.dl[d]) = {},
         NEW T, T = FetchTiger(S, d)
  PROVE  Fine(T) /\ Keeps(S, T) /\ T.status = S.status
  <1> DEFINE x == [[S.dl[d] EXCEPT !.task = "tiger"] EXCEPT !.st = "chat"]
  <1>1. S \in States /\ S.dl[d] \in Open /\ S.dl \in [Slot -> Open \cup {Closed}]
      BY OpenIs DEF Fine, States
  <1>2. T = [S EXCEPT !.dl = [S.dl EXCEPT ![d] = x]]
      BY Zenon DEF FetchTiger
  <1>3. x \in Open /\ x.st = "chat" /\ x.task = "tiger" /\ x.src = S.dl[d].src
    <2> DEFINE y == [S.dl[d] EXCEPT !.task = "tiger"]
    <2>1. y \in Open /\ y.task = "tiger" /\ y.src = S.dl[d].src
        BY <1>1 DEF Open
    <2> HIDE DEF y
    <2>2. [y EXCEPT !.st = "chat"] \in Open /\ [y EXCEPT !.st = "chat"].st = "chat"
          /\ [y EXCEPT !.st = "chat"].task = y.task /\ [y EXCEPT !.st = "chat"].src = y.src
        BY <2>1 DEF Open
    <2> QED
        BY <2>1, <2>2, Zenon DEF y
  <1> HIDE DEF x
  <1>4. x # Closed /\ LeaseOf(x) = {}
    <2>1. x # Closed
        BY <1>3 DEF Closed
    <2> QED
        BY <1>3, LeaseIs, <2>1
  <1>5. /\ T \in States /\ T.dl = [S.dl EXCEPT ![d] = x] /\ T.map = S.map
        /\ T.status = S.status /\ T.conn = S.conn /\ T.work = S.work
      BY <1>1, <1>2, <1>3 DEF States
  <1>6. /\ T.dl[d] # Closed /\ T.dl[d].src = S.dl[d].src
        /\ LeaseOf(T.dl[d]) = {} /\ T.dl[d].st \notin {"connect", "queue"}
        /\ \A e \in Slot \ {d} : T.dl[e] = S.dl[e]
    <2>1. T.dl[d] = x
        BY <1>1, <1>5
    <2> QED
        BY <1>1, <1>3, <1>4, <1>5, <2>1
  <1>7. Fine(T)
    <2>1. \A c \in Chunk :
            IF c \in LeaseOf(T.dl[d])
            THEN T.map[c] = "active" /\ (S.map[c] = "active" => c \in LeaseOf(S.dl[d]))
            ELSE T.map[c] = "active" <=> S.map[c] = "active" /\ c \notin LeaseOf(S.dl[d])
        BY <1>5, <1>6
    <2>2. \A c \in Chunk : S.map[c] = "full" => T.map[c] = "full"
        BY <1>5
    <2> QED
        BY <1>5, <1>6, <2>1, <2>2, SlotChanges
  <1> QED
      BY <1>5, <1>7 DEF Keeps

\* FetchFile leases a chunk that is EMPTY or INVALID to a downloader without a lease.
LEMMA FetchFileIs ==
  ASSUME NEW S, Fine(S), NEW d \in Slot, S.dl[d] # Closed, LeaseOf(S.dl[d]) = {},
         NEW T \in FetchFile(S, d)
  PROVE  Fine(T) /\ Keeps(S, T) /\ T.status = S.status
  <1>1. CASE T = Close(S, d)
      BY <1>1, CloseIs
  <1>2. ASSUME NEW c \in WantedOf(S.map),
               T = [S EXCEPT !.map[c] = "active",
                             !.dl[d] = [@ EXCEPT !.task = "file", !.lease = c, !.st = "chat"]]
        PROVE  Fine(T) /\ Keeps(S, T) /\ T.status = S.status
    <2> DEFINE m == [S.map EXCEPT ![c] = "active"]
               y == [S.dl[d] EXCEPT !.task = "file"]
               z == [y EXCEPT !.lease = c]
               x == [z EXCEPT !.st = "chat"]
               R == [S EXCEPT !.map = m]
    <2>1. /\ S \in States /\ S.dl[d] \in Open /\ S.dl \in [Slot -> Open \cup {Closed}]
          /\ S.map \in [Chunk -> Mark]
        BY OpenIs DEF Fine, States
    <2>2. c \in Chunk /\ S.map[c] \in {"empty", "invalid"} /\ c # NoChunk
        BY NoneAssumption DEF WantedOf, Chunk
    <2>3. m \in [Chunk -> Mark] /\ m[c] = "active" /\ \A e \in Chunk \ {c} : m[e] = S.map[e]
        BY <2>1, <2>2 DEF Mark
    <2>4. y \in Open /\ y.task = "file" /\ y.src = S.dl[d].src
        BY <2>1 DEF Open
    <2> HIDE DEF y
    <2>5. z \in Open /\ z.task = "file" /\ z.lease = c /\ z.src = S.dl[d].src
        BY <2>2, <2>4 DEF Open
    <2> HIDE DEF z
    <2>6. x \in Open /\ x.task = "file" /\ x.lease = c /\ x.st = "chat" /\ x.src = S.dl[d].src
        BY <2>5 DEF Open
    <2> HIDE DEF m
    <2>7. /\ R \in States /\ R.map = m /\ R.dl = S.dl /\ R.status = S.status /\ R.conn = S.conn
          /\ R.work = S.work
        BY <2>1, <2>3 DEF States
    <2>8. T = [R EXCEPT !.dl = [R.dl EXCEPT ![d] =
                 [[[R.dl[d] EXCEPT !.task = "file"] EXCEPT !.lease = c] EXCEPT !.st = "chat"]]]
        BY <1>2, Zenon DEF m
    <2> HIDE DEF R
    <2>9. T = [R EXCEPT !.dl = [S.dl EXCEPT ![d] = x]]
      <3>1. [[[R.dl[d] EXCEPT !.task = "file"] EXCEPT !.lease = c] EXCEPT !.st = "chat"] = x
          BY <2>7, Zenon DEF y, z
      <3> QED
          BY <2>7, <2>8, <3>1
    <2> HIDE DEF x
    <2>10. /\ T \in States /\ T.dl = [S.dl EXCEPT ![d] = x] /\ T.map = m
           /\ T.status = S.status /\ T.conn = S.conn /\ T.work = S.work
        BY <2>1, <2>6, <2>7, <2>9 DEF States
    <2>11. T.dl[d] = x /\ \A e \in Slot \ {d} : T.dl[e] = S.dl[e]
        BY <2>1, <2>10
    <2>12. x # Closed /\ LeaseOf(x) = {c}
      <3>1. x # Closed
          BY <2>6 DEF Closed
      <3> QED
          BY <2>2, <2>6, LeaseIs, <3>1
    <2>13. Fine(T)
      <3>1. /\ T.dl[d] # Closed /\ T.dl[d].src = S.dl[d].src
            /\ LeaseOf(T.dl[d]) = {c} /\ T.dl[d].st \notin {"connect", "queue"}
          BY <2>6, <2>11, <2>12
      <3>2. \A e \in Chunk :
              IF e \in LeaseOf(T.dl[d])
              THEN T.map[e] = "active" /\ (S.map[e] = "active" => e \in LeaseOf(S.dl[d]))
              ELSE T.map[e] = "active" <=> S.map[e] = "active" /\ e \notin LeaseOf(S.dl[d])
          BY <2>2, <2>3, <2>10, <3>1
      <3>3. \A e \in Chunk : S.map[e] = "full" => T.map[e] = "full"
          BY <2>2, <2>3, <2>10
      <3> QED
          BY <2>10, <2>11, <3>1, <3>2, <3>3, SlotChanges
    <2> QED
        BY <2>2, <2>3, <2>10, <2>13 DEF Keeps
  <1> QED
      BY <1>1, <1>2 DEF FetchFile, DetachMe

\* Keeping is transitive.
LEMMA KeepsOn ==
  ASSUME NEW S, NEW T, NEW U, Keeps(S, T), Keeps(T, U) PROVE Keeps(S, U)
  BY DEF Keeps

\* OnIdle gives a downloader without a lease something to do, or closes it, or all.
LEMMA OnIdleIs ==
  ASSUME NEW S, Fine(S), NEW d \in Slot, S.dl[d] # Closed, LeaseOf(S.dl[d]) = {},
         NEW U \in OnIdle(S, d)
  PROVE  Fine(U) /\ Keeps(S, U)
  <1> DEFINE T == IF S.status = "transfer" /\ S.dl[d].task = "file" THEN FileUpdated(S) ELSE S
  <1>1. Fine(T) /\ Keeps(S, T) /\ (T.status = "transfer" => T.dl = S.dl)
    <2>1. CASE S.status = "transfer" /\ S.dl[d].task = "file"
      <3>1. T = FileUpdated(S)
          BY <2>1
      <3> HIDE DEF T
      <3> QED
          BY <2>1, <3>1, FileUpdatedIs
    <2>2. CASE ~(S.status = "transfer" /\ S.dl[d].task = "file")
        BY <2>2 DEF Keeps
    <2> QED
        BY <2>1, <2>2
  <1>2. U \in IF T.status # "transfer" THEN {T}
              ELSE IF T.dl[d].hasTiger /\ ~T.tiger THEN {FetchTiger(T, d)}
              ELSE IF WantedOf(T.map) # {} THEN FetchFile(T, d)
              ELSE {Close(T, d)}
      BY DEF OnIdle
  <1> HIDE DEF T
  <1>3. T.status = "transfer" => T.dl[d] # Closed /\ LeaseOf(T.dl[d]) = {}
      BY <1>1
  <1>4. CASE U = T
      BY <1>1, <1>4
  <1>5. CASE T.status = "transfer" /\ U = FetchTiger(T, d)
      BY <1>1, <1>3, <1>5, FetchTigerIs, KeepsOn
  <1>6. CASE T.status = "transfer" /\ U \in FetchFile(T, d)
      BY <1>1, <1>3, <1>6, FetchFileIs, KeepsOn
  <1>7. CASE T.status = "transfer" /\ U = Close(T, d)
      BY <1>1, <1>3, <1>7, CloseIs, KeepsOn
  <1> QED
      BY <1>2, <1>4, <1>5, <1>6, <1>7

\* NewDownloader opens a downloader, without a lease, to a host.
LEMMA NewDownloaderIs ==
  ASSUME NEW S, Fine(S), NEW d \in Slot \ OpenSlots(S), NEW h \in Source,
         NEW garbage \in {"none", "file"}, S.status = "transfer",
         NEW T, T = NewDownloader(S, d, h, garbage)
  PROVE  Fine(T) /\ Keeps(S, T) /\ T.dl[d] # Closed /\ LeaseOf(T.dl[d]) = {}
  <1> DEFINE x == [st |-> "connect", task |-> garbage, lease |-> NoChunk, src |-> h, hasTiger |-> FALSE]
             R == [S EXCEPT !.dl = [S.dl EXCEPT ![d] = x]]
  <1>1. S \in States /\ S.dl \in [Slot -> Open \cup {Closed}] /\ S.conn \in [Source -> Int]
      BY DEF Fine, States
  <1>2. S.dl[d] = Closed /\ d \in Slot
      BY DEF OpenSlots
  <1>3. x \in Open /\ x.src = h /\ x # Closed /\ LeaseOf(x) = {}
    <2>1. x \in Open /\ x.src = h /\ x.lease = NoChunk /\ x.st # "closed"
        BY DEF Open
    <2>2. x # Closed
        BY <2>1 DEF Closed
    <2> HIDE DEF x
    <2> QED
        BY <2>1, <2>2, LeaseIs
  <1>4. T = [R EXCEPT !.conn = [R.conn EXCEPT ![h] = R.conn[h] + 1]]
      BY Zenon DEF NewDownloader
  <1> HIDE DEF x
  <1>5. /\ R \in States /\ R.dl = [S.dl EXCEPT ![d] = x] /\ R.conn = S.conn /\ R.map = S.map
        /\ R.status = S.status /\ R.work = S.work
      BY <1>1, <1>2, <1>3 DEF States
  <1> HIDE DEF R
  <1>6. /\ T \in States /\ T.dl = [S.dl EXCEPT ![d] = x] /\ T.conn = [S.conn EXCEPT ![h] = @ + 1]
        /\ T.map = S.map /\ T.status = S.status /\ T.work = S.work
      BY <1>1, <1>4, <1>5 DEF States
  <1>7. T.dl[d] = x /\ \A e \in Slot \ {d} : T.dl[e] = S.dl[e]
      BY <1>1, <1>2, <1>6
  <1>8. T.dl[d] # Closed /\ LeaseOf(T.dl[d]) = {} /\ T.dl[d].src = h
      BY <1>3, <1>7
  <1>9. Fine(T)
    <2>1. /\ T \in States /\ T.map = S.map /\ T.status = S.status /\ T.work = S.work
          /\ T.conn = [S.conn EXCEPT ![h] = @ + 1]
          /\ \A e \in Slot \ {d} : T.dl[e] = S.dl[e]
        BY <1>6, <1>7
    <2>2. d \in Slot /\ h \in Source /\ S.dl[d] = Closed
        BY <1>2
    <2> QED
        BY <2>1, <2>2, <1>8, SlotOpens
  <1> QED
      BY <1>6, <1>8, <1>9 DEF Keeps

\* ConnectSource opens one downloader or none.
LEMMA ConnectSourceIs ==
  ASSUME NEW S, Fine(S), NEW T \in ConnectSource(S)
  PROVE  Fine(T) /\ Keeps(S, T)
  <1>1. CASE T = S
      BY <1>1 DEF Keeps
  <1>2. CASE T # S
    <2>1. AllowDownloader(S)
        BY <1>2 DEF ConnectSource
    <2>2. S.status = "transfer"
        BY <2>1 DEF AllowDownloader
    <2>3. PICK d \in Slot \ OpenSlots(S), h \in Source, garbage \in {"none", "file"} :
            T = NewDownloader(S, d, h, garbage)
        BY <1>2, <2>1 DEF ConnectSource
    <2> QED
        BY <2>2, <2>3, NewDownloaderIs
  <1> QED
      BY <1>1, <1>2

\* T is S with every downloader closed and the Work at rest, whatever else has changed.
Halted(S, T) ==
  /\ T \in States
  /\ \A d \in Slot : T.dl[d] = Closed
  /\ \A s \in Source : T.conn[s] = 0
  /\ \A c \in Chunk : T.map[c] = IF S.map[c] = "active" THEN "empty" ELSE S.map[c]
  /\ T.work.phase \in {"idle", "drained"} /\ T.work.kind = "none"

\* A halted download is fine in any status, and has kept its verdicts.
LEMMA HaltedIs ==
  ASSUME NEW S, NEW T, Halted(S, T)
  PROVE  Fine(T) /\ Keeps(S, T) /\ OpenSlots(T) = {}
  <1>1. Working(T)
      BY DEF Halted, Working
  <1>2. Fine(T)
    <2>1. \A c \in Chunk : T.map[c] # "active"
        BY DEF Halted
    <2>2. T \in States /\ (\A d \in Slot : T.dl[d] = Closed) /\ \A s \in Source : T.conn[s] = 0
        BY DEF Halted
    <2> QED
        BY <1>1, <2>1, <2>2, ClosedIsFine
  <1> QED
      BY <1>2 DEF Halted, Keeps, OpenSlots

\* An aborted Work is at rest, or waits for its task to return.
LEMMA AbortedIs ==
  ASSUME NEW w \in Works, w.phase \in {"idle", "drained"} => w.kind = "none"
  PROVE  /\ NoWork \in Works /\ NoWork.phase = "idle" /\ NoWork.kind = "none"
         /\ Aborted(w) \in Works /\ Aborted(w).phase \in {"idle", "drained"}
         /\ Aborted(w).kind = "none"
  <1>1. NoWork \in Works /\ NoWork.phase = "idle" /\ NoWork.kind = "none"
      BY DEF NoWork, Works, Phases
  <1> DEFINE drained == [NoWork EXCEPT !.phase = "drained"]
  <1>2. drained \in Works /\ drained.phase = "drained" /\ drained.kind = "none"
      BY <1>1 DEF Works, Phases
  <1>3. w.phase \in {"idle", "queued", "running", "returned", "drained"}
      BY DEF Works, Phases
  <1>4. Aborted(w) \in {NoWork, drained} \/ (Aborted(w) = w /\ w.phase \in {"idle", "drained"})
      BY <1>3 DEF Aborted
  <1> HIDE DEF drained
  <1> QED
      BY <1>1, <1>2, <1>4

\* Stop halts the download.
LEMMA StoppedIs ==
  ASSUME NEW S, Fine(S), NEW T, T = Stopped(S)
  PROVE  Halted(S, T)
  <1> DEFINE C == CloseDownloaders(S)
             D == [C EXCEPT !.status = "stop"]
             w == Aborted(S.work)
  <1>1. T = [D EXCEPT !.work = w]
      BY Zenon DEF Stopped
  <1>2. C = CloseDownloaders(S)
      OBVIOUS
  <1> HIDE DEF C, w
  <1>3. /\ C \in States
        /\ \A d \in Slot : C.dl[d] = Closed
        /\ \A s \in Source : C.conn[s] = 0
        /\ \A c \in Chunk : C.map[c] = IF S.map[c] = "active" THEN "empty" ELSE S.map[c]
      BY <1>2, CloseDownloadersIs
  <1>4. w \in Works /\ w.phase \in {"idle", "drained"} /\ w.kind = "none"
      BY AbortedIs DEF Fine, States, Working, w
  <1>5. D \in States /\ D.dl = C.dl /\ D.conn = C.conn /\ D.map = C.map
      BY <1>3 DEF States, Statuses
  <1> HIDE DEF D
  <1>6. T \in States /\ T.dl = C.dl /\ T.conn = C.conn /\ T.map = C.map /\ T.work = w
      BY <1>1, <1>4, <1>5 DEF States
  <1> QED
      BY <1>3, <1>4, <1>6 DEF Halted

\* A halted download remains one when its status, its Work or its tiger tree is reset.
LEMMA HaltedOn ==
  ASSUME NEW S, NEW T, Halted(S, T)
  PROVE  /\ \A st \in Statuses : Halted(S, [T EXCEPT !.status = st])
         /\ Halted(S, [T EXCEPT !.work = NoWork])
         /\ \A known \in BOOLEAN : Halted(S, [T EXCEPT !.tiger = known])
  <1>1. ASSUME NEW st \in Statuses PROVE Halted(S, [T EXCEPT !.status = st])
      BY DEF Halted, States
  <1>2. Halted(S, [T EXCEPT !.work = NoWork])
    <2> DEFINE U == [T EXCEPT !.work = NoWork]
    <2>1. NoWork \in Works /\ NoWork.phase = "idle" /\ NoWork.kind = "none"
        BY DEF NoWork, Works, Phases
    <2>2. U \in States /\ U.dl = T.dl /\ U.conn = T.conn /\ U.map = T.map /\ U.work = NoWork
        BY <2>1 DEF Halted, States
    <2> HIDE DEF U
    <2>3. Halted(S, U)
        BY <2>1, <2>2 DEF Halted
    <2> QED
        BY <2>3 DEF U
  <1>3. ASSUME NEW known \in BOOLEAN PROVE Halted(S, [T EXCEPT !.tiger = known])
      BY DEF Halted, States
  <1> QED
      BY <1>1, <1>2, <1>3

-----------------------------------------------------------------------------
(* The invariant.                                                          *)

\* What is VALID, or was found to match, is good on disk, or spoilt by a surplus.
Sound(S, dk) ==
  /\ \A c \in Chunk : S.map[c] = "valid" => dk[c] \in {"good", "spoilt"}
  /\ S.work.phase = "returned" /\ S.work.kind = "hash" /\ S.work.result = "match"
       => \A c \in S.work.range : dk[c] \in {"good", "spoilt"}

Saved == [status : {"transfer", "pause"}, map : [Chunk -> Mark \ {"active"}]]

Others == /\ maxconn \in [Source -> 0 .. MaxPerHost]
          /\ disk \in [Chunk -> {"good", "bad", "spoilt"}]
          /\ inf \in Saved
          /\ up \in BOOLEAN
          /\ moved \in [name : {"none", "plain", "CORRUPTED_"}, content : {"none", "good", "bad"}]
          /\ stops \in 0 .. MaxStops /\ restarts \in 0 .. MaxRestarts

\* A start of the program writes to the disk: Sound is said of its first run.
IInv == /\ Others
        /\ Fine(Now)
        /\ ~up => OpenSlots(Now) = {} /\ work = NoWork
        /\ SavedVerdicts
        /\ restarts = 0 => Sound(Now, disk)

\* What one step may not do to a verdict, see ValidIsFinal.
Final == \A c \in Chunk :
           map[c] = "valid" => map'[c] = "valid" /\ disk'[c] \in {disk[c], "spoilt"}

\* What one step may not do to a chunk that is FULL or VALID.
Spares(m) == \A c \in Chunk : m[c] \in {"full", "valid"} => disk'[c] \in {disk[c], "spoilt"}

\* The state that a handler sees.
LEMMA NowIs ==
  /\ Now.status = status /\ Now.map = map /\ Now.tiger = tiger
  /\ Now.dl = dl /\ Now.conn = conn /\ Now.work = work
  BY DEF Now

\* The state that a handler leaves.
LEMMA BecomeIs ==
  ASSUME NEW S \in States, Become(S)
  PROVE  /\ Now' = S
         /\ status' = S.status /\ map' = S.map /\ tiger' = S.tiger
         /\ dl' = S.dl /\ conn' = S.conn /\ work' = S.work
  <1>1. S = [status |-> S.status, map |-> S.map, tiger |-> S.tiger, dl |-> S.dl, conn |-> S.conn,
             work |-> S.work]
      BY DEF States
  <1> QED
      BY <1>1 DEF Become, Now

\* The invariant implies what the runs check.
LEMMA Implied ==
  ASSUME IInv
  PROVE  /\ TypeOK /\ Leases /\ Accounting /\ HashedIsFull /\ SavedVerdicts
         /\ restarts = 0 => ValidIsGood
  <1>1. /\ Now \in States /\ Leased(Now) /\ Counted(Now) /\ Quiet(Now) /\ Working(Now) /\ Others
      BY DEF IInv, Fine
  <1>2. /\ status \in Statuses /\ map \in [Chunk -> Mark] /\ tiger \in BOOLEAN
        /\ dl \in [Slot -> Open \cup {Closed}] /\ conn \in [Source -> Int] /\ work \in Works
      BY <1>1, NowIs DEF States
  <1>3. conn \in [Source -> 0 .. Cardinality(Slot)]
    <2>1. ASSUME NEW s \in Source PROVE conn[s] \in 0 .. Cardinality(Slot)
      <3>1. conn[s] = Cardinality(OpenTo(Now, s))
          BY <1>1, NowIs DEF Counted
      <3>2. Cardinality(Slot) \in Nat
          BY SlotAssumption, FS_CardinalityType
      <3> QED
          BY <3>1, <3>2, OpenToIs
    <2> QED
        BY <1>2, <2>1
  <1>4. TypeOK
      BY <1>1, <1>2, <1>3 DEF TypeOK, Others, Works, Saved
  <1>5. ASSUME NEW c \in Chunk
        PROVE  Cardinality({d \in Slot : c \in LeaseOf(dl[d])}) = IF map[c] = "active" THEN 1 ELSE 0
    <2> DEFINE holders == {d \in Slot : c \in LeaseOf(dl[d])}
    <2>1. map[c] = "active" <=> holders # {}
        BY <1>1, NowIs DEF Leased
    <2>2. \A d, e \in holders : d = e
        BY <1>1, NowIs DEF Leased
    <2> HIDE DEF holders
    <2>3. CASE holders = {}
        BY <2>1, <2>3, FS_EmptySet DEF holders
    <2>4. CASE holders # {}
      <3>1. PICK d : holders = {d}
          BY <2>2, <2>4
      <3> QED
          BY <2>1, <2>4, <3>1, FS_Singleton DEF holders
    <2> QED
        BY <2>3, <2>4
  <1>6. Leases
      BY <1>5 DEF Leases
  <1>7. Accounting
      BY <1>1, NowIs DEF Accounting, Counted, Quiet, OpenTo
  <1>8. HashedIsFull
      BY <1>1, NowIs DEF HashedIsFull, Working
  <1>9. SavedVerdicts
      BY DEF IInv
  <1>10. restarts = 0 => ValidIsGood
      BY NowIs DEF IInv, Sound, ValidIsGood
  <1> QED
      BY <1>4, <1>6, <1>7, <1>8, <1>9, <1>10

\* A handler that leads from a fine state with true verdicts, P, to another one without
\* giving or taking a verdict, while data other than a surplus goes to chunks that are
\* neither FULL nor VALID, keeps the invariant.
LEMMA HandlerKeeps ==
  ASSUME IInv, NEW P, Fine(P), \A c \in Chunk : map[c] = "valid" => P.map[c] = "valid",
         restarts = 0 => Sound(P, disk),
         NEW S, Fine(S), Keeps(P, S), Become(S),
         up' = TRUE \/ (OpenSlots(S) = {} /\ S.work = NoWork),
         Others', restarts' = restarts,
         inf' = inf \/ SaveParams(S, status) \/ SaveParams(S, S.status) \/ inf' \in Torn,
         Spares(P.map)
  PROVE  IInv' /\ Final
  <1>1. S \in States
      BY DEF Fine
  <1>2. Now' = S /\ map' = S.map /\ work' = S.work
      BY <1>1, BecomeIs
  <1>3. Fine(Now')
      BY <1>2
  <1>4. (~up => OpenSlots(Now) = {} /\ work = NoWork)'
      BY <1>2
  <1>5. \A c \in Chunk : map[c] = "valid" => map'[c] = "valid"
      BY <1>2 DEF Keeps
  <1>6. SavedVerdicts'
    <2>1. CASE inf' = inf
        BY <2>1, <1>5 DEF SavedVerdicts, IInv
    <2>2. ASSUME NEW st, SaveParams(S, st), inf' # inf PROVE SavedVerdicts'
      <3>1. \A c \in Chunk : inf'.map[c] = IF S.map[c] = "active" THEN "empty" ELSE S.map[c]
          BY <2>2 DEF SaveParams
      <3> QED
          BY <1>2, <3>1 DEF SavedVerdicts
    <2>3. CASE inf' \in Torn
        BY <2>3 DEF SavedVerdicts, Torn
    <2> QED
        BY <2>1, <2>2, <2>3
  <1>7. restarts' = 0 => Sound(Now', disk')
    <2> SUFFICES ASSUME restarts = 0 PROVE Sound(S, disk')
        BY <1>2
    <2>1. Sound(P, disk)
        OBVIOUS
    <2>2. \A c \in Chunk : S.map[c] = "valid" => disk'[c] \in {"good", "spoilt"}
        BY <2>1 DEF Keeps, Sound, Spares
    <2>3. ASSUME S.work.phase = "returned", S.work.kind = "hash", S.work.result = "match",
                 NEW c \in S.work.range
          PROVE  disk'[c] \in {"good", "spoilt"}
      <3>1. P.work = S.work
          BY <2>3 DEF Keeps
      <3>2. c \in Chunk
          BY <1>1 DEF States, Works
      <3>3. P.map[c] = "full"
          BY <2>3, <3>1, <3>2 DEF Fine, Working
      <3> QED
          BY <2>1, <2>3, <3>1, <3>2, <3>3 DEF Sound, Spares
    <2> QED
        BY <2>2, <2>3 DEF Sound
  <1>8. Final
      BY <1>5 DEF Final, Spares
  <1> QED
      BY <1>3, <1>4, <1>6, <1>7, <1>8 DEF IInv

\* What a handler without a verdict of its own keeps.
LEMMA NoVerdictKeeps ==
  ASSUME IInv, NEW S, Fine(S), Keeps(Now, S), Become(S),
         up' = TRUE \/ (OpenSlots(S) = {} /\ S.work = NoWork),
         Others', restarts' = restarts,
         inf' = inf \/ SaveParams(S, status) \/ SaveParams(S, S.status) \/ inf' \in Torn,
         Spares(map)
  PROVE  IInv' /\ Final
  <1>1. Fine(Now) /\ (restarts = 0 => Sound(Now, disk))
      BY DEF IInv
  <1>2. Now.map = map
      BY NowIs
  <1> HIDE DEF Now
  <1> QED
      BY <1>1, <1>2, HandlerKeeps

\* A host's answer leaves the numbers of connections that hosts accept in their range.
LEMMA PerHostIs ==
  ASSUME IInv, NEW d \in Slot,
         PerHost(d) \/ UNCHANGED maxconn
  PROVE  maxconn' \in [Source -> 0 .. MaxPerHost]
  <1>1. maxconn \in [Source -> 0 .. MaxPerHost]
      BY DEF IInv, Others
  <1>2. CASE PerHost(d)
    <2>1. PICK n \in {maxconn[dl[d].src]} \cup 0 .. MaxPerHost :
            maxconn' = [maxconn EXCEPT ![dl[d].src] = n]
        BY <1>2 DEF PerHost
    <2>2. dl[d].src \in Source => n \in 0 .. MaxPerHost
        BY <1>1, <2>1
    <2> QED
        BY <1>1, <2>1, <2>2
  <1> QED
      BY <1>1, <1>2

\* What a handler that changes the shared state, and the number of connections that a
\* host accepts, keeps.
LEMMA AnswerKeeps ==
  ASSUME IInv, NEW S, Fine(S), Keeps(Now, S), Become(S), up, NEW d \in Slot,
         PerHost(d) \/ UNCHANGED maxconn,
         UNCHANGED <<disk, inf, up, moved, stops, restarts>>
  PROVE  IInv' /\ Final
  <1>1. maxconn' \in [Source -> 0 .. MaxPerHost]
      BY PerHostIs
  <1>2. Others' /\ up' = TRUE /\ Spares(map)
      BY <1>1 DEF IInv, Others, Spares
  <1> QED
      BY <1>2, NoVerdictKeeps

\* What a handler that changes the shared state alone keeps.
LEMMA SharedKeeps ==
  ASSUME IInv, NEW S, Fine(S), Keeps(Now, S), Become(S), up,
         UNCHANGED <<maxconn, disk, inf, up, moved, stops, restarts>>
  PROVE  IInv' /\ Final
  <1>1. Others' /\ up' = TRUE /\ Spares(map)
      BY DEF IInv, Others, Spares
  <1> QED
      BY <1>1, NoVerdictKeeps

\* Saving gives the .inf file a status and marks that it may have.
LEMMA SavedIs ==
  ASSUME NEW S \in States, NEW st, SaveParams(S, st), inf \in Saved
  PROVE  inf' \in Saved
  <1>1. \A c \in Chunk : (IF S.map[c] = "active" THEN "empty" ELSE S.map[c]) \in Mark \ {"active"}
      BY DEF States, Mark
  <1> QED
      BY <1>1 DEF SaveParams, Saved

\* A downloader that connects or waits has no lease, and one that fetches the tiger
\* tree has none.
LEMMA Leaseless ==
  ASSUME IInv, NEW d \in Slot, dl[d] # Closed,
         dl[d].st \in {"connect", "queue"} \/ dl[d].task = "tiger"
  PROVE  LeaseOf(dl[d]) = {}
  <1>1. dl[d] \in Open
      BY NowIs, OpenIs DEF IInv, Fine
  <1>2. CASE dl[d].st \in {"connect", "queue"}
      BY <1>2, NowIs DEF IInv, Fine, Resting
  <1>3. CASE dl[d].task = "tiger"
      BY <1>1, <1>3, LeaseIs
  <1> QED
      BY <1>2, <1>3

\* A connection that is made sends its request, or asks for the tiger tree.
LEMMA OnConnectedKeeps ==
  ASSUME IInv, NEW d \in Slot, OnConnected(d) PROVE IInv' /\ Final
  <1>1. PICK S \in OnIdle(Now, d) : Become(S)
      BY DEF OnConnected
  <1>2. Fine(Now) /\ Now.dl[d] # Closed /\ LeaseOf(Now.dl[d]) = {}
      BY Leaseless, NowIs DEF OnConnected, IInv
  <1>3. up /\ UNCHANGED <<maxconn, disk, inf, up, moved, stops, restarts>>
      BY DEF OnConnected
  <1> HIDE DEF Now
  <1>4. Fine(S) /\ Keeps(Now, S)
      BY <1>2, OnIdleIs
  <1> QED
      BY <1>1, <1>3, <1>4, SharedKeeps

\* A broken connection gives back its lease and its place in the host's count.
LEMMA BrokenKeeps ==
  ASSUME IInv, NEW d \in Slot, Broken(d) PROVE IInv' /\ Final
  <1> DEFINE S == Close(Now, d)
  <1>1. /\ Become(S) /\ up /\ UNCHANGED <<disk, inf, up, moved, stops, restarts>>
        /\ (PerHost(d) \/ UNCHANGED maxconn)
      BY DEF Broken, DetachMe
  <1>2. Fine(Now) /\ Now.dl[d] # Closed
      BY NowIs DEF Broken, IInv
  <1> HIDE DEF Now
  <1>3. Fine(S) /\ Keeps(Now, S)
      BY <1>2, CloseIs
  <1> HIDE DEF S
  <1> QED
      BY <1>1, <1>3, AnswerKeeps

\* A host that calls back (GIV) gets a downloader and is counted.
LEMMA HandleGIVKeeps ==
  ASSUME IInv, NEW s \in Source, HandleGIV(s) PROVE IInv' /\ Final
  <1>1. PICK d \in Slot \ OpenSlots(Now), garbage \in {"none", "file"} :
          \E U \in OnIdle(NewDownloader(Now, d, s, garbage), d) : Become(U)
      BY DEF HandleGIV
  <1> DEFINE T == NewDownloader(Now, d, s, garbage)
  <1>2. PICK U \in OnIdle(T, d) : Become(U)
      BY <1>1
  <1>3. /\ up /\ UNCHANGED <<maxconn, disk, inf, up, moved, stops, restarts>>
        /\ Fine(Now) /\ Now.status = "transfer"
      BY NowIs DEF HandleGIV, AllowDownloader, IInv
  <1>4. T = NewDownloader(Now, d, s, garbage)
      OBVIOUS
  <1> HIDE DEF Now, T
  <1>5. Fine(T) /\ Keeps(Now, T) /\ T.dl[d] # Closed /\ LeaseOf(T.dl[d]) = {}
      BY <1>3, <1>4, NewDownloaderIs
  <1>6. Fine(U) /\ Keeps(T, U)
      BY <1>2, <1>5, OnIdleIs
  <1>7. Keeps(Now, U)
      BY <1>5, <1>6, KeepsOn
  <1> QED
      BY <1>2, <1>3, <1>6, <1>7, SharedKeeps

\* A tiger tree that has come in lets its downloader go on to the file.
LEMMA TigerTaskCompleteKeeps ==
  ASSUME IInv, NEW d \in Slot, TigerTaskComplete(d) PROVE IInv' /\ Final
  <1>1. PICK known \in {tiger, TRUE} : \E U \in OnIdle([Now EXCEPT !.tiger = known], d) : Become(U)
      BY DEF TigerTaskComplete
  <1> DEFINE T == [Now EXCEPT !.tiger = known]
  <1>2. PICK U \in OnIdle(T, d) : Become(U)
      BY <1>1
  <1>3. /\ up /\ UNCHANGED <<maxconn, disk, inf, up, moved, stops, restarts>>
        /\ Fine(Now) /\ Now.dl[d] # Closed /\ LeaseOf(Now.dl[d]) = {} /\ Now.tiger = tiger
      BY Leaseless, NowIs DEF TigerTaskComplete, IInv
  <1> HIDE DEF Now
  <1>4. known \in BOOLEAN
      BY <1>3 DEF Fine, States
  <1>5. /\ T \in States /\ T.status = Now.status /\ T.map = Now.map /\ T.dl = Now.dl
        /\ T.conn = Now.conn /\ T.work = Now.work
      BY <1>3, <1>4 DEF Fine, States
  <1> HIDE DEF T
  <1>6. Fine(T) /\ Keeps(Now, T)
      BY <1>3, <1>5
      DEF Fine, Leased, Resting, Counted, Quiet, Working, Keeps, OpenSlots, OpenTo
  <1>7. Fine(U) /\ Keeps(T, U)
      BY <1>2, <1>3, <1>5, <1>6, OnIdleIs
  <1>8. Keeps(Now, U)
      BY <1>6, <1>7, KeepsOn
  <1> QED
      BY <1>2, <1>3, <1>7, <1>8, SharedKeeps

\* The headers of an answer change neither the lease nor the task of a downloader.
LEMMA AnsweredIs ==
  ASSUME IInv, NEW d \in Slot, dl[d] # Closed, NEW st \in {"transfer", "overrun"},
         NEW hasTiger \in {dl[d].hasTiger, TRUE},
         dl' = [dl EXCEPT ![d] = [[dl[d] EXCEPT !.st = st] EXCEPT !.hasTiger = hasTiger]],
         UNCHANGED <<status, map, tiger, conn, work>>
  PROVE  \E S : Fine(S) /\ Keeps(Now, S) /\ Become(S)
  <1>1. /\ Fine(Now) /\ Now \in States /\ dl[d] \in Open
        /\ dl \in [Slot -> Open \cup {Closed}]
      BY NowIs, OpenIs DEF IInv, Fine, States
  <1> DEFINE y == [dl[d] EXCEPT !.st = st]
             x == [y EXCEPT !.hasTiger = hasTiger]
             S == [Now EXCEPT !.dl = [dl EXCEPT ![d] = x]]
  <1>2. y \in Open /\ y.st = st /\ y.src = dl[d].src /\ y.task = dl[d].task
        /\ y.lease = dl[d].lease /\ hasTiger \in BOOLEAN
      BY <1>1 DEF Open
  <1>3. dl' = [dl EXCEPT ![d] = x]
      OBVIOUS
  <1> HIDE DEF y
  <1>4. /\ x \in Open /\ x.st = st /\ x.src = dl[d].src /\ x.task = dl[d].task
        /\ x.lease = dl[d].lease
      BY <1>2 DEF Open
  <1> HIDE DEF x
  <1>5. LeaseOf(x) = LeaseOf(dl[d]) /\ x # Closed
    <2>1. x # Closed
        BY <1>4 DEF Closed
    <2> QED
        BY <1>1, <1>4, <2>1, LeaseIs
  <1>6. /\ S \in States /\ S.status = status /\ S.map = map /\ S.tiger = tiger
        /\ S.dl = dl' /\ S.conn = conn /\ S.work = work
      BY <1>1, <1>3, <1>4, NowIs DEF States
  <1>7. /\ S.dl[d] # Closed /\ S.dl[d].src = Now.dl[d].src /\ S.dl[d].st \notin {"connect", "queue"}
        /\ LeaseOf(S.dl[d]) = LeaseOf(Now.dl[d])
        /\ \A e \in Slot \ {d} : S.dl[e] = Now.dl[e]
    <2>1. S.dl[d] = x /\ \A e \in Slot \ {d} : S.dl[e] = dl[e]
        BY <1>1, <1>3, <1>6
    <2> HIDE DEF S
    <2> QED
        BY <1>4, <1>5, <2>1, NowIs
  <1> HIDE DEF S
  <1>8. Fine(S)
    <2>1. Now.dl[d] # Closed /\ S.status = Now.status /\ S.work = Now.work /\ S.conn = Now.conn
          /\ S.map = Now.map
        BY <1>6, NowIs
    <2>2. \A c \in Chunk : c \in LeaseOf(Now.dl[d]) => Now.map[c] = "active"
        BY <1>1 DEF Fine, Leased
    <2> HIDE DEF Now
    <2>3. \A c \in Chunk :
            IF c \in LeaseOf(S.dl[d])
            THEN S.map[c] = "active" /\ (Now.map[c] = "active" => c \in LeaseOf(Now.dl[d]))
            ELSE S.map[c] = "active" <=> Now.map[c] = "active" /\ c \notin LeaseOf(Now.dl[d])
        BY <1>7, <2>1, <2>2
    <2> QED
        BY <1>1, <1>6, <1>7, <2>1, <2>3, SlotChanges
  <1>9. Keeps(Now, S)
      BY <1>6, NowIs DEF Keeps
  <1>10. Become(S)
      BY <1>6 DEF Become
  <1> QED
      BY <1>8, <1>9, <1>10

\* A host that answers lets the downloader read the body.
LEMMA OnHeadersKeeps ==
  ASSUME IInv, NEW d \in Slot, OnHeaders(d) PROVE IInv' /\ Final
  <1>1. PICK hasTiger \in {dl[d].hasTiger, TRUE} :
          dl' = [dl EXCEPT ![d] = [[dl[d] EXCEPT !.st = "transfer"] EXCEPT !.hasTiger = hasTiger]]
      BY Zenon DEF OnHeaders
  <1>2. /\ UNCHANGED <<status, map, tiger, conn, work, disk, inf, up, moved, stops, restarts>>
        /\ up /\ dl[d] # Closed /\ PerHost(d)
      BY DEF OnHeaders
  <1>3. PICK S : Fine(S) /\ Keeps(Now, S) /\ Become(S)
      BY <1>1, <1>2, AnsweredIs
  <1> QED
      BY <1>2, <1>3, AnswerKeeps

\* A downloader that is sent to a queue gives its lease back.
LEMMA OnQueuedKeeps ==
  ASSUME IInv, NEW d \in Slot, OnQueued(d) PROVE IInv' /\ Final
  <1>0. PICK hasTiger \in {dl[d].hasTiger, TRUE} :
          LET C == CancelTask(Now, d)
          IN Become([C EXCEPT !.dl = [C.dl EXCEPT ![d] =
                       [[C.dl[d] EXCEPT !.st = "queue"] EXCEPT !.hasTiger = hasTiger]]])
      BY Zenon DEF OnQueued
  <1> DEFINE T == CancelTask(Now, d)
             y == [T.dl[d] EXCEPT !.st = "queue"]
             x == [y EXCEPT !.hasTiger = hasTiger]
             S == [T EXCEPT !.dl = [T.dl EXCEPT ![d] = x]]
  <1>1. Become(S)
      BY <1>0
  <1>2. /\ up /\ UNCHANGED <<disk, inf, up, moved, stops, restarts>> /\ PerHost(d)
        /\ Fine(Now) /\ Now.dl[d] # Closed /\ hasTiger \in BOOLEAN
    <2>1. /\ up /\ UNCHANGED <<disk, inf, up, moved, stops, restarts>> /\ PerHost(d)
          /\ Fine(Now) /\ Now.dl[d] # Closed
        BY NowIs DEF OnQueued, IInv
    <2>2. dl[d] \in Open
        BY <2>1, NowIs, OpenIs DEF Fine
    <2> QED
        BY <2>1, <2>2 DEF Open
  <1>3. T = CancelTask(Now, d)
      OBVIOUS
  <1> HIDE DEF Now, T
  <1>4. /\ Fine(T) /\ Keeps(Now, T) /\ T.dl[d] \in Open /\ T.dl[d] # Closed /\ LeaseOf(T.dl[d]) = {}
        /\ T.dl[d].lease = NoChunk
    <2>1. Fine(T) /\ Keeps(Now, T)
        BY <1>2, <1>3, CancelTaskIs
    <2>2. T.dl[d] \in Open /\ T.dl[d].lease = NoChunk
        BY <1>2, <1>3, CancelTaskIs
    <2>3. T.dl[d] # Closed /\ LeaseOf(T.dl[d]) = {}
        BY <2>2, LeaseIs DEF Open, Closed
    <2> QED
        BY <2>1, <2>2, <2>3
  <1>5. T \in States /\ T.dl \in [Slot -> Open \cup {Closed}]
      BY <1>4 DEF Fine, States
  <1>6. y \in Open /\ y.src = T.dl[d].src /\ y.lease = NoChunk /\ y.st = "queue"
      BY <1>4 DEF Open
  <1> HIDE DEF y
  <1>7. x \in Open /\ x.src = T.dl[d].src /\ x.lease = NoChunk /\ x.st = "queue"
      BY <1>2, <1>6 DEF Open
  <1> HIDE DEF x
  <1>8. x # Closed /\ LeaseOf(x) = {}
    <2>1. x # Closed
        BY <1>7 DEF Closed
    <2> QED
        BY <1>7, <2>1, LeaseIs
  <1>9. /\ S \in States /\ S.dl = [T.dl EXCEPT ![d] = x] /\ S.map = T.map
        /\ S.status = T.status /\ S.conn = T.conn /\ S.work = T.work
      BY <1>5, <1>7 DEF States
  <1> HIDE DEF S
  <1>10. /\ S.dl[d] # Closed /\ S.dl[d].src = T.dl[d].src /\ LeaseOf(S.dl[d]) = {}
         /\ \A e \in Slot \ {d} : S.dl[e] = T.dl[e]
    <2>1. S.dl[d] = x
        BY <1>5, <1>9
    <2> QED
        BY <1>5, <1>7, <1>8, <1>9, <2>1
  <1>11. Fine(S)
    <2>1. \A c \in Chunk :
            IF c \in LeaseOf(S.dl[d])
            THEN S.map[c] = "active" /\ (T.map[c] = "active" => c \in LeaseOf(T.dl[d]))
            ELSE S.map[c] = "active" <=> T.map[c] = "active" /\ c \notin LeaseOf(T.dl[d])
        BY <1>4, <1>9, <1>10
    <2>2. \A c \in Chunk : T.map[c] = "full" => S.map[c] = "full"
        BY <1>9
    <2> QED
        BY <1>4, <1>9, <1>10, <2>1, <2>2, SlotChanges
  <1>12. Keeps(Now, S)
      BY <1>4, <1>9 DEF Keeps
  <1> QED
      BY <1>1, <1>2, <1>11, <1>12, AnswerKeeps

\* Data is written to a chunk that is leased, and so neither FULL nor VALID.
LEMMA OnDataKeeps ==
  ASSUME IInv, NEW d \in Slot, OnData(d) PROVE IInv' /\ Final
  <1>1. /\ dl[d] # Closed /\ dl[d].task = "file" /\ disk' = [disk EXCEPT ![dl[d].lease] = "bad"]
        /\ up /\ UNCHANGED <<status, map, tiger, dl, conn, maxconn, work, inf, up, moved, stops, restarts>>
      BY DEF OnData
  <1>2. dl[d] \in Open /\ Fine(Now) /\ disk \in [Chunk -> {"good", "bad", "spoilt"}]
      BY <1>1, NowIs, OpenIs DEF IInv, Fine, Others
  <1>3. Spares(map)
    <2>1. \A c \in Chunk : c \in LeaseOf(dl[d]) => map[c] = "active"
        BY <1>2, NowIs DEF Fine, Leased
    <2>2. \A c \in Chunk : c = dl[d].lease => c \in LeaseOf(dl[d])
        BY <1>1, <1>2, LeaseIs, NoneAssumption DEF Chunk
    <2> QED
        BY <1>1, <1>2, <2>1, <2>2 DEF Spares
  <1>4. Become(Now) /\ Keeps(Now, Now)
      BY <1>1, NowIs DEF Become, Keeps
  <1>5. Others' /\ up' = TRUE /\ restarts' = restarts /\ inf' = inf
      BY <1>1, <1>2 DEF IInv, Others
  <1> QED
      BY <1>2, <1>3, <1>4, <1>5, NoVerdictKeeps

\* The end of a part makes what was leased FULL, before the downloader is idle.
LEMMA FileTaskCompleteKeeps ==
  ASSUME IInv, NEW d \in Slot, FileTaskComplete(d) PROVE IInv' /\ Final
  <1> DEFINE m == Paint(map, {dl[d].lease}, "full")
             R == [Now EXCEPT !.map = m]
             x == [dl[d] EXCEPT !.lease = NoChunk]
             T == [R EXCEPT !.dl = [R.dl EXCEPT ![d] = [R.dl[d] EXCEPT !.lease = NoChunk]]]
  <1>1. PICK U \in OnIdle(T, d) : Become(U)
      BY Zenon DEF FileTaskComplete
  <1>2. PICK data \in {"good", "bad"} : disk' = [disk EXCEPT ![dl[d].lease] = data]
      BY DEF FileTaskComplete
  <1>3. /\ up /\ dl[d] # Closed /\ dl[d].st = "transfer" /\ dl[d].task = "file"
        /\ UNCHANGED <<maxconn, inf, up, moved, stops, restarts>>
      BY DEF FileTaskComplete
  <1>4. /\ Fine(Now) /\ Now \in States /\ dl[d] \in Open /\ map \in [Chunk -> Mark]
        /\ dl \in [Slot -> Open \cup {Closed}] /\ disk \in [Chunk -> {"good", "bad", "spoilt"}]
      BY <1>3, NowIs, OpenIs DEF IInv, Fine, States, Others
  <1>5. \A c \in Chunk : c = dl[d].lease <=> c \in LeaseOf(dl[d])
      BY <1>3, <1>4, LeaseIs, NoneAssumption DEF Chunk
  <1>6. \A c \in Chunk : c \in LeaseOf(dl[d]) => map[c] = "active"
      BY <1>4, NowIs DEF Fine, Leased
  <1>7. m \in [Chunk -> Mark] /\ \A c \in Chunk : m[c] = IF c \in LeaseOf(dl[d]) THEN "full" ELSE map[c]
      BY <1>4, <1>5, PaintIs DEF Mark
  <1> HIDE DEF m
  <1>8. /\ R \in States /\ R.map = m /\ R.dl = dl
        /\ R.status = status /\ R.tiger = tiger /\ R.conn = conn /\ R.work = work
      BY <1>4, <1>7, NowIs DEF States
  <1> HIDE DEF R
  <1>9. /\ x \in Open /\ x.st = "transfer" /\ x.src = dl[d].src /\ x.lease = NoChunk
      BY <1>3, <1>4 DEF Open
  <1>10. T = [R EXCEPT !.dl = [dl EXCEPT ![d] = x]]
      BY <1>8
  <1> HIDE DEF x, T
  <1>11. /\ T \in States /\ T.map = m /\ T.dl = [dl EXCEPT ![d] = x]
         /\ T.status = status /\ T.conn = conn /\ T.work = work
      BY <1>4, <1>8, <1>9, <1>10 DEF States
  <1>12. x # Closed /\ LeaseOf(x) = {}
    <2>1. x # Closed
        BY <1>9 DEF Open, Closed
    <2> QED
        BY <1>9, <2>1, LeaseIs
  <1>13. /\ T.dl[d] # Closed /\ T.dl[d].src = dl[d].src /\ LeaseOf(T.dl[d]) = {}
         /\ \A e \in Slot \ {d} : T.dl[e] = dl[e]
    <2>1. T.dl[d] = x
        BY <1>4, <1>11
    <2> QED
        BY <1>4, <1>9, <1>11, <1>12, <2>1
  <1>14. Fine(T)
    <2>1. /\ Now.dl = dl /\ Now.status = status /\ Now.work = work /\ Now.conn = conn /\ Now.map = map
        BY NowIs
    <2>2. \A c \in Chunk :
            IF c \in LeaseOf(T.dl[d])
            THEN T.map[c] = "active" /\ (Now.map[c] = "active" => c \in LeaseOf(Now.dl[d]))
            ELSE T.map[c] = "active" <=> Now.map[c] = "active" /\ c \notin LeaseOf(Now.dl[d])
        BY <1>7, <1>11, <1>13, <2>1
    <2>3. \A c \in Chunk : Now.map[c] = "full" => T.map[c] = "full"
        BY <1>7, <1>11, <2>1
    <2> HIDE DEF Now
    <2> QED
        BY <1>3, <1>4, <1>11, <1>13, <2>1, <2>2, <2>3, SlotChanges
  <1>15. Keeps(Now, T)
      BY <1>6, <1>7, <1>11, NowIs DEF Keeps
  <1>16. Fine(U) /\ Keeps(T, U)
      BY <1>1, <1>13, <1>14, OnIdleIs
  <1>17. Keeps(Now, U)
      BY <1>15, <1>16, KeepsOn
  <1>18. Spares(map)
      BY <1>2, <1>4, <1>5, <1>6 DEF Spares
  <1>19. Others' /\ up' = TRUE /\ restarts' = restarts /\ inf' = inf
      BY <1>2, <1>3, <1>4 DEF IInv, Others
  <1> QED
      BY <1>1, <1>16, <1>17, <1>18, <1>19, NoVerdictKeeps

\* The timer lets a downloader ask again, opens another one, and saves.
LEMMA OnTimerKeeps ==
  ASSUME IInv, OnTimer PROVE IInv' /\ Final
  <1>1. PICK asking \in {d \in OpenSlots(Now) : dl[d].st = "queue"} \cup {NoSlot} :
          \E S \in (IF asking = NoSlot THEN {Now} ELSE OnIdle(Now, asking)) :
            \E T \in ConnectSource(S) :
              Become(T) /\ (SaveParams(T, T.status) \/ UNCHANGED inf)
      BY DEF OnTimer
  <1>2. PICK S \in (IF asking = NoSlot THEN {Now} ELSE OnIdle(Now, asking)) :
          \E T \in ConnectSource(S) : Become(T) /\ (SaveParams(T, T.status) \/ UNCHANGED inf)
      BY <1>1
  <1>3. PICK T \in ConnectSource(S) : Become(T) /\ (SaveParams(T, T.status) \/ UNCHANGED inf)
      BY <1>2
  <1>4. up /\ UNCHANGED <<maxconn, disk, up, moved, stops, restarts>>
      BY DEF OnTimer
  <1>5. Fine(Now)
      BY DEF IInv
  <1>6. Fine(S) /\ Keeps(Now, S)
    <2>1. CASE S = Now
        BY <1>5, <2>1 DEF Keeps
    <2>2. CASE S # Now
      <3>1. asking \in Slot /\ Now.dl[asking] # Closed /\ LeaseOf(Now.dl[asking]) = {}
            /\ S \in OnIdle(Now, asking)
        <4>1. S \in OnIdle(Now, asking) /\ asking \in OpenSlots(Now) /\ dl[asking].st = "queue"
            BY <1>1, <1>2, <2>2
        <4>2. asking \in Slot /\ Now.dl[asking] # Closed
            BY <4>1 DEF OpenSlots
        <4> QED
            BY <4>1, <4>2, NowIs, Leaseless
      <3> HIDE DEF Now
      <3> QED
          BY <1>5, <3>1, OnIdleIs
    <2> QED
        BY <2>1, <2>2
  <1>7. Fine(T) /\ Keeps(S, T)
      BY <1>3, <1>6, ConnectSourceIs
  <1>8. Keeps(Now, T)
      BY <1>6, <1>7, KeepsOn
  <1>9. inf' \in Saved
      BY <1>3, <1>7, SavedIs DEF Fine, IInv, Others
  <1>10. Others' /\ up' = TRUE /\ restarts' = restarts /\ Spares(map)
      BY <1>4, <1>9 DEF IInv, Others, Spares
  <1> QED
      BY <1>3, <1>7, <1>8, <1>10, NoVerdictKeeps

\* Only the Work changes.
LEMMA WorkIs ==
  ASSUME NEW S, Fine(S), NEW w \in Works, NEW T, T = [S EXCEPT !.work = w]
  PROVE  /\ T \in States /\ T.status = S.status /\ T.map = S.map /\ T.tiger = S.tiger
         /\ T.dl = S.dl /\ T.conn = S.conn /\ T.work = w
         /\ Working(T) => Fine(T)
  <1>1. S \in States
      BY DEF Fine
  <1>2. /\ T \in States /\ T.status = S.status /\ T.map = S.map /\ T.tiger = S.tiger
        /\ T.dl = S.dl /\ T.conn = S.conn /\ T.work = w
      BY <1>1 DEF States
  <1>3. Leased(T) /\ Resting(T) /\ Counted(T) /\ Quiet(T)
      BY <1>2 DEF Fine, Leased, Resting, Counted, Quiet, OpenSlots, OpenTo
  <1> QED
      BY <1>2, <1>3 DEF Fine

\* The program is running when the Work is not idle.
LEMMA WorkIsUp ==
  ASSUME IInv, work.phase # "idle" PROVE up
  BY DEF IInv, NoWork, Others

\* The worker takes the task of a queued Work.
LEMMA WorkStartsKeeps ==
  ASSUME IInv, WorkStarts PROVE IInv' /\ Final
  <1> DEFINE w == [work EXCEPT !.phase = "running"]
             S == [Now EXCEPT !.work = w]
  <1>1. /\ work.phase = "queued" /\ work' = w
        /\ UNCHANGED <<status, map, tiger, dl, conn, maxconn, disk, inf, up, moved, stops, restarts>>
      BY DEF WorkStarts
  <1>2. up /\ Fine(Now) /\ work \in Works /\ Now.work = work /\ Working(Now)
      BY <1>1, WorkIsUp, NowIs DEF IInv, Fine, States
  <1>3. w \in Works /\ w.phase = "running" /\ w.kind = work.kind /\ w.range = work.range
      BY <1>2 DEF Works, Phases
  <1>4. S = [Now EXCEPT !.work = w]
      OBVIOUS
  <1> HIDE DEF w, S
  <1>5. /\ S.status = status /\ S.map = map /\ S.tiger = tiger
        /\ S.dl = dl /\ S.conn = conn /\ S.work = w /\ (Working(S) => Fine(S))
    <2>1. /\ S.status = Now.status /\ S.map = Now.map /\ S.tiger = Now.tiger
          /\ S.dl = Now.dl /\ S.conn = Now.conn /\ S.work = w /\ (Working(S) => Fine(S))
      <3> HIDE DEF Now
      <3> QED
          BY <1>2, <1>3, <1>4, WorkIs
    <2> QED
        BY <2>1, NowIs
  <1>6. Working(S)
      BY <1>1, <1>2, <1>3, <1>5, NowIs DEF Working
  <1>7. Keeps(Now, S)
      BY <1>3, <1>5, NowIs DEF Keeps
  <1>8. Become(S)
      BY <1>1, <1>5 DEF Become
  <1> QED
      BY <1>1, <1>2, <1>5, <1>6, <1>7, <1>8, SharedKeeps

\* A task whose result is no longer wanted has returned.
LEMMA WorkDrainedKeeps ==
  ASSUME IInv, WorkDrained PROVE IInv' /\ Final
  <1> DEFINE S == [Now EXCEPT !.work = NoWork]
  <1>1. /\ work.phase = "drained" /\ work' = NoWork
        /\ UNCHANGED <<status, map, tiger, dl, conn, maxconn, disk, inf, up, moved, stops, restarts>>
      BY DEF WorkDrained
  <1>2. up /\ Fine(Now)
      BY <1>1, WorkIsUp DEF IInv
  <1>3. NoWork \in Works /\ NoWork.phase = "idle" /\ NoWork.kind = "none"
      BY DEF NoWork, Works, Phases
  <1>4. S = [Now EXCEPT !.work = NoWork]
      OBVIOUS
  <1> HIDE DEF S
  <1>5. /\ S.status = status /\ S.map = map /\ S.tiger = tiger
        /\ S.dl = dl /\ S.conn = conn /\ S.work = NoWork /\ (Working(S) => Fine(S))
    <2>1. /\ S.status = Now.status /\ S.map = Now.map /\ S.tiger = Now.tiger
          /\ S.dl = Now.dl /\ S.conn = Now.conn /\ S.work = NoWork /\ (Working(S) => Fine(S))
      <3> HIDE DEF Now
      <3> QED
          BY <1>2, <1>3, <1>4, WorkIs
    <2> QED
        BY <2>1, NowIs
  <1>6. Working(S)
      BY <1>3, <1>5 DEF Working
  <1>7. Keeps(Now, S)
      BY <1>3, <1>5, NowIs DEF Keeps
  <1>8. Become(S)
      BY <1>1, <1>5 DEF Become
  <1> QED
      BY <1>1, <1>2, <1>5, <1>6, <1>7, <1>8, SharedKeeps

\* The worker returns a match only when what it has read is good.
LEMMA WorkReturnsKeeps ==
  ASSUME IInv, WorkReturns PROVE IInv' /\ Final
  <1>1. PICK result \in IF work.kind = "copy" THEN {"error", IF Good(Chunk) THEN "good" ELSE "bad"}
                        ELSE {IF Good(work.range) /\ \A c \in work.range : Leaf(c) \subseteq work.range
                              THEN "match" ELSE "differ"}
                             \cup {e \in {"error"} : HashFails} :
          work' = [[work EXCEPT !.phase = "returned"] EXCEPT !.result = result]
      BY Zenon DEF WorkReturns
  <1>2. /\ work.phase = "running"
        /\ UNCHANGED <<status, map, tiger, dl, conn, maxconn, disk, inf, up, moved, stops, restarts>>
      BY DEF WorkReturns
  <1> DEFINE v == [work EXCEPT !.phase = "returned"]
             w == [v EXCEPT !.result = result]
             S == [Now EXCEPT !.work = w]
  <1>3. up /\ Fine(Now) /\ work \in Works /\ Now.work = work /\ Working(Now)
      BY <1>2, WorkIsUp, NowIs DEF IInv, Fine, States
  <1>4. v \in Works /\ v.phase = "returned" /\ v.kind = work.kind /\ v.range = work.range
      BY <1>3 DEF Works, Phases
  <1>5. /\ work.kind = "copy" => result \in {"error", "good", "bad"}
        /\ work.kind # "copy" => result \in {"match", "differ", "error"}
        /\ work.kind # "copy" /\ result = "match" => Good(work.range)
      BY <1>1
  <1>6. work' = w
      BY <1>1
  <1> HIDE DEF v
  <1>7. /\ w \in Works /\ w.phase = "returned" /\ w.kind = work.kind /\ w.range = work.range
        /\ w.result = result
      BY <1>4, <1>5 DEF Works
  <1>8. S = [Now EXCEPT !.work = w]
      OBVIOUS
  <1> HIDE DEF w, S
  <1>9. /\ S.status = status /\ S.map = map /\ S.tiger = tiger
        /\ S.dl = dl /\ S.conn = conn /\ S.work = w /\ (Working(S) => Fine(S))
    <2>1. /\ S.status = Now.status /\ S.map = Now.map /\ S.tiger = Now.tiger
          /\ S.dl = Now.dl /\ S.conn = Now.conn /\ S.work = w /\ (Working(S) => Fine(S))
      <3> HIDE DEF Now
      <3> QED
          BY <1>3, <1>7, <1>8, WorkIs
    <2> QED
        BY <2>1, NowIs
  <1>10. Fine(S)
    <2>1. Working(S)
        BY <1>2, <1>3, <1>5, <1>7, <1>9, NowIs DEF Working
    <2> QED
        BY <1>9, <2>1
  <1>11. restarts = 0 => Sound(S, disk)
      BY <1>5, <1>7, <1>9, NowIs DEF Sound, IInv, Good
  <1>12. Keeps(S, S) /\ \A c \in Chunk : map[c] = "valid" => S.map[c] = "valid"
      BY <1>9 DEF Keeps
  <1>13. Become(S)
      BY <1>2, <1>6, <1>9 DEF Become
  <1>14. Others' /\ up' = TRUE /\ restarts' = restarts /\ inf' = inf /\ Spares(S.map)
      BY <1>2, <1>3 DEF IInv, Others, Spares
  <1> QED
      BY <1>10, <1>11, <1>12, <1>13, <1>14, HandlerKeeps

\* The state without the Work that has returned is fine.
LEMMA IdleIs ==
  ASSUME IInv
  PROVE  /\ Idle \in States /\ Fine(Idle) /\ Keeps(Now, Idle)
         /\ Idle.status = status /\ Idle.map = map /\ Idle.dl = dl /\ Idle.conn = conn
         /\ Idle.tiger = tiger /\ Idle.work = NoWork
         /\ NoWork \in Works /\ NoWork.phase = "idle" /\ NoWork.kind = "none"
  <1>1. NoWork \in Works /\ NoWork.phase = "idle" /\ NoWork.kind = "none"
      BY DEF NoWork, Works, Phases
  <1>2. Fine(Now)
      BY DEF IInv
  <1> DEFINE S == Idle
  <1>3. S = [Now EXCEPT !.work = NoWork]
      BY DEF Idle
  <1> HIDE DEF S
  <1>4. /\ S \in States /\ S.status = Now.status /\ S.map = Now.map /\ S.tiger = Now.tiger
        /\ S.dl = Now.dl /\ S.conn = Now.conn /\ S.work = NoWork /\ (Working(S) => Fine(S))
    <2> HIDE DEF Now
    <2> QED
        BY <1>1, <1>2, <1>3, WorkIs
  <1>5. Fine(S) /\ Keeps(Now, S)
    <2>1. Working(S)
        BY <1>1, <1>4 DEF Working
    <2> QED
        BY <1>1, <1>4, <2>1 DEF Keeps
  <1> QED
      BY <1>1, <1>4, <1>5, NowIs DEF S

\* A verdict goes to chunks that are FULL; a download that hashes the whole file then
\* has one verdict for all of it.
LEMMA HashedKeeps ==
  ASSUME IInv, Hashed PROVE IInv' /\ Final
  <1> DEFINE verdict == IF work.result = "match" THEN "valid" ELSE "invalid"
             m == Paint(map, work.range, verdict)
             P == [Idle EXCEPT !.map = m]
             S == FileUpdated(P)
  <1>1. /\ work.phase = "returned" /\ work.kind = "hash"
        /\ IF work.result = "error" THEN Become(Idle) ELSE Become(S)
        /\ UNCHANGED <<maxconn, disk, inf, up, moved, stops, restarts>>
      BY DEF Hashed
  <1>2. up
      BY <1>1, WorkIsUp
  <1>3. /\ Fine(Now) /\ Working(Now) /\ map \in [Chunk -> Mark] /\ work \in Works
      BY NowIs DEF IInv, Fine, States
  <1>4. CASE work.result = "error"
    <2>1. Fine(Idle) /\ Keeps(Now, Idle)
        BY IdleIs
    <2> QED
        BY <1>1, <1>2, <1>4, <2>1, SharedKeeps
  <1>5. CASE work.result # "error"
    <2>1. verdict \in {"valid", "invalid"}
        OBVIOUS
    <2> HIDE DEF verdict
    <2>2. m \in [Chunk -> Mark] /\ \A c \in Chunk : m[c] = IF c \in work.range THEN verdict ELSE map[c]
        BY <1>3, <2>1, PaintIs DEF Mark
    <2>3. /\ work.range \subseteq Chunk /\ \A c \in work.range : map[c] = "full"
          /\ status = IF work.range = Chunk THEN "hash" ELSE "transfer"
        BY <1>1, <1>3, NowIs DEF Working, Works
    <2> HIDE DEF m
    <2>4. /\ P \in States /\ P.map = m /\ P.dl = dl /\ P.conn = conn /\ P.status = status
          /\ P.tiger = tiger /\ P.work = NoWork
        BY <2>2, IdleIs DEF States
    <2> HIDE DEF P
    <2>5. Fine(P)
      <3>1. Working(P)
          BY <2>4, IdleIs DEF Working
      <3>2. Leased(P)
          BY <1>3, <2>1, <2>2, <2>3, <2>4, NowIs DEF Fine, Leased
      <3>3. Resting(P) /\ Counted(P) /\ Quiet(P)
          BY <1>3, <2>4, NowIs DEF Fine, Resting, Counted, Quiet, OpenSlots, OpenTo
      <3> QED
          BY <2>4, <3>1, <3>2, <3>3 DEF Fine
    <2>6. P.status # "transfer" => MaskOf(P.map) \in {{"valid"}, {"invalid"}}
      <3> SUFFICES ASSUME P.status # "transfer" PROVE MaskOf(m) = {verdict}
          BY <2>1, <2>4
      <3>1. work.range = Chunk
          BY <2>3, <2>4
      <3>2. \A c \in Chunk : m[c] = verdict
          BY <2>2, <3>1
      <3>3. 0 \in Chunk
          BY NumbersAssumption DEF Chunk
      <3> QED
          BY <3>2, <3>3 DEF MaskOf
    <2>7. Fine(S) /\ Keeps(P, S)
      <3>1. S = FileUpdated(P)
          OBVIOUS
      <3> HIDE DEF S
      <3> QED
          BY <2>5, <2>6, <3>1, FileUpdatedIs
    <2>8. \A c \in Chunk : map[c] = "valid" => P.map[c] = "valid"
        BY <2>2, <2>3, <2>4
    <2>9. restarts = 0 => Sound(P, disk)
      <3> SUFFICES ASSUME restarts = 0 PROVE Sound(P, disk)
          OBVIOUS
      <3>1. Sound(Now, disk)
          BY DEF IInv
      <3>2. ASSUME NEW c \in Chunk, m[c] = "valid" PROVE disk[c] \in {"good", "spoilt"}
        <4>1. CASE c \in work.range
          <5>1. work.result = "match"
              BY <2>2, <3>2, <4>1 DEF verdict
          <5> QED
              BY <1>1, <3>1, <4>1, <5>1, NowIs DEF Sound
        <4>2. CASE c \notin work.range
            BY <2>2, <3>1, <3>2, <4>2, NowIs DEF Sound
        <4> QED
            BY <4>1, <4>2
      <3> QED
          BY <2>4, <3>2, IdleIs DEF Sound
    <2>10. Others' /\ up' = TRUE /\ restarts' = restarts /\ inf' = inf /\ Spares(P.map)
        BY <1>1, <1>2 DEF IInv, Others, Spares
    <2> HIDE DEF S
    <2>11. Become(S)
        BY <1>1, <1>5
    <2> QED
        BY <2>5, <2>7, <2>8, <2>9, <2>10, <2>11, HandlerKeeps
  <1> QED
      BY <1>4, <1>5

\* The download is detached after a copy, or left in ERROR without a downloader.
LEMMA CopiedKeeps ==
  ASSUME IInv, Copied PROVE IInv' /\ Final
  <1>1. /\ work.phase = "returned" /\ work.kind = "copy"
        /\ UNCHANGED <<maxconn, disk, inf, up, stops, restarts>>
      BY DEF Copied
  <1>2. up
      BY <1>1, WorkIsUp
  <1>3. Fine(Now) /\ status = "move" /\ work.result \in {"error", "good", "bad"}
      BY <1>1, NowIs DEF IInv, Fine, Working
  <1>4. Fine(Idle) /\ Keeps(Now, Idle) /\ Idle.dl = dl
      BY IdleIs
  <1>5. CASE work.result = "error"
    <2> DEFINE S == [Idle EXCEPT !.status = "error"]
    <2>1. Become(S) /\ moved' = moved
        BY <1>5 DEF Copied
    <2>2. /\ S \in States /\ S.status = "error" /\ S.map = Idle.map /\ S.dl = Idle.dl
          /\ S.conn = Idle.conn /\ S.work = NoWork
        BY IdleIs DEF States, Statuses
    <2> HIDE DEF S
    <2>3. OpenSlots(S) = {}
        BY <1>3, <1>4, <2>2, NowIs DEF Fine, Quiet, OpenSlots
    <2>4. Working(S)
        BY <2>2, IdleIs DEF Working
    <2>5. Fine(S)
      <3>1. Leased(S) /\ Resting(S) /\ Counted(S)
          BY <1>4, <2>2 DEF Fine, Leased, Resting, Counted, OpenSlots, OpenTo
      <3> QED
          BY <2>2, <2>3, <2>4, <3>1 DEF Fine, Quiet
    <2>6. Keeps(Now, S)
        BY <1>4, <2>2, IdleIs DEF Keeps
    <2> QED
        BY <1>1, <1>2, <2>1, <2>5, <2>6, SharedKeeps
  <1>6. CASE work.result # "error"
    <2> DEFINE T == Stopped(Idle)
               S == [T EXCEPT !.status = "gone"]
    <2>1. /\ Become(S)
          /\ moved' = [name |-> IF MaskOf(map) = {"invalid"} THEN "CORRUPTED_" ELSE "plain",
                       content |-> work.result]
        BY <1>6 DEF Copied
    <2>2. Halted(Idle, T)
        BY <1>4, StoppedIs
    <2> HIDE DEF T
    <2>3. Halted(Idle, S)
        BY <2>2, HaltedOn DEF Statuses
    <2> HIDE DEF S
    <2>4. Fine(S) /\ Keeps(Idle, S)
        BY <2>3, HaltedIs
    <2>5. Keeps(Now, S)
        BY <1>4, <2>4, KeepsOn
    <2>6. Others' /\ up' = TRUE /\ restarts' = restarts /\ inf' = inf /\ Spares(map)
        BY <1>1, <1>2, <1>3, <1>6, <2>1 DEF IInv, Others, Spares
    <2> QED
        BY <2>1, <2>4, <2>5, <2>6, NoVerdictKeeps
  <1> QED
      BY <1>5, <1>6

\* Resuming needs no downloader and no Work.
LEMMA ResumeKeeps ==
  ASSUME IInv, ManagerResumes \/ UserResumes PROVE IInv' /\ Final
  <1>1. PICK st \in {"transfer", "error"} : Become([Now EXCEPT !.status = st])
      BY DEF ManagerResumes, UserResumes, Resumed
  <1>2. /\ up /\ status \in {"stop", "pause"}
        /\ UNCHANGED <<maxconn, disk, inf, up, moved, stops, restarts>>
      BY DEF ManagerResumes, UserResumes
  <1> DEFINE S == [Now EXCEPT !.status = st]
  <1>3. Fine(Now) /\ Now.status = status
      BY NowIs DEF IInv
  <1>4. Become(S)
      BY <1>1
  <1> HIDE DEF Now
  <1>5. /\ S \in States /\ S.status = st /\ S.map = Now.map /\ S.dl = Now.dl
        /\ S.conn = Now.conn /\ S.work = Now.work
      BY <1>3 DEF Fine, States, Statuses
  <1> HIDE DEF S
  <1>6. Working(S)
      BY <1>2, <1>3, <1>5 DEF Fine, Working
  <1>7. Leased(S) /\ Resting(S) /\ Counted(S)
      BY <1>3, <1>5 DEF Fine, Leased, Resting, Counted, OpenSlots, OpenTo
  <1>8. Quiet(S)
      BY <1>2, <1>3, <1>5 DEF Fine, Quiet, OpenSlots
  <1>9. Fine(S)
      BY <1>5, <1>6, <1>7, <1>8 DEF Fine
  <1>10. Keeps(Now, S)
      BY <1>5 DEF Keeps
  <1> QED
      BY <1>2, <1>4, <1>9, <1>10, SharedKeeps

\* What is saved depends on the map alone.
LEMMA SaveParamsIs ==
  ASSUME NEW S, NEW T, NEW st, SaveParams(T, st), \A c \in Chunk : S.map[c] = T.map[c]
  PROVE  SaveParams(S, st)
  BY DEF SaveParams

\* What halts the download keeps the invariant, whatever is saved then.
LEMMA HaltKeeps ==
  ASSUME IInv, NEW S, Halted(Now, S), Become(S), NEW T, Halted(Now, T),
         inf' = inf \/ SaveParams(T, status) \/ inf' \in Torn,
         up' = TRUE \/ (up' = FALSE /\ S.work = NoWork),
         maxconn' \in [Source -> 0 .. MaxPerHost], disk' \in [Chunk -> {"good", "bad", "spoilt"}],
         Spares(map), UNCHANGED <<moved, restarts>>, stops' \in 0 .. MaxStops
  PROVE  IInv' /\ Final
  <1>1. Fine(S) /\ Keeps(Now, S) /\ OpenSlots(S) = {} /\ S \in States
      BY HaltedIs DEF Halted
  <1>2. inf' = inf \/ SaveParams(S, status) \/ inf' \in Torn
    <2>1. \A c \in Chunk : S.map[c] = T.map[c]
        BY DEF Halted
    <2> QED
        BY <2>1, SaveParamsIs
  <1>3. inf' \in Saved
    <2>1. CASE inf' \in Torn
        BY <2>1 DEF Torn, Saved, Mark
    <2> QED
        BY <1>1, <1>2, <2>1, SavedIs DEF IInv, Others
  <1>4. Others'
      BY <1>3 DEF IInv, Others
  <1> QED
      BY <1>1, <1>2, <1>4, NoVerdictKeeps

\* What an order that halts the download does to the rest of the state.
LEMMA OrderKeeps ==
  ASSUME IInv, NEW S, Halted(Now, S), Become(S), NEW T, Halted(Now, T),
         inf' = inf \/ SaveParams(T, status) \/ inf' \in Torn,
         up' = TRUE \/ (up' = FALSE /\ S.work = NoWork),
         UNCHANGED <<maxconn, disk, moved, restarts>>, stops' \in 0 .. MaxStops
  PROVE  IInv' /\ Final
  <1>1. /\ maxconn' \in [Source -> 0 .. MaxPerHost] /\ Spares(map)
        /\ disk' \in [Chunk -> {"good", "bad", "spoilt"}]
      BY DEF IInv, Others, Spares
  <1> QED
      BY <1>1, HaltKeeps

\* A download that is stopped, paused, cancelled or shut down is halted.
LEMMA OrdersKeep ==
  ASSUME IInv, ManagerStops \/ Pause \/ Cancel \/ Shutdown PROVE IInv' /\ Final
  <1> DEFINE T == Stopped(Now)
  <1>1. Halted(Now, T)
      BY StoppedIs DEF IInv
  <1>2. /\ Halted(Now, [T EXCEPT !.status = "pause"])
        /\ Halted(Now, [T EXCEPT !.status = "gone"])
        /\ Halted(Now, [T EXCEPT !.work = NoWork])
    <2>1. "pause" \in Statuses /\ "gone" \in Statuses
        BY DEF Statuses
    <2> HIDE DEF T, Now
    <2> QED
        BY <1>1, <2>1, HaltedOn
  <1>3. stops < MaxStops => stops + 1 \in 0 .. MaxStops
      BY BoundsAssumption DEF IInv, Others
  <1>4. stops \in 0 .. MaxStops /\ up \in BOOLEAN
      BY DEF IInv, Others
  <1>5. CASE ManagerStops
    <2>1. Become(T) /\ SaveParams(T, status) /\ up' = TRUE /\ stops' \in 0 .. MaxStops
          /\ UNCHANGED <<maxconn, disk, moved, restarts>>
        BY <1>3, <1>5 DEF ManagerStops
    <2> HIDE DEF T
    <2> QED
        BY <1>1, <2>1, OrderKeeps
  <1>6. CASE Pause
    <2> DEFINE S == [T EXCEPT !.status = "pause"]
    <2>1. Become(S) /\ SaveParams(T, status) /\ up' = TRUE /\ stops' \in 0 .. MaxStops
          /\ UNCHANGED <<maxconn, disk, moved, restarts>>
        BY <1>3, <1>6 DEF Pause
    <2>2. Halted(Now, S)
        BY <1>2
    <2> HIDE DEF S, T
    <2> QED
        BY <1>1, <2>1, <2>2, OrderKeeps
  <1>7. CASE Cancel
    <2> DEFINE S == [T EXCEPT !.status = "gone"]
    <2>1. Become(S) /\ inf' = inf /\ up' = TRUE /\ stops' \in 0 .. MaxStops
          /\ UNCHANGED <<maxconn, disk, moved, restarts>>
        BY <1>3, <1>7 DEF Cancel
    <2>2. Halted(Now, S)
        BY <1>2
    <2> HIDE DEF S, T
    <2> QED
        BY <1>1, <2>1, <2>2, OrderKeeps
  <1>8. CASE Shutdown
    <2> DEFINE S == [T EXCEPT !.work = NoWork]
    <2>1. Become(S) /\ SaveParams(T, status) /\ up' = FALSE /\ stops' \in 0 .. MaxStops
          /\ UNCHANGED <<maxconn, disk, moved, restarts>>
        BY <1>4, <1>8 DEF Shutdown
    <2>2. Halted(Now, S)
        BY <1>2
    <2>3. S.work = NoWork
        BY <1>1 DEF Halted, States
    <2> HIDE DEF S, T
    <2> QED
        BY <1>1, <2>1, <2>2, <2>3, OrderKeeps
  <1> QED
      BY <1>5, <1>6, <1>7, <1>8

\* A program that ends loses its downloaders, its Work, and maybe the tiger tree.
LEMMA DiesIs ==
  ASSUME IInv, Dies
  PROVE  up' = FALSE /\ \E S : Halted(Now, S) /\ Become(S) /\ S.work = NoWork
  <1> DEFINE C == CloseDownloaders(Now)
             D == [C EXCEPT !.work = NoWork]
  <1>1. PICK known \in {FALSE, tiger} : Become([D EXCEPT !.tiger = known])
      BY Zenon DEF Dies
  <1> DEFINE S == [D EXCEPT !.tiger = known]
  <1>2. up' = FALSE
      BY DEF Dies
  <1>3. Fine(Now) /\ known \in BOOLEAN
      BY NowIs DEF IInv, Fine, States
  <1>4. C = CloseDownloaders(Now)
      OBVIOUS
  <1> HIDE DEF C, Now
  <1>5. /\ C \in States
        /\ \A d \in Slot : C.dl[d] = Closed
        /\ \A s \in Source : C.conn[s] = 0
        /\ \A c \in Chunk : C.map[c] = IF Now.map[c] = "active" THEN "empty" ELSE Now.map[c]
      BY <1>3, <1>4, CloseDownloadersIs
  <1>6. NoWork \in Works /\ NoWork.phase = "idle" /\ NoWork.kind = "none"
      BY DEF NoWork, Works, Phases
  <1>7. /\ D \in States /\ D.dl = C.dl /\ D.conn = C.conn /\ D.map = C.map /\ D.work = NoWork
      BY <1>5, <1>6 DEF States
  <1> HIDE DEF D
  <1>8. Halted(Now, D)
      BY <1>5, <1>6, <1>7 DEF Halted
  <1>9. Halted(Now, S)
      BY <1>3, <1>8, HaltedOn
  <1>10. S.work = NoWork
      BY <1>3, <1>7 DEF States
  <1>11. Become(S)
      BY <1>1
  <1> HIDE DEF S
  <1> QED
      BY <1>2, <1>9, <1>10, <1>11

\* A crash may also cut short what is being saved.
LEMMA CrashKeeps ==
  ASSUME IInv, Crash PROVE IInv' /\ Final
  <1>1. Dies /\ UNCHANGED <<maxconn, disk, moved, stops, restarts>> /\ inf' \in {inf} \cup Torn
      BY DEF Crash
  <1>2. PICK S : Halted(Now, S) /\ Become(S) /\ S.work = NoWork
      BY <1>1, DiesIs
  <1>3. up' = FALSE
      BY <1>1, DiesIs
  <1>4. stops' \in 0 .. MaxStops
      BY <1>1 DEF IInv, Others
  <1> QED
      BY <1>1, <1>2, <1>3, <1>4, OrderKeeps

\* A surplus is written over the chunk that is leased, and over others as a surplus;
\* the program ends, or the downloader keeps its lease.
LEMMA OnSurplusKeeps ==
  ASSUME IInv, NEW d \in Slot, OnSurplus(d) PROVE IInv' /\ Final
  <1>1. PICK past \in 0 .. MaxSurplus : disk' = WrittenOver(d, past)
      BY DEF OnSurplus
  <1>2. /\ dl[d] # Closed /\ up /\ (PerHost(d) \/ UNCHANGED maxconn)
        /\ UNCHANGED <<inf, moved, stops, restarts>>
      BY DEF OnSurplus
  <1>3. disk \in [Chunk -> {"good", "bad", "spoilt"}] /\ Fine(Now) /\ stops \in 0 .. MaxStops
      BY DEF IInv, Others
  <1>4. disk' \in [Chunk -> {"good", "bad", "spoilt"}]
      BY <1>1, <1>3 DEF WrittenOver
  <1>5. Spares(map)
    <2>1. \A c \in Chunk : c \in LeaseOf(dl[d]) => map[c] = "active"
        BY <1>3, NowIs DEF Fine, Leased
    <2> QED
        BY <1>1, <2>1 DEF Spares, WrittenOver
  <1>6. maxconn' \in [Source -> 0 .. MaxPerHost]
      BY <1>2, PerHostIs
  <1>7. CASE Dies
    <2>1. PICK S : Halted(Now, S) /\ Become(S) /\ S.work = NoWork
        BY <1>7, DiesIs
    <2>2. up' = FALSE
        BY <1>7, DiesIs
    <2> QED
        BY <1>2, <1>3, <1>4, <1>5, <1>6, <2>1, <2>2, HaltKeeps
  <1>8. CASE ~Dies
    <2>1. PICK hasTiger \in {dl[d].hasTiger, TRUE} :
            dl' = [dl EXCEPT ![d] = [[dl[d] EXCEPT !.st = "overrun"] EXCEPT !.hasTiger = hasTiger]]
        BY <1>8, Zenon DEF OnSurplus
    <2>2. UNCHANGED <<status, map, tiger, conn, work, up>>
        BY <1>8 DEF OnSurplus
    <2>3. PICK S : Fine(S) /\ Keeps(Now, S) /\ Become(S)
        BY <1>2, <2>1, <2>2, AnsweredIs
    <2>4. Others' /\ up' = TRUE
        BY <1>2, <1>4, <1>6, <2>2 DEF IInv, Others
    <2> QED
        BY <1>2, <1>5, <2>3, <2>4, NoVerdictKeeps
  <1> QED
      BY <1>7, <1>8

\* The next start of the program finds the marks that were saved, and no downloader.
LEMMA StartKeeps ==
  ASSUME IInv, Start PROVE IInv'
  <1> DEFINE st == IF inf.status = "pause" THEN "pause" ELSE "stop"
             R == [Now EXCEPT !.status = st]
             S == [R EXCEPT !.map = inf.map]
  <1>1. Become(S)
      BY Zenon DEF Start
  <1>2. /\ ~up /\ restarts < MaxRestarts /\ disk' = [disk EXCEPT ![Chunks - 1] = "bad"]
        /\ maxconn' = [s \in Source |-> 1] /\ up' = TRUE /\ restarts' = restarts + 1
        /\ UNCHANGED <<inf, moved, stops>>
      BY DEF Start
  <1>3. /\ Fine(Now) /\ Now \in States /\ OpenSlots(Now) = {} /\ Now.work = NoWork /\ Others
      BY <1>2, NowIs DEF IInv, Fine
  <1>4. inf.map \in [Chunk -> Mark] /\ \A c \in Chunk : inf.map[c] # "active"
      BY <1>3 DEF Others, Saved
  <1> HIDE DEF Now
  <1>5. R \in States /\ R.status = st /\ R.dl = Now.dl /\ R.conn = Now.conn /\ R.work = NoWork
      BY <1>3 DEF States, Statuses
  <1> HIDE DEF R
  <1>6. S \in States /\ S.map = inf.map /\ S.dl = Now.dl /\ S.conn = Now.conn /\ S.work = NoWork
      BY <1>4, <1>5 DEF States
  <1> HIDE DEF S
  <1>7. \A d \in Slot : S.dl[d] = Closed
      BY <1>3, <1>6 DEF OpenSlots
  <1>8. \A s \in Source : S.conn[s] = 0
    <2>1. \A s : OpenTo(Now, s) = {}
        BY <1>3 DEF OpenTo
    <2> QED
        BY <1>3, <1>6, <2>1, FS_EmptySet DEF Fine, Counted
  <1>9. Working(S)
    <2>1. NoWork.phase = "idle" /\ NoWork.kind = "none"
        BY DEF NoWork
    <2> QED
        BY <1>6, <2>1 DEF Working
  <1>10. Fine(S)
      BY <1>4, <1>6, <1>7, <1>8, <1>9, ClosedIsFine
  <1>11. Now' = S /\ map' = S.map
      BY <1>1, <1>6, BecomeIs
  <1>12. SavedVerdicts'
      BY <1>2, <1>6, <1>11 DEF SavedVerdicts
  <1>13. Others' /\ restarts' # 0
    <2>1. restarts' \in 0 .. MaxRestarts /\ restarts' # 0
        BY <1>2, <1>3, BoundsAssumption DEF Others
    <2>2. maxconn' \in [Source -> 0 .. MaxPerHost]
        BY <1>2, NumbersAssumption
    <2>3. disk' \in [Chunk -> {"good", "bad", "spoilt"}]
        BY <1>2, <1>3 DEF Others
    <2> QED
        BY <1>2, <1>3, <2>1, <2>2, <2>3 DEF Others
  <1> QED
      BY <1>2, <1>10, <1>11, <1>12, <1>13 DEF IInv

\* A new download has nothing open, nothing FULL and nothing to do.
LEMMA InitHolds == Init => IInv
  <1> SUFFICES ASSUME Init PROVE IInv
      OBVIOUS
  <1>1. NoWork \in Works /\ NoWork.phase = "idle" /\ NoWork.kind = "none"
      BY DEF NoWork, Works, Phases
  <1>2. Others
    <2>1. 0 \in 0 .. MaxStops /\ 0 \in 0 .. MaxRestarts /\ 1 \in 0 .. MaxPerHost
        BY BoundsAssumption, NumbersAssumption
    <2> QED
        BY <2>1 DEF Init, Others, Saved, Mark
  <1>3. Now \in States
    <2>1. status \in Statuses /\ tiger \in BOOLEAN
        BY DEF Init, Statuses
    <2>2. map \in [Chunk -> Mark]
        BY DEF Init, Mark
    <2>3. dl \in [Slot -> Open \cup {Closed}]
      <3> HIDE DEF Open, Closed
      <3> QED
        BY DEF Init
    <2>4. conn \in [Source -> Int]
        BY DEF Init
    <2>5. work \in Works
      <3> HIDE DEF Works
      <3> QED
        BY <1>1 DEF Init
    <2> HIDE DEF Statuses, Mark, Open, Closed, Works
    <2> QED
        BY <2>1, <2>2, <2>3, <2>4, <2>5 DEF Now, States
  <1>4. /\ \A d \in Slot : Now.dl[d] = Closed
        /\ \A s \in Source : Now.conn[s] = 0
        /\ \A c \in Chunk : Now.map[c] = "empty"
        /\ Now.work = NoWork
      BY NowIs DEF Init
  <1>5. Working(Now)
      BY <1>1, <1>4 DEF Working
  <1>6. Fine(Now)
    <2> HIDE DEF Now
    <2>1. \A c \in Chunk : Now.map[c] # "active"
        BY <1>4
    <2> QED
        BY <1>3, <1>4, <1>5, <2>1, ClosedIsFine
  <1>7. Sound(Now, disk)
      BY <1>1, <1>4 DEF Sound
  <1>8. SavedVerdicts
      BY DEF Init, SavedVerdicts
  <1> QED
      BY <1>2, <1>6, <1>7, <1>8 DEF IInv, Init

\* Every action keeps the invariant, and every one but Start keeps the verdicts.
LEMMA StepKeeps == IInv /\ [Next]_vars => IInv' /\ (Start \/ Final)
  <1> SUFFICES ASSUME IInv, [Next]_vars PROVE IInv' /\ (Start \/ Final)
      OBVIOUS
  <1>1. ASSUME NEW d \in Slot,
               OnConnected(d) \/ Broken(d) \/ OnHeaders(d) \/ OnQueued(d) \/ OnSurplus(d)
                 \/ OnData(d) \/ FileTaskComplete(d) \/ TigerTaskComplete(d)
        PROVE  IInv' /\ Final
      BY <1>1, OnConnectedKeeps, BrokenKeeps, OnHeadersKeeps, OnQueuedKeeps, OnSurplusKeeps,
         OnDataKeeps, FileTaskCompleteKeeps, TigerTaskCompleteKeeps
  <1>2. CASE \E s \in Source : HandleGIV(s)
      BY <1>2, HandleGIVKeeps
  <1>3. CASE OnTimer
      BY <1>3, OnTimerKeeps
  <1>4. CASE WorkStarts \/ WorkReturns \/ WorkDrained \/ Hashed \/ Copied
      BY <1>4, WorkStartsKeeps, WorkReturnsKeeps, WorkDrainedKeeps, HashedKeeps, CopiedKeeps
  <1>5. CASE ManagerResumes \/ UserResumes
      BY <1>5, ResumeKeeps
  <1>6. CASE ManagerStops \/ Pause \/ Cancel \/ Shutdown
      BY <1>6, OrdersKeep
  <1>7. CASE Crash
      BY <1>7, CrashKeeps
  <1>8. CASE Start
      BY <1>8, StartKeeps
  <1>9. CASE UNCHANGED vars
    <2>1. Now' = Now /\ Others' /\ SavedVerdicts'
        BY <1>9 DEF vars, Now, IInv, Others, SavedVerdicts
    <2>2. UNCHANGED <<map, disk, up, work, restarts>>
        BY <1>9 DEF vars
    <2> QED
        BY <2>1, <2>2 DEF IInv, Final
  <1> QED
      BY <1>1, <1>2, <1>3, <1>4, <1>5, <1>6, <1>7, <1>8, <1>9 DEF Next

\* The invariant holds in every run, with any number of stops and restarts.
THEOREM Invariance == Spec => []IInv
  <1>1. IInv /\ [Next]_vars => IInv'
      BY StepKeeps
  <1> QED
      BY <1>1, InitHolds, PTL DEF Spec

\* The variables have their types.
THEOREM DownloadIsTyped == Spec => []TypeOK
  <1>1. IInv => TypeOK
      BY Implied
  <1> QED
      BY <1>1, Invariance, PTL

\* No chunk is fetched twice and none is left ACTIVE without its downloader, however
\* connections, refusals, verdicts, orders, crashes and starts interleave.
THEOREM LeasesHold == Spec => []Leases
  <1>1. IInv => Leases
      BY Implied
  <1> QED
      BY <1>1, Invariance, PTL

\* The connections of every host are counted, and only a download that transfers has any.
THEOREM ConnectionsAreCounted == Spec => []Accounting
  <1>1. IInv => Accounting
      BY Implied
  <1> QED
      BY <1>1, Invariance, PTL

\* What is being hashed stays FULL, and the Work fits the status.
THEOREM HashingIsOfFull == Spec => []HashedIsFull
  <1>1. IInv => HashedIsFull
      BY Implied
  <1> QED
      BY <1>1, Invariance, PTL

\* A restart recalls no verdict that was not given.
THEOREM VerdictsAreSaved == Spec => []SavedVerdicts
  <1>1. IInv => SavedVerdicts
      BY Implied
  <1> QED
      BY <1>1, Invariance, PTL

\* In the first run of the program what is VALID is good, but where a host has sent
\* more than it was asked for.  (The write that a start makes to the end of the file is
\* what the assumption excludes.)
THEOREM VerdictsAreTrue ==
  ASSUME MaxRestarts = 0 PROVE Spec => []ValidIsGood
  <1>1. IInv => ValidIsGood
    <2>1. IInv => restarts = 0
        BY DEF IInv, Others
    <2> QED
        BY <2>1, Implied
  <1> QED
      BY <1>1, Invariance, PTL

\* In the first run a verdict VALID is final, and its chunk is not written again but by
\* a surplus that was meant for another one.
THEOREM VerdictsAreFinal ==
  ASSUME MaxRestarts = 0 PROVE Spec => ValidIsFinal
  <1>1. IInv /\ [Next]_vars
          => [\A c \in Chunk : map[c] = "valid"
              => map'[c] = "valid" /\ disk'[c] \in {disk[c], "spoilt"}]_<<map, disk>>
    <2> SUFFICES ASSUME IInv, [Next]_vars PROVE Final
        BY DEF Final
    <2>1. ~Start
        BY DEF Start, IInv, Others
    <2> QED
        BY <2>1, StepKeeps
  <1> QED
      BY <1>1, Invariance, PTL DEF Spec, ValidIsFinal
===============================================================================
