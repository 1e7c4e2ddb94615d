------------------------- MODULE UploadManager_proofs -------------------------
(***************************************************************************)
(* Proofs about UploadManager.tla for any settings, peers and uploaders.   *)
(*                                                                         *)
(* Every handler is a chain of operators on one record of the state.  Fine *)
(* says what holds of it between any two of these operators: the list has  *)
(* every uploader that is not closed, once; each knows its place; one that *)
(* transfers is among the first; one that waits for bytes has nothing      *)
(* under way; and the bytes of the second are not used up.                 *)
(***************************************************************************)
EXTENDS UploadManager, CollectionFacts, TLAPS

\* The bytes.  What was taken in this second, what is left for all, and what is put aside
\* for the clients are no more together than there are for a second.
Amount(t) == [h \in DOMAIN t.clients |-> t.clients[h].amount]
Metered(t, n) ==
  /\ n \in Nat /\ t.share \in Nat
  /\ IsFiniteSet(DOMAIN t.clients) /\ \A h \in DOMAIN t.clients : t.clients[h].amount \in Nat
  /\ n + t.share + SumFunctionOnSet(Amount(t), DOMAIN t.clients) <= MaxShare

\* The less of two numbers.
LEMMA MinOfTwo ==
  ASSUME NEW a \in Nat, NEW b \in Nat
  PROVE  Min({a, b}) = IF a <= b THEN a ELSE b
  <1>1. {a, b} \in SUBSET Nat /\ IsFiniteSet({a, b}) /\ {a, b} # {}
    <2>1. IsFiniteSet({a} \cup {b})
        BY FS_Singleton, FS_Union
    <2>2. {a, b} = {a} \cup {b}
        OBVIOUS
    <2> QED
        BY <2>1, <2>2
  <1>2. Min({a, b}) \in {a, b} /\ \A x \in {a, b} : Min({a, b}) <= x
      BY <1>1, MinIs
  <1> DEFINE m == Min({a, b})
  <1>3. m \in {a, b} /\ m <= a /\ m <= b
      BY <1>2
  <1> HIDE DEF m
  <1>4. m = IF a <= b THEN a ELSE b
      BY <1>3
  <1> QED
      BY <1>4 DEF m

\* What a client is given it does not get beyond what it wants, and comes from what is
\* left for all and from what is put aside for it.
LEMMA UseIs ==
  ASSUME NEW t, NEW n, Metered(t, n), NEW h, NEW want \in Nat
  PROVE  /\ Use(t, h, want).given \in 0 .. want
         /\ Metered(Use(t, h, want).left, n + Use(t, h, want).given)
  <1> DEFINE D == DOMAIN t.clients
             common == Min({t.share, want})
             old == IF h \in D THEN t.clients[h].amount ELSE 0
             amount == common + old
             given == Min({want, amount})
             new == [amount |-> amount - given, idle |-> 0]
             l == [share |-> t.share - common, clients |-> [i \in D \cup {h} |-> IF i = h THEN new ELSE t.clients[i]]]
  <1>1. Use(t, h, want).given = given /\ Use(t, h, want).left = l
      BY DEF Use
  <1>2. /\ n \in Nat /\ t.share \in Nat /\ IsFiniteSet(D) /\ (\A i \in D : t.clients[i].amount \in Nat)
        /\ n + t.share + SumFunctionOnSet(Amount(t), D) <= MaxShare
      BY DEF Metered
  <1>3. old \in Nat
      BY <1>2
  <1>4. common \in Nat /\ common <= t.share /\ common <= want
      BY <1>2, MinOfTwo
  <1> HIDE DEF common, old
  <1>5. amount \in Nat
      BY <1>3, <1>4
  <1> HIDE DEF amount
  <1>6. given \in Nat /\ given <= want /\ given <= amount
      BY <1>5, MinOfTwo
  <1> HIDE DEF given
  <1>7. DOMAIN l.clients = D \cup {h} /\ l.share = t.share - common
        /\ l.clients = [i \in D \cup {h} |-> IF i = h THEN new ELSE t.clients[i]]
      OBVIOUS
  <1> HIDE DEF l
  <1>8. /\ Amount(l)[h] = amount - given /\ amount - given \in Nat
        /\ \A i \in D \ {h} : Amount(l)[i] = Amount(t)[i] /\ Amount(t)[i] \in Nat
      BY <1>2, <1>5, <1>6, <1>7 DEF Amount
  <1>9. IsFiniteSet(D \cup {h}) /\ IsFiniteSet(D \ {h})
      BY <1>2, FS_AddElement, FS_RemoveElement
  <1> DEFINE rest == SumFunctionOnSet(Amount(t), D \ {h})
  <1>10. rest \in Nat /\ SumFunctionOnSet(Amount(l), D \ {h}) = rest
    <2>1. \A i \in D \ {h} : Amount(t)[i] \in Nat /\ Amount(l)[i] = Amount(t)[i]
        BY <1>8
    <2>2. SumFunctionOnSet(Amount(l), D \ {h}) = rest
        BY <1>9, <2>1, SumSame
    <2>3. rest \in Nat
        BY <1>9, <2>1, SumFacts
    <2> QED
        BY <2>2, <2>3
  <1>11. SumFunctionOnSet(Amount(t), D) = old + rest
    <2>1. CASE h \in D
      <3>1. SumFunctionOnSet(Amount(t), D) = Amount(t)[h] + rest
        <4>1. \A i \in D : Amount(t)[i] \in Nat
            BY <1>2 DEF Amount
        <4> QED
            BY <1>2, <2>1, <4>1, SumFacts
      <3>2. Amount(t)[h] = old
          BY <2>1 DEF Amount, old
      <3> QED
          BY <3>1, <3>2
    <2>2. CASE h \notin D
      <3>1. D \ {h} = D /\ old = 0
          BY <2>2 DEF old
      <3>2. SumFunctionOnSet(Amount(t), D) = rest
          BY <3>1
      <3> HIDE DEF rest
      <3> QED
          BY <1>10, <3>1, <3>2
    <2> QED
        BY <2>1, <2>2
  <1>12. SumFunctionOnSet(Amount(l), D \cup {h}) = (amount - given) + rest
    <2>1. \A i \in D \cup {h} : Amount(l)[i] \in Nat
        BY <1>8
    <2>2. SumFunctionOnSet(Amount(l), D \cup {h})
            = Amount(l)[h] + SumFunctionOnSet(Amount(l), (D \cup {h}) \ {h})
        BY <1>9, <2>1, SumFacts
    <2>3. (D \cup {h}) \ {h} = D \ {h}
        OBVIOUS
    <2> QED
        BY <1>8, <1>10, <2>2, <2>3
  <1>13. (n + given) + (t.share - common) + ((amount - given) + rest) <= MaxShare
    <2>1. n + t.share + (old + rest) <= MaxShare
        BY <1>2, <1>11
    <2>2. amount = common + old
        BY DEF amount
    <2> HIDE DEF rest
    <2> QED
        BY <1>2, <1>3, <1>4, <1>6, <1>10, <2>1, <2>2, ShareAssumption
  <1>14. t.share - common \in Nat /\ n + given \in Nat
      BY <1>2, <1>4, <1>6
  <1>15. \A i \in D \cup {h} : l.clients[i].amount \in Nat
      BY <1>2, <1>7, <1>8
  <1>16. Metered(l, n + given)
      BY <1>7, <1>9, <1>12, <1>13, <1>14, <1>15 DEF Metered
  <1> QED
      BY <1>1, <1>6, <1>16

\* A new second: what is reserved is shared out, and no more of it than there is.
LEMMA OnSecondIs ==
  ASSUME NEW t, NEW n, Metered(t, n), NEW second \in BOOLEAN
  PROVE  Metered(OnSecond(t, second), IF second THEN 0 ELSE n)
  <1> DEFINE kept == {h \in DOMAIN t.clients : t.clients[h].idle < Keep}
             reserved == IF kept = {} THEN 0 ELSE MaxShare \div Tenth
             c == Cardinality(kept)
             each == reserved \div c
             l == [share |-> MaxShare - reserved,
                   clients |-> [h \in kept |-> [amount |-> each, idle |-> t.clients[h].idle + 1]]]
  <1>1. CASE ~second
      BY <1>1 DEF OnSecond
  <1>2. CASE second
    <2>1. OnSecond(t, second) = l
        BY <1>2 DEF OnSecond
    <2>2. IsFiniteSet(kept) /\ c \in Nat /\ (c = 0 <=> kept = {})
      <3>1. IsFiniteSet(kept)
          BY FS_Subset DEF Metered
      <3> HIDE DEF kept
      <3> QED
          BY <3>1, FS_CardinalityType, FS_EmptySet
    <2>3. reserved \in 0 .. MaxShare
      <3>1. MaxShare \div Tenth \in 0 .. MaxShare
          BY ShareAssumption
      <3> QED
          BY <3>1, ShareAssumption
    <2>4. l.share = MaxShare - reserved /\ DOMAIN l.clients = kept
          /\ \A h \in kept : l.clients[h].amount = each
        OBVIOUS
    <2> HIDE DEF kept, reserved, l
    <2>5. kept # {} => each \in Nat /\ c * each <= reserved
      <3> HIDE DEF c
      <3>1. kept # {} => c \in Nat \ {0} /\ reserved \in Nat
          BY <2>2, <2>3
      <3> QED
          BY <3>1
    <2> HIDE DEF each
    <2>6. \A h \in kept : Amount(l)[h] = each
        BY <2>4 DEF Amount
    <2>7. SumFunctionOnSet(Amount(l), kept) <= reserved /\ SumFunctionOnSet(Amount(l), kept) \in Nat
      <3>1. CASE kept = {}
          BY <2>2, <2>3, <3>1, SumFacts
      <3>2. CASE kept # {}
        <4>1. SumFunctionOnSet(Amount(l), kept) = c * each
            BY <2>2, <2>5, <2>6, <3>2, SumOfEqual
        <4>2. c * each \in Nat
            BY <2>2, <2>5, <3>2
        <4> QED
            BY <2>5, <3>2, <4>1, <4>2
      <3> QED
          BY <3>1, <3>2
    <2>8. \A h \in kept : l.clients[h].amount \in Nat
        BY <2>4, <2>5
    <2> DEFINE sum == SumFunctionOnSet(Amount(l), kept)
    <2>9. 0 + l.share + sum <= MaxShare /\ l.share \in Nat
      <3> HIDE DEF sum
      <3>1. sum \in Nat /\ sum <= reserved
          BY <2>7 DEF sum
      <3> QED
          BY <2>3, <2>4, <3>1, ShareAssumption
    <2> QED
        BY <1>2, <2>1, <2>2, <2>4, <2>8, <2>9 DEF Metered
  <1> QED
      BY <1>1, <1>2

-----------------------------------------------------------------------------
\* An uploader by itself.
Sound(r) ==
  /\ DOMAIN r = {"host", "status", "pos", "offset", "bwlimit", "age", "open", "late", "done", "ops"}
  /\ r.ops \in Seq(Op) /\ Len(r.ops) <= 1
  /\ r.bwlimit \in BOOLEAN /\ r.offset \in 0 .. Length
  /\ r.bwlimit \/ r.status = "closed" => r.ops = <<>>

Shaped(s) == /\ DOMAIN s = {"ups", "uploaders", "traf", "spent", "running"}
             /\ DOMAIN s.ups = Uploader
             /\ s.uploaders \in Seq(Uploader) /\ IsInjective(s.uploaders)

\* The list and the uploaders agree.
Listed(s) == \A u \in Uploader : s.ups[u].status # "closed" <=> u \in Range(s.uploaders)
Placed(s) == \A i \in DOMAIN s.uploaders :
               /\ s.ups[s.uploaders[i]].pos = Place(i)
               /\ s.ups[s.uploaders[i]].status = "transfer" => i <= MaxUploads

Fine(s) == /\ Shaped(s) /\ Listed(s) /\ Placed(s) /\ Metered(s.traf, s.spent)
           /\ \A u \in Uploader : Sound(s.ups[u])

-----------------------------------------------------------------------------
\* T is s with another record for u.
Edited(s, u, r, t) == /\ DOMAIN t = DOMAIN s
                      /\ t.uploaders = s.uploaders /\ t.traf = s.traf /\ t.spent = s.spent
                      /\ t.ups = [s.ups EXCEPT ![u] = r]

\* An uploader that stays in the list, or out of it, may change in every way but its
\* place, and may begin to transfer only at place 0.
LEMMA EditIs ==
  ASSUME NEW s, Fine(s), NEW u \in Uploader, NEW r, Sound(r), NEW t, Edited(s, u, r, t),
         r.status = "closed" \/ r.pos = s.ups[u].pos,
         r.status = "closed" <=> s.ups[u].status = "closed",
         r.status = "transfer" => s.ups[u].status = "transfer" \/ r.pos = 0
  PROVE  Fine(t)
  <1>1. Shaped(t)
      BY DEF Fine, Shaped, Edited
  <1>2. t.uploaders = s.uploaders /\ t.ups[u] = r /\ \A v \in Uploader \ {u} : t.ups[v] = s.ups[v]
      BY DEF Fine, Shaped, Edited
  <1>3. Listed(t)
      BY <1>2 DEF Fine, Listed
  <1>4. Placed(t)
    <2> SUFFICES ASSUME NEW i \in DOMAIN t.uploaders
                 PROVE  /\ t.ups[t.uploaders[i]].pos = Place(i)
                        /\ t.ups[t.uploaders[i]].status = "transfer" => i <= MaxUploads
        BY DEF Placed
    <2>1. i \in Nat /\ i \in DOMAIN s.uploaders /\ s.uploaders[i] \in Uploader
        BY <1>2 DEF Fine, Shaped
    <2>2. /\ s.ups[s.uploaders[i]].pos = Place(i)
          /\ s.ups[s.uploaders[i]].status = "transfer" => i <= MaxUploads
        BY <2>1 DEF Fine, Placed
    <2>3. Place(i) = 0 => i <= MaxUploads
        BY <2>1, SettingAssumption DEF Place
    <2>4. s.ups[s.uploaders[i]].status # "closed"
        BY <2>1 DEF Fine, Listed, Range
    <2> QED
        BY <1>2, <2>1, <2>2, <2>3, <2>4
  <1>5. \A v \in Uploader : Sound(t.ups[v])
      BY <1>2 DEF Fine
  <1>6. Metered(t.traf, t.spent)
      BY DEF Fine, Edited
  <1> QED
      BY <1>1, <1>3, <1>4, <1>5, <1>6 DEF Fine

\* An operation is begun where none is under way.
LEMMA BeginIs ==
  ASSUME NEW s, Fine(s), NEW u \in Uploader, NEW op \in Op,
         s.ups[u].ops = <<>>, ~s.ups[u].bwlimit, s.ups[u].status # "closed"
  PROVE  Fine(Begin(s, u, op))
  <1> DEFINE r == [s.ups[u] EXCEPT !.ops = Append(s.ups[u].ops, op)]
             t == Begin(s, u, op)
  <1>1. Shaped(s) /\ Sound(s.ups[u])
      BY DEF Fine
  <1>2. r.ops = <<op>> /\ r.pos = s.ups[u].pos /\ r.status = s.ups[u].status
        /\ r.bwlimit = s.ups[u].bwlimit /\ DOMAIN r = DOMAIN s.ups[u]
        /\ r.offset = s.ups[u].offset
      BY <1>1 DEF Sound
  <1>3. Edited(s, u, r, t)
      BY <1>1 DEF Begin, Edited, Shaped
  <1> HIDE DEF r, t
  <1>4. Sound(r)
      BY <1>1, <1>2 DEF Sound
  <1>5. Fine(t)
      BY <1>2, <1>3, <1>4, EditIs
  <1> QED
      BY <1>5 DEF t

\* What uploaders do not see may change, and the bytes as long as there are some.
LEMMA OthersAre ==
  ASSUME NEW s, Fine(s), NEW t, DOMAIN t = DOMAIN s, t.ups = s.ups, t.uploaders = s.uploaders,
         Metered(t.traf, t.spent)
  PROVE  Fine(t)
  BY DEF Fine, Shaped, Listed, Placed

\* The bytes that are taken are no more than what is left of the range, and nothing else
\* changes but the time.
LEMMA TakenIs ==
  ASSUME NEW s, Fine(s), NEW u \in Uploader
  PROVE  /\ Fine(Taken(s, u))
         /\ Taken(s, u).ups = [s.ups EXCEPT ![u] = [s.ups[u] EXCEPT !.age = "recent"]]
         /\ Given(s, u) \in 0 .. Length - s.ups[u].offset
  <1> DEFINE r == [s.ups[u] EXCEPT !.age = "recent"]
             want == Min({Length - s.ups[u].offset, BulkSize})
             g == Use(s.traf, s.ups[u].host, want)
             b == [[s EXCEPT !.traf = g.left] EXCEPT !.spent = s.spent + g.given]
             t == [b EXCEPT !.ups = [b.ups EXCEPT ![u] = r]]
  <1>1. Shaped(s) /\ Sound(s.ups[u]) /\ Metered(s.traf, s.spent)
      BY DEF Fine
  <1>2. Taken(s, u) = t
    <2>1. Taken(s, u) = [[[s EXCEPT !.traf = g.left] EXCEPT !.spent = s.spent + g.given]
                           EXCEPT !.ups = [s.ups EXCEPT ![u] = r]]
        BY <1>1, Zenon DEF Taken
    <2>2. b.ups = s.ups
        BY <1>1 DEF Shaped
    <2> HIDE DEF r, g
    <2> QED
        BY <2>1, <2>2
  <1>3. want \in 0 .. Length - s.ups[u].offset
    <2>1. Length - s.ups[u].offset \in Nat /\ BulkSize \in Nat
        BY <1>1, LengthAssumption DEF Sound
    <2> QED
        BY <2>1, MinOfTwo
  <1> HIDE DEF want
  <1>4. g.given \in 0 .. want /\ Metered(g.left, s.spent + g.given)
      BY <1>1, <1>3, UseIs, LengthAssumption DEF Sound
  <1> HIDE DEF g
  <1>5. /\ DOMAIN b = DOMAIN s /\ b.ups = s.ups /\ b.uploaders = s.uploaders
        /\ b.traf = g.left /\ b.spent = s.spent + g.given
      BY <1>1 DEF Shaped
  <1> HIDE DEF b
  <1>6. Fine(b)
      BY <1>4, <1>5, OthersAre
  <1>7. r.ops = s.ups[u].ops /\ r.pos = s.ups[u].pos /\ r.status = s.ups[u].status
        /\ r.bwlimit = s.ups[u].bwlimit /\ DOMAIN r = DOMAIN s.ups[u] /\ r.offset = s.ups[u].offset
      BY <1>1 DEF Sound
  <1> HIDE DEF r
  <1>8. Edited(b, u, r, t)
      BY <1>1, <1>5 DEF Edited, Shaped
  <1>9. Sound(r)
      BY <1>1, <1>7 DEF Sound
  <1>10. t.ups = [s.ups EXCEPT ![u] = r] /\ t.spent = s.spent + g.given
      BY <1>5, <1>8 DEF Edited
  <1> HIDE DEF t
  <1>11. Fine(t)
      BY <1>5, <1>6, <1>7, <1>8, <1>9, EditIs
  <1>12. Given(s, u) = g.given
    <2>1. s.spent \in Nat
        BY <1>1 DEF Metered
    <2> QED
        BY <1>2, <1>4, <1>10, <2>1 DEF Given
  <1>13. g.given \in 0 .. Length - s.ups[u].offset
      BY <1>1, <1>3, <1>4, LengthAssumption DEF Sound
  <1> QED
      BY <1>2, <1>10, <1>11, <1>12, <1>13 DEF r

-----------------------------------------------------------------------------
\* The place of an uploader in the list.
LEMMA PlaceOfIs ==
  ASSUME NEW s, Shaped(s), NEW u \in Range(s.uploaders)
  PROVE  /\ PlaceOf(s, u) \in DOMAIN s.uploaders /\ s.uploaders[PlaceOf(s, u)] = u
         /\ \A i \in DOMAIN s.uploaders : s.uploaders[i] = u => i = PlaceOf(s, u)
  <1>1. \E i \in DOMAIN s.uploaders : s.uploaders[i] = u
      BY DEF Range
  <1>2. PlaceOf(s, u) \in DOMAIN s.uploaders /\ s.uploaders[PlaceOf(s, u)] = u
      BY <1>1 DEF PlaceOf
  <1> QED
      BY <1>2 DEF Shaped, IsInjective

\* UpdateQueue tells everybody his place, and changes nothing else of anybody.
LEMMA QueueIs ==
  ASSUME NEW s, Shaped(s), Listed(s), Metered(s.traf, s.spent), \A u \in Uploader : Sound(s.ups[u]),
         \A i \in DOMAIN s.uploaders : s.ups[s.uploaders[i]].status = "transfer" => i <= MaxUploads
  PROVE  /\ Fine(UpdateQueue(s)) /\ UpdateQueue(s).uploaders = s.uploaders
         /\ \A u \in Uploader : /\ UpdateQueue(s).ups[u].status = s.ups[u].status
                                /\ UpdateQueue(s).ups[u].ops = s.ups[u].ops
                                /\ UpdateQueue(s).ups[u].bwlimit = s.ups[u].bwlimit
  <1> DEFINE r(u) == IF u \in Range(s.uploaders)
                     THEN [s.ups[u] EXCEPT !.pos = Place(PlaceOf(s, u))] ELSE s.ups[u]
             t == UpdateQueue(s)
  <1>1. /\ DOMAIN t = DOMAIN s /\ t.uploaders = s.uploaders /\ t.ups = [u \in Uploader |-> r(u)]
        /\ t.traf = s.traf /\ t.spent = s.spent
      BY DEF UpdateQueue, Shaped
  <1>2. ASSUME NEW u \in Uploader
        PROVE  /\ DOMAIN r(u) = DOMAIN s.ups[u]
               /\ r(u).status = s.ups[u].status /\ r(u).ops = s.ups[u].ops /\ r(u).bwlimit = s.ups[u].bwlimit
               /\ r(u).offset = s.ups[u].offset
               /\ u \in Range(s.uploaders) => r(u).pos = Place(PlaceOf(s, u))
      BY DEF Sound
  <1> HIDE DEF r, t
  <1>3. Shaped(t)
      BY <1>1 DEF Shaped
  <1>4. Listed(t)
      BY <1>1, <1>2 DEF Listed
  <1>5. ASSUME NEW u \in Uploader PROVE Sound(t.ups[u])
    <2>1. Sound(s.ups[u])
        OBVIOUS
    <2>2. t.ups[u] = r(u)
        BY <1>1
    <2>3. Sound(r(u))
        BY <1>2, <2>1 DEF Sound
    <2> QED
        BY <2>2, <2>3
  <1>6. Placed(t)
    <2> SUFFICES ASSUME NEW i \in DOMAIN t.uploaders
                 PROVE  /\ t.ups[t.uploaders[i]].pos = Place(i)
                        /\ t.ups[t.uploaders[i]].status = "transfer" => i <= MaxUploads
        BY DEF Placed
    <2> DEFINE u == s.uploaders[i]
    <2>1. i \in DOMAIN s.uploaders /\ u \in Uploader /\ u \in Range(s.uploaders)
        BY <1>1 DEF Shaped, Range
    <2>2. PlaceOf(s, u) = i
        BY <2>1, PlaceOfIs
    <2> HIDE DEF u
    <2>3. t.ups[u] = r(u) /\ r(u).pos = Place(i) /\ r(u).status = s.ups[u].status
        BY <1>1, <1>2, <2>1, <2>2
    <2> QED
        BY <1>1, <2>1, <2>3 DEF u
  <1> QED
      BY <1>1, <1>2, <1>3, <1>4, <1>5, <1>6 DEF Fine, t

\* Who leaves lets those behind him move up: no one who transfers gets a later place.
LEMMA DetachMeIs ==
  ASSUME NEW s, Fine(s), NEW u \in Uploader
  PROVE  Fine(DetachMe(s, u))
  <1> DEFINE r == [[[[s.ups[u] EXCEPT !.status = "closed"] EXCEPT !.open = FALSE] EXCEPT !.done = FALSE]
                     EXCEPT !.ops = <<>>]
             c == Close(s, u)
             i == PlaceOf(c, u)
             l == IF u \in Range(c.uploaders) THEN [c EXCEPT !.uploaders = RemoveAt(c.uploaders, i)] ELSE c
  <1>1. /\ Shaped(s) /\ Listed(s) /\ Placed(s) /\ Metered(s.traf, s.spent)
        /\ \A v \in Uploader : Sound(s.ups[v])
      BY DEF Fine
  <1>2. c = [s EXCEPT !.ups = [s.ups EXCEPT ![u] = r]]
      BY Zenon DEF Close
  <1>3. /\ r.status = "closed" /\ r.ops = <<>> /\ r.bwlimit = s.ups[u].bwlimit /\ DOMAIN r = DOMAIN s.ups[u]
        /\ r.offset = s.ups[u].offset
      BY <1>1 DEF Sound
  <1> HIDE DEF r
  <1>4. /\ Shaped(c) /\ c.uploaders = s.uploaders
        /\ c.ups[u] = r /\ \A v \in Uploader \ {u} : c.ups[v] = s.ups[v]
        /\ c.traf = s.traf /\ c.spent = s.spent
      BY <1>1, <1>2 DEF Shaped
  <1>5. \A v \in Uploader : Sound(c.ups[v])
    <2>1. Sound(r)
        BY <1>1, <1>3 DEF Sound
    <2> QED
        BY <1>1, <1>4, <2>1
  <1>6. DetachMe(s, u) = UpdateQueue(l)
      BY Zenon DEF DetachMe, Detach
  <1> HIDE DEF c
  <1>7. CASE u \in Range(c.uploaders)
    <2>1. i \in DOMAIN c.uploaders /\ c.uploaders[i] = u
        BY <1>4, <1>7, PlaceOfIs
    <2> HIDE DEF i
    <2> DEFINE m == RemoveAt(c.uploaders, i)
    <2>2. /\ m \in Seq(Uploader) /\ IsInjective(m) /\ Range(m) = Range(c.uploaders) \ {u}
      <3>1. c.uploaders \in Seq(Uploader) /\ IsInjective(c.uploaders)
          BY <1>4 DEF Shaped
      <3> QED
          BY <2>1, <3>1, RemoveAtFacts
    <2>3. /\ Len(c.uploaders) \in Nat \ {0} /\ DOMAIN c.uploaders = 1 .. Len(c.uploaders)
          /\ DOMAIN m = 1 .. Len(c.uploaders) - 1
          /\ \A j \in DOMAIN m : m[j] = IF j < i THEN c.uploaders[j] ELSE c.uploaders[j + 1]
      <3>1. c.uploaders \in Seq(Uploader)
          BY <1>4 DEF Shaped
      <3> QED
          BY <2>1, <3>1, RemoveAtIs
    <2>4. l = [c EXCEPT !.uploaders = m]
        BY <1>7
    <2> HIDE DEF m, l
    <2>5. Shaped(l) /\ l.uploaders = m /\ l.ups = c.ups /\ l.traf = c.traf /\ l.spent = c.spent
        BY <1>4, <2>2, <2>4 DEF Shaped
    <2>6. Listed(l)
        BY <1>1, <1>3, <1>4, <2>2, <2>5 DEF Listed
    <2>7. ASSUME NEW j \in DOMAIN l.uploaders, l.ups[l.uploaders[j]].status = "transfer"
          PROVE  j <= MaxUploads
      <3> DEFINE k == IF j < i THEN j ELSE j + 1
      <3>1. k \in DOMAIN s.uploaders /\ m[j] = s.uploaders[k] /\ j \in Nat /\ j <= k /\ k \in Nat
          BY <1>4, <2>1, <2>3, <2>5, <2>7
      <3>2. m[j] \in Uploader \ {u}
        <4>1. j \in DOMAIN m /\ m[j] \in Range(m)
            BY <2>5, <2>7 DEF Range
        <4>2. m[j] \in Uploader
            BY <4>1, <2>2
        <4> QED
            BY <4>1, <4>2, <2>2
      <3>3. s.ups[s.uploaders[k]].status = "transfer"
          BY <1>4, <2>5, <2>7, <3>1, <3>2
      <3> HIDE DEF k
      <3>4. k <= MaxUploads
          BY <1>1, <3>1, <3>3 DEF Placed
      <3> QED
          BY <3>1, <3>4, SettingAssumption
    <2>8. \A v \in Uploader : Sound(l.ups[v])
        BY <1>5, <2>5
    <2> QED
        BY <1>1, <1>4, <1>6, <2>5, <2>6, <2>7, <2>8, QueueIs
  <1>8. CASE u \notin Range(c.uploaders)
    <2>1. l = c
        BY <1>8
    <2> HIDE DEF l
    <2>2. Listed(c)
        BY <1>1, <1>3, <1>4, <1>8 DEF Listed
    <2>3. ASSUME NEW j \in DOMAIN c.uploaders, c.ups[c.uploaders[j]].status = "transfer"
          PROVE  j <= MaxUploads
        BY <1>1, <1>3, <1>4, <2>3 DEF Placed, Shaped
    <2> QED
        BY <1>1, <1>4, <1>5, <1>6, <2>1, <2>2, <2>3, QueueIs
  <1> QED
      BY <1>7, <1>8

-----------------------------------------------------------------------------
\* A transfer goes on, or waits for bytes with nothing under way.
LEMMA TransferIs ==
  ASSUME NEW s, Fine(s), NEW u \in Uploader, s.ups[u].ops = <<>>, s.ups[u].status # "closed"
  PROVE  Fine(Transfer(s, u))
  <1> DEFINE t == Taken(s, u)
             n == Given(s, u)
             a == [t.ups[u] EXCEPT !.bwlimit = TRUE]
             b == [[t.ups[u] EXCEPT !.bwlimit = FALSE] EXCEPT !.offset = s.ups[u].offset + n]
             v == [t EXCEPT !.ups = [t.ups EXCEPT ![u] = a]]
             w == [t EXCEPT !.ups = [t.ups EXCEPT ![u] = b]]
  <1>1. /\ Fine(t) /\ t.ups = [s.ups EXCEPT ![u] = [s.ups[u] EXCEPT !.age = "recent"]]
        /\ n \in 0 .. Length - s.ups[u].offset
      BY TakenIs
  <1>2. Transfer(s, u) = IF n = 0 THEN v ELSE Begin(w, u, "data")
      BY Zenon DEF Transfer
  <1> HIDE DEF n
  <1>3. Shaped(s) /\ Sound(s.ups[u])
      BY DEF Fine
  <1>4. t.ups[u].ops = <<>> /\ t.ups[u].status # "closed"
      BY <1>1, <1>3 DEF Shaped, Sound
  <1> HIDE DEF t
  <1>5. Shaped(t) /\ Sound(t.ups[u])
      BY <1>1 DEF Fine
  <1>6. Sound(a) /\ a.pos = t.ups[u].pos /\ a.status = t.ups[u].status
      BY <1>4, <1>5 DEF Sound
  <1>7. Sound(b) /\ b.pos = t.ups[u].pos /\ b.status = t.ups[u].status /\ b.ops = <<>> /\ ~b.bwlimit
    <2>1. s.ups[u].offset + n \in 0 .. Length
        BY <1>1, <1>3, LengthAssumption DEF Sound
    <2>2. /\ DOMAIN b = DOMAIN t.ups[u] /\ b.pos = t.ups[u].pos /\ b.status = t.ups[u].status
          /\ b.ops = t.ups[u].ops /\ b.bwlimit = FALSE /\ b.offset = s.ups[u].offset + n
        BY <1>5 DEF Sound
    <2> HIDE DEF b
    <2> QED
        BY <1>4, <1>5, <2>1, <2>2 DEF Sound
  <1> HIDE DEF a, b
  <1>8. Edited(t, u, a, v) /\ Edited(t, u, b, w) /\ w.ups[u] = b
      BY <1>5 DEF Edited, Shaped
  <1> HIDE DEF v, w
  <1>9. Fine(v)
      BY <1>1, <1>4, <1>6, <1>8, EditIs
  <1>10. Fine(w)
      BY <1>1, <1>4, <1>7, <1>8, EditIs
  <1>11. Fine(Begin(w, u, "data"))
    <2>1. "data" \in Op
        BY DEF Op
    <2>2. w.ups[u].ops = <<>> /\ ~w.ups[u].bwlimit /\ w.ups[u].status # "closed"
        BY <1>4, <1>7, <1>8
    <2> QED
        BY <1>10, <2>1, <2>2, BeginIs
  <1> QED
      BY <1>2, <1>9, <1>11

\* A request is answered; only one of the first is sent what it asks for.
LEMMA HandleRequestIs ==
  ASSUME NEW s, Fine(s), NEW u \in Uploader, NEW good,
         s.ups[u].ops = <<>>, ~s.ups[u].bwlimit, s.ups[u].status # "closed"
  PROVE  Fine(HandleRequest(s, u, good))
  <1> DEFINE v == s.ups[u]
             st == IF ~good \/ (v.status = "queued" /\ v.age = "recent") THEN "closing"
                   ELSE IF v.pos > 0 THEN "queued" ELSE "transfer"
             r == [[[v EXCEPT !.status = st] EXCEPT !.offset = 0] EXCEPT !.age = "recent"]
             t == [s EXCEPT !.ups = [s.ups EXCEPT ![u] = r]]
  <1>1. HandleRequest(s, u, good) = Begin(t, u, "response")
      BY Zenon DEF HandleRequest
  <1>2. Shaped(s) /\ Listed(s) /\ Placed(s) /\ Sound(v)
      BY DEF Fine
  <1>3. v.pos \in Nat
    <2>1. PICK i \in DOMAIN s.uploaders : s.uploaders[i] = u
        BY <1>2 DEF Listed, Range
    <2>2. i \in Nat /\ v.pos = Place(i)
        BY <1>2, <2>1 DEF Placed, Shaped
    <2> QED
        BY <2>2, SettingAssumption DEF Place
  <1>4. st \in {"closing", "queued", "transfer"} /\ (st = "transfer" => v.pos = 0)
      BY <1>3
  <1> HIDE DEF st
  <1>5. /\ Sound(r) /\ r.pos = v.pos /\ r.status = st /\ r.ops = <<>> /\ ~r.bwlimit
    <2>1. /\ DOMAIN r = DOMAIN v /\ r.pos = v.pos /\ r.status = st /\ r.ops = v.ops
          /\ r.bwlimit = v.bwlimit /\ r.offset = 0
        BY <1>2 DEF Sound
    <2> HIDE DEF r
    <2> QED
        BY <1>2, <2>1, LengthAssumption DEF Sound
  <1> HIDE DEF r
  <1>6. Edited(s, u, r, t) /\ t.ups[u] = r
      BY <1>2 DEF Edited, Shaped
  <1> HIDE DEF t
  <1>7. Fine(t)
      BY <1>4, <1>5, <1>6, EditIs
  <1>8. Fine(Begin(t, u, "response"))
    <2>1. "response" \in Op
        BY DEF Op
    <2> QED
        BY <1>4, <1>5, <1>6, <1>7, <2>1, BeginIs
  <1> QED
      BY <1>1, <1>8

\* UploaderImp::OnTimer.
LEMMA TimerIs ==
  ASSUME NEW s, Fine(s), NEW u \in Uploader, NEW t \in UploaderOnTimer(s, u)
  PROVE  Fine(t)
  <1>1. Fine(DetachMe(s, u)) /\ Fine(DetachMe(Taken(s, u), u))
      BY TakenIs, DetachMeIs
  <1>2. ASSUME s.ups[u].bwlimit, s.ups[u].status = "transfer"
        PROVE  Fine(Transfer(s, u))
    <2>1. s.ups[u].ops = <<>>
        BY <1>2 DEF Fine, Sound
    <2> QED
        BY <1>2, <2>1, TransferIs
  <1> QED
      BY <1>1, <1>2 DEF UploaderOnTimer

-----------------------------------------------------------------------------
\* The timers, one after the other.
LEMMA TurnsAre ==
  ASSUME NEW s, Fine(s), NEW t \in Turns(s)
  PROVE  Fine(t)
  <1> DEFINE n == Len(s.uploaders)
             After(T, i) == UNION {UploaderOnTimer(x, s.uploaders[i]) : x \in T}
             Is(f, k) == f = [i \in 0 .. k |-> IF i = 0 THEN {s} ELSE After(f[i - 1], i)]
             turn == CHOOSE f : Is(f, n)
  <1>1. Turns(s) = turn[n]
      BY DEF Turns
  <1>2. n \in Nat /\ \A i \in 1 .. n : s.uploaders[i] \in Uploader
      BY DEF Fine, Shaped
  <1> HIDE DEF n, After
  <1>3. \E f : Is(f, n)
    <2> DEFINE S == {k \in 0 .. n : \E f : Is(f, k)}
    <2>1. 0 \in S
      <3>1. Is([i \in 0 .. 0 |-> {s}], 0)
          OBVIOUS
      <3> HIDE DEF Is
      <3>2. \E f : Is(f, 0)
          BY <3>1
      <3> QED
          BY <1>2, <3>2
    <2>2. ASSUME NEW k \in 0 .. n - 1, k \in S
          PROVE  k + 1 \in S
      <3>1. PICK f : Is(f, k)
          BY <2>2
      <3> DEFINE g == [i \in 0 .. k + 1 |-> IF i = k + 1 THEN After(f[k], k + 1) ELSE f[i]]
      <3>2. Is(g, k + 1)
        <4>1. \A i \in 0 .. k : g[i] = f[i]
            BY <1>2
        <4>2. ASSUME NEW i \in 0 .. k + 1
              PROVE  g[i] = IF i = 0 THEN {s} ELSE After(g[i - 1], i)
          <5>1. CASE i = k + 1
              BY <1>2, <4>1, <5>1
          <5>2. CASE i # k + 1
            <6>1. i \in 0 .. k /\ (i # 0 => i - 1 \in 0 .. k)
                BY <1>2, <5>2
            <6>2. f[i] = IF i = 0 THEN {s} ELSE After(f[i - 1], i)
                BY <3>1, <6>1
            <6> HIDE DEF g
            <6> QED
                BY <4>1, <6>1, <6>2
          <5> QED
              BY <5>1, <5>2
        <4> QED
            BY <4>2
      <3> HIDE DEF Is, g
      <3>3. \E h : Is(h, k + 1)
          BY <3>2
      <3> QED
          BY <1>2, <3>3
    <2> HIDE DEF S
    <2>3. n \in S
        BY <1>2, <2>1, <2>2, UpTo
    <2> QED
        BY <2>3 DEF S
  <1>4. Is(turn, n)
      BY <1>3
  <1> HIDE DEF turn
  <1>8. ASSUME NEW j \in 0 .. n
        PROVE  turn[j] = IF j = 0 THEN {s} ELSE After(turn[j - 1], j)
      BY <1>4
  <1> DEFINE G == {i \in 0 .. n : \A x \in turn[i] : Fine(x)}
  <1>5. 0 \in G
      BY <1>2, <1>4
  <1>6. ASSUME NEW i \in 0 .. n - 1, i \in G
        PROVE  i + 1 \in G
    <2>1. i + 1 \in 1 .. n /\ i + 1 # 0 /\ i + 1 - 1 = i
        BY <1>2
    <2>2. turn[i + 1] = After(turn[i], i + 1)
      <3>1. i + 1 \in 0 .. n
          BY <1>2
      <3> HIDE DEF Is
      <3>2. turn[i + 1] = IF i + 1 = 0 THEN {s} ELSE After(turn[i + 1 - 1], i + 1)
          BY <1>8, <3>1
      <3> QED
          BY <2>1, <3>2
    <2>3. s.uploaders[i + 1] \in Uploader
        BY <1>2, <2>1
    <2>4. \A x \in After(turn[i], i + 1) : Fine(x)
        BY <1>6, <2>3, TimerIs DEF After
    <2> QED
        BY <2>1, <2>2, <2>4
  <1> HIDE DEF G
  <1>7. n \in G
      BY <1>2, <1>5, <1>6, UpTo
  <1> QED
      BY <1>1, <1>7 DEF G

-----------------------------------------------------------------------------
\* The steps.
IInv == Fine(Now)

\* A step that leads to a fine record leads to a fine state: who is gone is Closed.
LEMMA BecomeIs ==
  ASSUME NEW s, Fine(s), Become(s)
  PROVE  IInv'
  <1>1. /\ ups' = [u \in Uploader |-> IF s.ups[u].status = "closed" /\ ~s.ups[u].late THEN Closed ELSE s.ups[u]]
        /\ uploaders' = s.uploaders /\ traf' = s.traf /\ spent' = s.spent
      BY DEF Become
  <1>2. Sound(Closed) /\ Closed.status = "closed"
      BY LengthAssumption DEF Closed, Sound
  <1>3. /\ Now'.ups = ups' /\ Now'.uploaders = s.uploaders
        /\ DOMAIN Now' = {"ups", "uploaders", "traf", "spent", "running"}
        /\ Now'.traf = s.traf /\ Now'.spent = s.spent
      BY <1>1 DEF Now
  <1> DEFINE t == Now'
  <1>4. /\ t.ups = ups' /\ t.uploaders = s.uploaders /\ DOMAIN t = {"ups", "uploaders", "traf", "spent", "running"}
        /\ t.traf = s.traf /\ t.spent = s.spent
      BY <1>3
  <1> HIDE DEF t
  <1>5. \A u \in Uploader : t.ups[u] = s.ups[u] \/ (s.ups[u].status = "closed" /\ t.ups[u] = Closed)
      BY <1>1, <1>4
  <1>6. Shaped(t)
      BY <1>1, <1>4 DEF Fine, Shaped
  <1>7. Listed(t)
      BY <1>2, <1>4, <1>5 DEF Fine, Listed
  <1>8. Placed(t)
    <2>1. \A i \in DOMAIN s.uploaders : s.uploaders[i] \in Uploader /\ s.ups[s.uploaders[i]].status # "closed"
        BY DEF Fine, Shaped, Listed, Range
    <2> QED
        BY <1>4, <1>5, <2>1 DEF Fine, Placed
  <1>9. \A u \in Uploader : Sound(t.ups[u])
      BY <1>2, <1>5 DEF Fine
  <1>10. Fine(t)
      BY <1>4, <1>6, <1>7, <1>8, <1>9 DEF Fine
  <1> QED
      BY <1>10 DEF IInv, t

\* With its operation completed an uploader has nothing under way, and does not wait.
LEMMA CompletedIs ==
  ASSUME IInv, NEW u \in Uploader, NEW op, NEW ok, Completes(u, op, ok)
  PROVE  /\ Fine(Completed(u))
         /\ Completed(u).ups[u].ops = <<>> /\ ~Completed(u).ups[u].bwlimit
         /\ Completed(u).ups[u].status = ups[u].status /\ ups[u].status # "closed"
  <1> DEFINE s == Now
             x == ups[u]
             r == [[x EXCEPT !.done = FALSE] EXCEPT !.ops = Tail(x.ops)]
             t == Completed(u)
  <1>1. Fine(s) /\ s.ups = ups
      BY DEF IInv, Now
  <1>2. t = [s EXCEPT !.ups = [s.ups EXCEPT ![u] = r]]
      BY <1>1 DEF Completed
  <1>3. Sound(x)
      BY <1>1 DEF Fine
  <1>4. x.ops # <<>>
      BY DEF Completes
  <1> HIDE DEF s, t, x
  <1>5. Tail(x.ops) = <<>> /\ ~x.bwlimit /\ x.status # "closed"
      BY <1>3, <1>4 DEF Sound
  <1>9. /\ r.ops = <<>> /\ r.pos = x.pos /\ r.status = x.status /\ r.bwlimit = x.bwlimit
        /\ DOMAIN r = DOMAIN x /\ r.offset = x.offset
      BY <1>3, <1>5 DEF Sound
  <1> HIDE DEF r
  <1>6. Sound(r) /\ r.ops = <<>> /\ r.pos = x.pos /\ r.status = x.status /\ ~r.bwlimit
      BY <1>3, <1>5, <1>9 DEF Sound
  <1>7. Edited(s, u, r, t) /\ t.ups[u] = r /\ s.ups[u] = x
      BY <1>1, <1>2 DEF Edited, Fine, Shaped, x
  <1>8. Fine(t)
      BY <1>1, <1>6, <1>7, EditIs
  <1> QED
      BY <1>5, <1>6, <1>7, <1>8 DEF t, x

\* A new uploader is the last of the list.
LEMMA AcceptKeeps ==
  ASSUME IInv, NEW h \in Host, NEW good \in BOOLEAN, NEW late \in BOOLEAN, Accept(h, good, late)
  PROVE  IInv'
  <1>1. PICK u \in Uploader :
          /\ ups[u] = Closed
          /\ LET s == [Now EXCEPT !.ups[u] = [Closed EXCEPT !.host = h, !.status = "idle", !.open = TRUE, !.late = late],
                                  !.uploaders = Append(@, u)]
             IN Become(HandleRequest(UpdateQueue(s), u, good))
      BY DEF Accept
  <1> DEFINE n == Now
             x == [[[[Closed EXCEPT !.host = h] EXCEPT !.status = "idle"] EXCEPT !.open = TRUE] EXCEPT !.late = late]
             m == [n EXCEPT !.ups = [n.ups EXCEPT ![u] = x]]
             s == [m EXCEPT !.uploaders = Append(m.uploaders, u)]
             t == UpdateQueue(s)
  <1>2. Become(HandleRequest(t, u, good))
    <2> DEFINE k == [Now EXCEPT !.ups[u] = [Closed EXCEPT !.host = h, !.status = "idle", !.open = TRUE, !.late = late],
                                !.uploaders = Append(@, u)]
    <2>1. k = s
        BY Zenon
    <2>2. Become(HandleRequest(UpdateQueue(k), u, good))
        BY <1>1
    <2> HIDE DEF k, s
    <2> QED
        BY <2>1, <2>2
  <1>3. Fine(n) /\ n.ups[u] = Closed
      BY <1>1 DEF IInv, Now
  <1> HIDE DEF n
  <1>4. Sound(x) /\ x.status = "idle" /\ x.ops = <<>> /\ ~x.bwlimit
      BY LengthAssumption DEF Closed, Sound
  <1> HIDE DEF x
  <1>5. Shaped(n) /\ Listed(n) /\ Placed(n) /\ (\A v \in Uploader : Sound(n.ups[v]))
        /\ n.ups[u].status = "closed" /\ Metered(n.traf, n.spent)
      BY <1>3 DEF Fine, Closed
  <1>6. /\ DOMAIN m = DOMAIN n /\ m.uploaders = n.uploaders /\ DOMAIN m.ups = Uploader
        /\ m.ups[u] = x /\ \A v \in Uploader \ {u} : m.ups[v] = n.ups[v]
        /\ m.traf = n.traf /\ m.spent = n.spent
      BY <1>5 DEF Shaped
  <1> HIDE DEF m
  <1>7. /\ DOMAIN s = DOMAIN n /\ s.uploaders = Append(n.uploaders, u) /\ s.ups = m.ups
        /\ s.traf = n.traf /\ s.spent = n.spent
      BY <1>5, <1>6 DEF Shaped
  <1> HIDE DEF s
  <1>8. u \notin Range(n.uploaders)
      BY <1>5 DEF Listed
  <1>9. /\ Append(n.uploaders, u) \in Seq(Uploader) /\ IsInjective(Append(n.uploaders, u))
        /\ Range(Append(n.uploaders, u)) = Range(n.uploaders) \cup {u}
    <2>1. n.uploaders \in Seq(Uploader) /\ IsInjective(n.uploaders)
        BY <1>5 DEF Shaped
    <2> QED
        BY <1>8, <2>1, PushFacts
  <1>10. Shaped(s)
      BY <1>5, <1>6, <1>7, <1>9 DEF Shaped
  <1>11. Listed(s)
      BY <1>4, <1>5, <1>6, <1>7, <1>9 DEF Listed
  <1>12. ASSUME NEW i \in DOMAIN s.uploaders, s.ups[s.uploaders[i]].status = "transfer"
         PROVE  i <= MaxUploads
    <2>1. n.uploaders \in Seq(Uploader)
        BY <1>5 DEF Shaped
    <2>2. (i \in DOMAIN n.uploaders /\ s.uploaders[i] = n.uploaders[i]) \/ s.uploaders[i] = u
        BY <1>7, <1>12, <2>1
    <2>3. s.uploaders[i] # u
        BY <1>4, <1>6, <1>7, <1>12
    <2>4. n.uploaders[i] \in Uploader \ {u} /\ i \in DOMAIN n.uploaders
        BY <2>1, <2>2, <2>3
    <2> QED
        BY <1>5, <1>6, <1>7, <1>12, <2>2, <2>3, <2>4 DEF Placed
  <1>13. \A v \in Uploader : Sound(s.ups[v])
      BY <1>4, <1>5, <1>6, <1>7
  <1>14. /\ Fine(t) /\ t.ups[u].ops = <<>> /\ ~t.ups[u].bwlimit /\ t.ups[u].status = "idle"
    <2>1. s.ups[u] = x
        BY <1>6, <1>7
    <2> QED
        BY <1>4, <1>5, <1>7, <1>10, <1>11, <1>12, <1>13, <2>1, QueueIs
  <1> HIDE DEF t
  <1>15. Fine(HandleRequest(t, u, good))
      BY <1>14, HandleRequestIs
  <1> QED
      BY <1>2, <1>15, BecomeIs

\* OnResponseSent, OnTransfer and OnRequest.
LEMMA HandlersKeep ==
  ASSUME IInv, NEW u \in Uploader, NEW ok \in BOOLEAN, NEW throws \in BOOLEAN,
         NEW good \in BOOLEAN, NEW keepAlive \in BOOLEAN,
         \/ OnResponseSent(u, ok, throws)
         \/ OnTransfer(u, ok, throws, keepAlive)
         \/ OnRequest(u, ok, good)
  PROVE  IInv'
  <1> DEFINE s == Completed(u)
  <1>1. PICK op : Completes(u, op, ok)
      BY DEF OnResponseSent, OnTransfer, OnRequest
  <1>2. /\ Fine(s) /\ s.ups[u].ops = <<>> /\ ~s.ups[u].bwlimit
        /\ s.ups[u].status = ups[u].status /\ ups[u].status # "closed"
      BY <1>1, CompletedIs
  <1>3. CASE OnResponseSent(u, ok, throws)
    <2>1. \/ Become(DetachMe(s, u))
          \/ Become([Taken(s, u) EXCEPT !.running = FALSE])
          \/ Become(Transfer(s, u))
          \/ Become(Begin(s, u, "request"))
        BY <1>3 DEF OnResponseSent
    <2> HIDE DEF s
    <2>2. Fine(DetachMe(s, u))
        BY <1>2, DetachMeIs
    <2>3. Fine([Taken(s, u) EXCEPT !.running = FALSE])
      <3> DEFINE t == Taken(s, u)
      <3>1. Fine(t)
          BY <1>2, TakenIs
      <3> HIDE DEF t
      <3> DEFINE v == [t EXCEPT !.running = FALSE]
      <3>2. /\ DOMAIN v = DOMAIN t /\ v.ups = t.ups /\ v.uploaders = t.uploaders
            /\ Metered(v.traf, v.spent)
          BY <3>1 DEF Fine, Shaped
      <3> HIDE DEF v
      <3>3. Fine(v)
          BY <3>1, <3>2, OthersAre
      <3> QED
          BY <3>3 DEF v, t
    <2>4. Fine(Transfer(s, u))
        BY <1>2, TransferIs
    <2>5. Fine(Begin(s, u, "request"))
      <3>1. "request" \in Op
          BY DEF Op
      <3> QED
          BY <1>2, <3>1, BeginIs
    <2> QED
        BY <2>1, <2>2, <2>3, <2>4, <2>5, BecomeIs
  <1>4. CASE OnTransfer(u, ok, throws, keepAlive)
    <2> DEFINE x == s.ups[u]
               r == [[x EXCEPT !.status = "idle"] EXCEPT !.age = "recent"]
               t == [s EXCEPT !.ups = [s.ups EXCEPT ![u] = r]]
               k == [s EXCEPT !.ups[u] = [@ EXCEPT !.status = "idle", !.age = "recent"]]
    <2>1. \/ Become(DetachMe(s, u))
          \/ Become(Begin(k, u, "request"))
          \/ Become(DetachMe(Taken(s, u), u))
          \/ Become(Transfer(s, u))
        BY <1>4 DEF OnTransfer
    <2>2. k = t
        BY Zenon
    <2> HIDE DEF s, k
    <2>3. Fine(DetachMe(s, u)) /\ Fine(DetachMe(Taken(s, u), u))
        BY <1>2, TakenIs, DetachMeIs
    <2>4. Fine(Begin(t, u, "request"))
      <3>1. Shaped(s) /\ Sound(x)
          BY <1>2 DEF Fine
      <3>2. r.status = "idle" /\ r.ops = <<>> /\ ~r.bwlimit /\ r.pos = x.pos /\ DOMAIN r = DOMAIN x
            /\ r.bwlimit = x.bwlimit /\ r.offset = x.offset
          BY <1>2, <3>1 DEF Sound
      <3> HIDE DEF r
      <3>3. Sound(r)
          BY <1>2, <3>1, <3>2 DEF Sound
      <3>4. Edited(s, u, r, t) /\ t.ups[u] = r
          BY <3>1 DEF Edited, Shaped
      <3> HIDE DEF t
      <3>5. Fine(t)
          BY <1>2, <3>2, <3>3, <3>4, EditIs
      <3>6. "request" \in Op
          BY DEF Op
      <3> QED
          BY <3>2, <3>4, <3>5, <3>6, BeginIs
    <2>5. Fine(Transfer(s, u))
        BY <1>2, TransferIs
    <2> HIDE DEF t
    <2> QED
        BY <2>1, <2>2, <2>3, <2>4, <2>5, BecomeIs
  <1>5. CASE OnRequest(u, ok, good)
    <2>1. Become(HandleRequest(s, u, good)) \/ Become(DetachMe(s, u))
        BY <1>5 DEF OnRequest
    <2> HIDE DEF s
    <2>2. Fine(HandleRequest(s, u, good)) /\ Fine(DetachMe(s, u))
        BY <1>2, HandleRequestIs, DetachMeIs
    <2> QED
        BY <2>1, <2>2, BecomeIs
  <1> QED
      BY <1>3, <1>4, <1>5

\* System::OnTimer.
LEMMA OnTimerKeeps ==
  ASSUME IInv, NEW second \in BOOLEAN, OnTimer(second)
  PROVE  IInv'
  <1> DEFINE n == Now
             s == [[n EXCEPT !.traf = OnSecond(n.traf, second)] EXCEPT !.spent = IF second THEN 0 ELSE n.spent]
             k == [Now EXCEPT !.traf = OnSecond(@, second), !.spent = IF second THEN 0 ELSE @]
  <1>1. \E t \in Turns(k) : Become(t)
      BY DEF OnTimer
  <1>2. k = s
      BY Zenon
  <1>3. Fine(n)
      BY DEF IInv
  <1> HIDE DEF n, k
  <1>4. /\ DOMAIN s = DOMAIN n /\ s.ups = n.ups /\ s.uploaders = n.uploaders
        /\ s.traf = OnSecond(n.traf, second) /\ s.spent = IF second THEN 0 ELSE n.spent
      BY <1>3 DEF Fine, Shaped
  <1> HIDE DEF s
  <1>5. Metered(s.traf, s.spent)
    <2>1. Metered(n.traf, n.spent)
        BY <1>3 DEF Fine
    <2> QED
        BY <1>4, <2>1, OnSecondIs
  <1>6. Fine(s)
      BY <1>3, <1>4, <1>5, OthersAre
  <1> QED
      BY <1>1, <1>2, <1>6, TurnsAre, BecomeIs

\* The late timeout of a gatekeeper, and the time that passes.
LEMMA AroundKeeps ==
  ASSUME IInv, NEW u \in Uploader, GatekeeperTimeout(u) \/ Grow(u)
  PROVE  IInv'
  <1> DEFINE x == ups[u]
             a(d) == [[[[x EXCEPT !.late = FALSE] EXCEPT !.open = FALSE] EXCEPT !.done = d]
                        EXCEPT !.ops = IF d THEN x.ops ELSE <<>>]
             b == [x EXCEPT !.age = IF x.age = "recent" THEN "old" ELSE "stale"]
             s == Now
             t == Now'
  <1>1. \E d \in BOOLEAN : \E r \in {IF x.status = "closed" THEN Closed ELSE a(d), b} :
          ups' = [ups EXCEPT ![u] = r]
    <2>1. CASE GatekeeperTimeout(u)
      <3>1. \E d \in BOOLEAN : ups' = [ups EXCEPT ![u] = IF x.status = "closed" THEN Closed ELSE a(d)]
          BY <2>1, Zenon DEF GatekeeperTimeout
      <3> HIDE DEF a, b, x
      <3> QED
          BY <3>1
    <2>2. CASE Grow(u)
      <3>1. ups' = [ups EXCEPT ![u].age = IF @ = "recent" THEN "old" ELSE "stale"]
          BY <2>2 DEF Grow
      <3>2. ups' = [ups EXCEPT ![u] = b]
          BY <3>1
      <3> HIDE DEF a, b, x
      <3> QED
          BY <3>2
    <2> QED
        BY <2>1, <2>2
  <1>2. uploaders' = uploaders /\ traf' = traf /\ spent' = spent
      BY DEF GatekeeperTimeout, Grow
  <1>3. Fine(s) /\ s.ups = ups /\ s.uploaders = uploaders /\ s.traf = traf /\ s.spent = spent
      BY DEF IInv, Now
  <1>4. Sound(x)
      BY <1>3 DEF Fine
  <1>5. /\ t.ups = ups' /\ t.uploaders = uploaders' /\ t.traf = traf' /\ t.spent = spent'
        /\ DOMAIN t = {"ups", "uploaders", "traf", "spent", "running"}
      BY DEF Now
  <1> HIDE DEF s, t
  <1>6. /\ \A d \in BOOLEAN : /\ DOMAIN a(d) = DOMAIN x /\ a(d).status = x.status /\ a(d).pos = x.pos
                               /\ a(d).ops \in {x.ops, <<>>}
                               /\ a(d).bwlimit = x.bwlimit /\ a(d).offset = x.offset
        /\ DOMAIN b = DOMAIN x /\ b.status = x.status /\ b.pos = x.pos /\ b.ops = x.ops
        /\ b.bwlimit = x.bwlimit /\ b.offset = x.offset
      BY <1>4 DEF Sound
  <1> HIDE DEF a, b
  <1>7. (\A d \in BOOLEAN : Sound(a(d))) /\ Sound(b)
    <2> HIDE DEF x
    <2>1. Sound(b)
        BY <1>4, <1>6 DEF Sound
    <2>2. ASSUME NEW d \in BOOLEAN
          PROVE  Sound(a(d))
      <3>1. CASE a(d).ops = x.ops
          BY <1>4, <1>6, <3>1 DEF Sound
      <3>2. CASE a(d).ops = <<>>
          BY <1>4, <1>6, <3>2 DEF Sound
      <3> QED
          BY <1>6, <3>1, <3>2
    <2> QED
        BY <2>1, <2>2
  <1>8. Sound(Closed) /\ Closed.status = "closed"
      BY LengthAssumption DEF Closed, Sound
  <1>9. ASSUME NEW r, ups' = [ups EXCEPT ![u] = r], NEW d \in BOOLEAN,
               r \in {IF x.status = "closed" THEN Closed ELSE a(d), b}
        PROVE  Fine(t)
    <2>1. Edited(s, u, r, t)
        BY <1>2, <1>3, <1>5, <1>9 DEF Edited, Fine, Shaped
    <2>2. s.ups[u] = x
        BY <1>3
    <2> HIDE DEF x
    <2>3. /\ Sound(r) /\ (r.status = "closed" \/ r.pos = x.pos)
          /\ r.status = "closed" <=> x.status = "closed"
          /\ r.status = "transfer" => x.status = "transfer"
        BY <1>6, <1>7, <1>8, <1>9
    <2> QED
        BY <1>3, <2>1, <2>2, <2>3, EditIs
  <1> QED
      BY <1>1, <1>9 DEF IInv, t

\* Nobody is there when the program starts.
LEMMA InitHolds == Init => IInv
  <1> SUFFICES ASSUME Init PROVE IInv
      OBVIOUS
  <1> DEFINE s == Now
  <1>1. /\ DOMAIN s = {"ups", "uploaders", "traf", "spent", "running"}
        /\ s.ups = [u \in Uploader |-> Closed] /\ s.uploaders = <<>>
        /\ s.traf = NoTraffic /\ s.spent = 0
      BY DEF Init, Now
  <1> HIDE DEF s
  <1>2. Sound(Closed) /\ Closed.status = "closed"
      BY LengthAssumption DEF Closed, Sound
  <1>3. <<>> \in Seq(Uploader) /\ IsInjective(<<>>) /\ DOMAIN <<>> = {} /\ Range(<<>>) = {}
      BY DEF IsInjective, Range
  <1>4. Shaped(s)
      BY <1>1, <1>3 DEF Shaped
  <1>5. Metered(NoTraffic, 0)
    <2>1. NoTraffic.share = 0 /\ DOMAIN NoTraffic.clients = {}
        BY DEF NoTraffic
    <2>2. SumFunctionOnSet(Amount(NoTraffic), {}) = 0
        BY FS_EmptySet, SumFacts
    <2> QED
        BY <2>1, <2>2, FS_EmptySet, ShareAssumption DEF Metered
  <1>6. Fine(s)
      BY <1>1, <1>2, <1>3, <1>4, <1>5 DEF Fine, Listed, Placed
  <1> QED
      BY <1>6 DEF IInv, s

\* Every step of the uploads keeps the invariant.
LEMMA StepKeeps == IInv /\ [Next]_vars => IInv'
  <1> SUFFICES ASSUME IInv, [Next]_vars PROVE IInv'
      OBVIOUS
  <1>1. CASE \E h \in Host, good, late \in BOOLEAN : Accept(h, good, late)
      BY <1>1, AcceptKeeps
  <1>2. CASE \/ \E u \in Uploader, ok, throws \in BOOLEAN : OnResponseSent(u, ok, throws)
             \/ \E u \in Uploader, ok, throws, keepAlive \in BOOLEAN : OnTransfer(u, ok, throws, keepAlive)
             \/ \E u \in Uploader, ok, good \in BOOLEAN : OnRequest(u, ok, good)
      BY <1>2, HandlersKeep
  <1>3. CASE \E second \in BOOLEAN : OnTimer(second)
      BY <1>3, OnTimerKeeps
  <1>4. CASE \E u \in Uploader : GatekeeperTimeout(u) \/ Grow(u)
      BY <1>4, AroundKeeps
  <1>5. CASE UNCHANGED vars
    <2>1. Now' = Now
        BY <1>5 DEF vars, Now
    <2> QED
        BY <2>1 DEF IInv
  <1> QED
      BY <1>1, <1>2, <1>3, <1>4, <1>5 DEF Next

\* The first MaxUploads of the list are no more than that.
LEMMA FewTransfer == IInv => TransfersWithinLimit
  <1> SUFFICES ASSUME IInv PROVE TransfersWithinLimit
      OBVIOUS
  <1> DEFINE S == {u \in Uploader : ups[u].status = "transfer"}
             D == 1 .. MaxUploads
             f == [u \in S |-> PlaceOf(Now, u)]
  <1>1. Fine(Now) /\ Now.ups = ups /\ Now.uploaders = uploaders
      BY DEF IInv, Now
  <1>2. ASSUME NEW u \in S
        PROVE  PlaceOf(Now, u) \in D /\ uploaders[PlaceOf(Now, u)] = u
    <2>1. u \in Range(Now.uploaders)
        BY <1>1 DEF Fine, Listed
    <2> DEFINE i == PlaceOf(Now, u)
    <2>2. i \in DOMAIN uploaders /\ uploaders[i] = u
        BY <1>1, <2>1, PlaceOfIs DEF Fine
    <2> HIDE DEF i
    <2>3. i <= MaxUploads /\ i \in Nat \ {0}
        BY <1>1, <2>2 DEF Fine, Placed, Shaped
    <2> QED
        BY <2>2, <2>3, SettingAssumption DEF i
  <1>3. f \in Injection(S, D)
    <2>1. f \in [S -> D] /\ \A u \in S : uploaders[f[u]] = u
        BY <1>2
    <2> HIDE DEF f
    <2>2. IsInjective(f)
        BY <2>1 DEF IsInjective
    <2> QED
        BY <2>1, <2>2 DEF Injection
  <1>4. IsFiniteSet(D) /\ Cardinality(D) = MaxUploads
      BY SettingAssumption, FS_Interval
  <1> HIDE DEF f, D, S
  <1>5. Cardinality(S) <= MaxUploads
      BY <1>3, <1>4, FS_Injection
  <1> QED
      BY <1>5 DEF TransfersWithinLimit, S

\* Whoever comes and leaves, no more than net.maxUploads are sent to at a time.
THEOREM UploadsAreLimited == Spec => []TransfersWithinLimit
  <1> QED
      BY InitHolds, StepKeeps, FewTransfer, PTL DEF Spec

\* The timer never begins a write while one is under way: its flag is set only when
\* nothing is.
THEOREM OneAtATime == Spec => []OneOperation
  <1>1. IInv => OneOperation
      BY DEF IInv, Fine, Sound, Now, OneOperation
  <1> QED
      BY <1>1, InitHolds, StepKeeps, PTL DEF Spec

\* However often the timer goes and whoever asks, no more bytes are given away in a second
\* than there are.
THEOREM NoMoreThanTheShare == Spec => []WithinShare
  <1>1. IInv => WithinShare
    <2> SUFFICES ASSUME IInv PROVE WithinShare
        OBVIOUS
    <2>1. Metered(traf, spent)
        BY DEF IInv, Fine, Now
    <2> DEFINE sum == SumFunctionOnSet(Amount(traf), DOMAIN traf.clients)
    <2>2. sum \in Nat
      <3>1. \A h \in DOMAIN traf.clients : Amount(traf)[h] \in Nat
          BY <2>1 DEF Metered, Amount
      <3> QED
          BY <2>1, <3>1, SumFacts DEF Metered
    <2>3. spent \in Nat /\ traf.share \in Nat /\ spent + traf.share + sum <= MaxShare
        BY <2>1 DEF Metered
    <2> HIDE DEF sum
    <2>4. spent <= MaxShare
        BY <2>2, <2>3, ShareAssumption
    <2> QED
        BY <2>4 DEF WithinShare
  <1> QED
      BY <1>1, InitHolds, StepKeeps, PTL DEF Spec
===============================================================================
