---------------------------- MODULE Files_proofs -----------------------------
(***************************************************************************)
(* Proofs about the files of a download.  FileMap.tla comes first, for a   *)
(* file of any size, with blocks and leases of any length.  The sections   *)
(* follow the code: FindRange, ModifyRange before it merges, the merging   *)
(* loop, what GetEmptyRange and GetForValidation give; then the inductive  *)
(* invariant, the map byte by byte (bytesBar) as ByteMap sees it, and the  *)
(* refinement.  The loop is enough because only the two ends of the new    *)
(* range can need merging (CutUnmerged) and each turn settles the end it   *)
(* stands at and moves on to the next (Turned): of the three turns two do  *)
(* the work.  NeverStranded needs that a block is VALID as a whole or not  *)
(* at all.                                                                 *)
(* Then FileManager.tla, for any number of owners, names and files.        *)
(* KeepsAccess holds because a file in the table is open in one of the two *)
(* modes that callers use, so that a reopening can only widen its access.  *)
(* InTable needs besides that the entries of the table are distinct files, *)
(* DroppedWithLast that an entry whose file has another name was moved:    *)
(* only then does FileManager::Close, which looks a file up under its      *)
(* present name, find the entry it must erase, and no other one in use.    *)
(* Then ShareManager.tla, for any number of shared names.  The three       *)
(* properties are one invariant with the types (ShareInv), for every       *)
(* handler needs that the index it is called with is a good one.  What it  *)
(* adds is about the Work: no scan looks for the file of a download        *)
(* (Scanned), as what it has not found is taken out of an index that may   *)
(* have the download by then.                                              *)
(***************************************************************************)
EXTENDS FileMap, FileManager, ShareManager, CollectionFacts, TLAPS, FiniteSetTheorems, WellFoundedInduction

Covers(r, k) == r.first <= k /\ k <= r.last

\* A set of ranges that is a map of the file.
Tiling(R) == /\ R \subseteq FileRangeEx
             /\ \A k \in Byte : \E r \in R : Covers(r, k)
             /\ \A r, q \in R : Intersects(r, q) => r = q

\* The sizes are positive numbers.
LEMMA SizesAreNat == Size \in Nat \ {0} /\ VerSize \in Nat \ {0} /\ MaxLength \in Nat \ {0}
  BY SizesAssumption

\* A range of the map begins and ends in the file.
LEMMA RangeType ==
  ASSUME NEW r \in FileRangeEx
  PROVE  /\ r.first \in Nat /\ r.last \in Nat /\ r.st \in Status
         /\ 0 <= r.first /\ r.first <= r.last /\ r.last <= Size - 1
         /\ r.first \in Byte /\ r.last \in Byte
         /\ r = [first |-> r.first, last |-> r.last, st |-> r.st]
  BY SizesAreNat DEF FileRangeEx, Byte

Below == {ss \in Nat \X Nat : ss[1] < ss[2]}

\* A set of numbers that is not empty has a least one.
LEMMA NatMin ==
  ASSUME NEW S \in SUBSET Nat, S # {}
  PROVE  \E n \in S : \A m \in S : n <= m
  <1>1. IsWellFoundedOn(Below, Nat)
      BY NatLessThanWellFounded, Zenon DEF OpToRel, Below
  <1>2. PICK x \in S : \A y \in S : ~ (<<y, x>> \in Below)
      BY <1>1, WFMin
  <1>3. ASSUME NEW y \in S PROVE x <= y
    <2> DEFINE p == <<y, x>>
    <2>1. p \in Nat \X Nat /\ p[1] = y /\ p[2] = x /\ x \in Nat /\ y \in Nat
        OBVIOUS
    <2>2. ~ (p \in Below)
        BY <1>2
    <2> HIDE DEF p
    <2> QED
        BY <2>1, <2>2 DEF Below
  <1> QED
      BY <1>3

-----------------------------------------------------------------------------
(* FindRange is the range that covers a byte.                                *)

\* FileMap::FindRange gives the one range that covers the byte.
LEMMA FindRangeIs ==
  ASSUME NEW R, Tiling(R), NEW k \in Byte
  PROVE  /\ FindRange(R, k) \in R
         /\ Covers(FindRange(R, k), k)
         /\ \A q \in R : Covers(q, k) => q = FindRange(R, k)
  <1>1. PICK c \in R : Covers(c, k)
      BY DEF Tiling
  <1> DEFINE S == {r \in R : r.first <= k}
  <1>2. c \in S
      BY <1>1 DEF Covers
  <1>3. ASSUME NEW q \in S PROVE q.first <= c.first
    <2>1. q \in FileRangeEx /\ c \in FileRangeEx /\ k \in Nat
        BY <1>1, SizesAreNat DEF Tiling, Byte
    <2>2. CASE Intersects(q, c)
        BY <2>1, <2>2, <1>1, RangeType DEF Tiling
    <2>3. CASE ~ Intersects(q, c)
        BY <2>1, <2>3, <1>1, RangeType DEF Intersects, Covers
    <2> QED
        BY <2>2, <2>3
  <1>4. ASSUME NEW q \in R, Covers(q, k) PROVE q = c
      BY <1>1, <1>4, SizesAreNat, RangeType DEF Tiling, Intersects, Covers, Byte
  <1>5. ASSUME NEW d \in S, \A q \in S : q.first <= d.first PROVE d = c
    <2>1. d \in FileRangeEx /\ c \in FileRangeEx /\ d \in R
        BY <1>1 DEF Tiling
    <2>2. d.first = c.first
        BY <1>2, <1>3, <1>5, <2>1, RangeType
    <2> QED
        BY <1>1, <2>1, <2>2, RangeType DEF Tiling, Intersects
  <1>6. Highest(S) = c
      BY <1>2, <1>3, <1>5 DEF Highest
  <1> QED
      BY <1>1, <1>4, <1>6 DEF FindRange
-----------------------------------------------------------------------------
(* ModifyRange before it merges.                                             *)

New(r, st) == [first |-> r.first, last |-> r.last, st |-> st]
CutOf(R, r, st) ==
  LET firstPart == FindRange(R, r.first)
      lastPart  == FindRange(R, r.last)
      erased == {q \in R : firstPart.first <= q.first /\ q.first <= lastPart.first}
  IN (R \ erased) \cup LeftOf(r, firstPart) \cup RightOf(r, lastPart) \cup {New(r, st)}

\* S is R after r was set to st.
Paints(R, S, r, st) ==
  \A k \in Byte : \A p \in R, q \in S :
     Covers(p, k) /\ Covers(q, k) => q.st = IF Covers(r, k) THEN st ELSE p.st

\* The ranges that ModifyRange erases, from firstPart to lastPart, are those that r
\* touches.
LEMMA PartsAre ==
  ASSUME NEW R, Tiling(R), NEW r \in FileRange
  PROVE  /\ FindRange(R, r.first) \in R /\ Covers(FindRange(R, r.first), r.first)
         /\ FindRange(R, r.last) \in R /\ Covers(FindRange(R, r.last), r.last)
         /\ \A q \in R : Intersects(q, r) <=> /\ FindRange(R, r.first).first <= q.first
                                           /\ q.first <= FindRange(R, r.last).first
  <1> DEFINE a == FindRange(R, r.first)
             z == FindRange(R, r.last)
  <1>1. r.first \in Byte /\ r.last \in Byte /\ r.first <= r.last /\ r.first \in Nat /\ r.last \in Nat
      BY SizesAreNat DEF FileRange, Byte
  <1>2. a \in R /\ Covers(a, r.first) /\ z \in R /\ Covers(z, r.last)
      BY <1>1, FindRangeIs
  <1> HIDE DEF a, z
  <1>3. ASSUME NEW q \in R
        PROVE  Intersects(q, r) <=> a.first <= q.first /\ q.first <= z.first
    <2>1. q \in FileRangeEx /\ a \in FileRangeEx /\ z \in FileRangeEx
        BY <1>2 DEF Tiling
    <2>2. (Intersects(q, a) => q = a) /\ (Intersects(q, z) => q = z)
        BY <1>2 DEF Tiling
    <2>3. /\ q.first \in Nat /\ q.last \in Nat /\ q.first <= q.last
          /\ a.first \in Nat /\ a.last \in Nat /\ a.first <= a.last
          /\ z.first \in Nat /\ z.last \in Nat /\ z.first <= z.last
        BY <2>1, RangeType
    <2>4. a.first <= r.first /\ r.first <= a.last /\ z.first <= r.last /\ r.last <= z.last
        BY <1>2 DEF Covers
    <2>5. ASSUME Intersects(q, r) PROVE a.first <= q.first /\ q.first <= z.first
      <3>1. q.first <= r.last /\ r.first <= q.last
          BY <2>5 DEF Intersects
      <3>2. (q.first < a.first => Intersects(q, a)) /\ (q.first > z.first => Intersects(q, z))
          BY <3>1, <2>3, <2>4, <1>1 DEF Intersects
      <3> QED
          BY <3>2, <2>2, <2>3
    <2>6. ASSUME a.first <= q.first, q.first <= z.first PROVE Intersects(q, r)
      <3>1. q.first <= r.last
          BY <2>6, <2>3, <2>4, <1>1
      <3>2. CASE q.last < r.first
        <4>1. Intersects(q, a)
            BY <3>2, <2>6, <2>3, <2>4, <1>1 DEF Intersects
        <4> QED
            BY <4>1, <3>2, <2>2, <2>4, <1>1, <2>3
      <3> QED
          BY <3>1, <3>2, <1>1, <2>3 DEF Intersects
    <2> QED
        BY <2>5, <2>6
  <1> QED
      BY <1>2, <1>3 DEF a, z

\* What is in the set before anything is merged.
LEMMA CutIs ==
  ASSUME NEW R, Tiling(R), NEW r \in FileRange, NEW st \in Status
  PROVE  \A x : x \in CutOf(R, r, st) <=>
           \/ x = New(r, st)
           \/ x \in R /\ ~ Intersects(x, r)
           \/ /\ FindRange(R, r.first).first < r.first
              /\ x = [FindRange(R, r.first) EXCEPT !.last = r.first - 1]
           \/ /\ r.last < FindRange(R, r.last).last
              /\ x = [FindRange(R, r.last) EXCEPT !.first = r.last + 1]
  <1> DEFINE a == FindRange(R, r.first)
             z == FindRange(R, r.last)
  <1>1. \A q \in R : Intersects(q, r) <=> a.first <= q.first /\ q.first <= z.first
      BY PartsAre
  <1>2. a \in FileRangeEx /\ r.first \in Nat
      BY PartsAre, SizesAreNat DEF Tiling, FileRange, Byte
  <1>3. r.first > a.first <=> a.first < r.first
      BY <1>2, RangeType
  <1> QED
      BY <1>1, <1>3 DEF CutOf, LeftOf, RightOf

\* All but the new range are what r leaves of a range.
LEMMA PiecesAre ==
  ASSUME NEW R, Tiling(R), NEW r \in FileRange, NEW st \in Status,
         NEW x \in CutOf(R, r, st), x # New(r, st)
  PROVE  /\ x \in FileRangeEx /\ ~ Intersects(x, r)
         /\ \E p \in R : /\ x.st = p.st /\ p.first <= x.first /\ x.last <= p.last
                         /\ x.first # p.first => x.first = r.last + 1
                         /\ x.last # p.last => x.last = r.first - 1
  <1> DEFINE a == FindRange(R, r.first)
             z == FindRange(R, r.last)
  <1>1. /\ a \in R /\ Covers(a, r.first) /\ z \in R /\ Covers(z, r.last)
        /\ a \in FileRangeEx /\ z \in FileRangeEx
      BY PartsAre DEF Tiling
  <1>2. \/ x \in R /\ ~ Intersects(x, r)
        \/ a.first < r.first /\ x = [a EXCEPT !.last = r.first - 1]
        \/ r.last < z.last /\ x = [z EXCEPT !.first = r.last + 1]
      BY CutIs
  <1> HIDE DEF a, z
  <1>3. r.first \in Nat /\ r.last \in Nat /\ r.first <= r.last /\ r.last <= Size - 1
      BY SizesAreNat DEF FileRange, Byte
  <1>4. CASE x \in R /\ ~ Intersects(x, r)
      BY <1>4, RangeType DEF Tiling
  <1>5. CASE a.first < r.first /\ x = [a EXCEPT !.last = r.first - 1]
    <2>1. x = [first |-> a.first, last |-> r.first - 1, st |-> a.st]
        BY <1>1, <1>5, RangeType
    <2>2. /\ a.first \in Nat /\ a.last \in Nat /\ a.st \in Status
          /\ a.first <= r.first /\ r.first <= a.last /\ a.last <= Size - 1
        BY <1>1, RangeType DEF Covers
    <2>3. x \in FileRangeEx /\ ~ Intersects(x, r)
        BY <2>1, <2>2, <1>3, <1>5, SizesAreNat DEF FileRangeEx, Byte, Intersects
    <2> QED
        BY <2>1, <2>2, <2>3, <1>1, <1>3
  <1>6. CASE r.last < z.last /\ x = [z EXCEPT !.first = r.last + 1]
    <2>1. x = [first |-> r.last + 1, last |-> z.last, st |-> z.st]
        BY <1>1, <1>6, RangeType
    <2>2. /\ z.first \in Nat /\ z.last \in Nat /\ z.st \in Status
          /\ z.first <= r.last /\ r.last <= z.last /\ z.last <= Size - 1
        BY <1>1, RangeType DEF Covers
    <2>3. x \in FileRangeEx /\ ~ Intersects(x, r)
        BY <2>1, <2>2, <1>3, <1>6, SizesAreNat DEF FileRangeEx, Byte, Intersects
    <2> QED
        BY <2>1, <2>2, <2>3, <1>1, <1>3
  <1> QED
      BY <1>2, <1>4, <1>5, <1>6

\* The inserted range is a range.
LEMMA NewIs ==
  ASSUME NEW r \in FileRange, NEW st \in Status
  PROVE  /\ New(r, st) \in FileRangeEx
         /\ New(r, st).first = r.first /\ New(r, st).last = r.last /\ New(r, st).st = st
         /\ r.first \in Nat /\ r.last \in Nat /\ r.first <= r.last /\ r.last <= Size - 1
         /\ r.first \in Byte /\ r.last \in Byte
  BY SizesAreNat DEF New, FileRange, FileRangeEx, Byte

\* Erasing, putting back what sticks out and inserting r gives a map again, which
\* differs from the old one in the bytes of r only.
LEMMA CutTiles ==
  ASSUME NEW R, Tiling(R), NEW r \in FileRange, NEW st \in Status
  PROVE  Tiling(CutOf(R, r, st)) /\ Paints(R, CutOf(R, r, st), r, st)
  <1> DEFINE C == CutOf(R, r, st)
             n == New(r, st)
             a == FindRange(R, r.first)
             z == FindRange(R, r.last)
  <1>1. n \in C
      BY CutIs
  <1>2. C \subseteq FileRangeEx
      BY PiecesAre, NewIs
  <1>3. ASSUME NEW k \in Byte PROVE \E q \in C : Covers(q, k)
    <2>1. PICK p \in R : Covers(p, k)
        BY DEF Tiling
    <2>2. /\ p \in FileRangeEx /\ k \in Nat
          /\ p.first \in Nat /\ p.last \in Nat /\ p.first <= k /\ k <= p.last
        BY <2>1, SizesAreNat, RangeType DEF Tiling, Byte, Covers
    <2>3. CASE ~ Intersects(p, r)
        BY <2>1, <2>3, CutIs
    <2>4. CASE Covers(r, k)
        BY <1>1, <2>4, NewIs DEF Covers
    <2>5. CASE Intersects(p, r) /\ k < r.first
      <3>1. p = a
          BY <2>1, <2>2, <2>5, NewIs, FindRangeIs DEF Intersects, Covers
      <3> DEFINE q == [a EXCEPT !.last = r.first - 1]
      <3>2. q \in C
          BY <3>1, <2>2, <2>5, NewIs, CutIs
      <3>3. q.first = p.first /\ q.last = r.first - 1
          BY <3>1, <2>2, RangeType
      <3> HIDE DEF q, C
      <3> QED
          BY <3>2, <3>3, <2>2, <2>5, NewIs DEF Covers
    <2>6. CASE Intersects(p, r) /\ r.last < k
      <3>1. p = z
          BY <2>1, <2>2, <2>6, NewIs, FindRangeIs DEF Intersects, Covers
      <3> DEFINE q == [z EXCEPT !.first = r.last + 1]
      <3>2. q \in C
          BY <3>1, <2>2, <2>6, NewIs, CutIs
      <3>3. q.first = r.last + 1 /\ q.last = p.last
          BY <3>1, <2>2, RangeType
      <3> HIDE DEF q, C
      <3> QED
          BY <3>2, <3>3, <2>2, <2>6, NewIs DEF Covers
    <2> QED
        BY <2>2, <2>3, <2>4, <2>5, <2>6, NewIs DEF Covers
  <1>4. ASSUME NEW x \in C, NEW y \in C, Intersects(x, y) PROVE x = y
    <2>1. CASE x = n \/ y = n
      <3>1. ASSUME NEW w \in C, w # n PROVE ~ Intersects(w, n) /\ ~ Intersects(n, w)
          BY <3>1, PiecesAre, NewIs, RangeType DEF Intersects
      <3> QED
          BY <1>4, <2>1, <3>1
    <2>2. CASE x # n /\ y # n
      <3>1. PICK p \in R : /\ x.st = p.st /\ p.first <= x.first /\ x.last <= p.last
                           /\ x.first # p.first => x.first = r.last + 1
                           /\ x.last # p.last => x.last = r.first - 1
          BY <2>2, PiecesAre
      <3>2. PICK q \in R : /\ y.st = q.st /\ q.first <= y.first /\ y.last <= q.last
                           /\ y.first # q.first => y.first = r.last + 1
                           /\ y.last # q.last => y.last = r.first - 1
          BY <2>2, PiecesAre
      <3>3. /\ x \in FileRangeEx /\ ~ Intersects(x, r) /\ y \in FileRangeEx /\ ~ Intersects(y, r)
            /\ p \in FileRangeEx /\ q \in FileRangeEx
          BY <2>2, PiecesAre DEF Tiling
      <3>4. /\ p.first \in Nat /\ p.last \in Nat /\ q.first \in Nat /\ q.last \in Nat
            /\ x.first \in Nat /\ x.last \in Nat /\ x.first <= x.last
            /\ y.first \in Nat /\ y.last \in Nat /\ y.first <= y.last
          BY <3>3, RangeType
      <3>5. Intersects(p, q)
          BY <1>4, <3>1, <3>2, <3>4 DEF Intersects
      <3>6. p = q
          BY <3>5 DEF Tiling
      <3>7. x.first = y.first /\ x.last = y.last /\ x.st = y.st
          BY <1>4, <3>1, <3>2, <3>3, <3>4, <3>6, NewIs DEF Intersects
      <3> QED
          BY <3>3, <3>7, RangeType
    <2> QED
        BY <2>1, <2>2
  <1>5. ASSUME NEW k \in Byte, NEW p \in R, NEW q \in C, Covers(p, k), Covers(q, k)
        PROVE  q.st = IF Covers(r, k) THEN st ELSE p.st
    <2>1. CASE q = n
        BY <1>5, <2>1, NewIs DEF Covers
    <2>2. CASE q # n
      <3>1. PICK o \in R : q.st = o.st /\ o.first <= q.first /\ q.last <= o.last
          BY <2>2, PiecesAre
      <3>2. q \in FileRangeEx /\ ~ Intersects(q, r) /\ o \in FileRangeEx /\ p \in FileRangeEx /\ k \in Nat
          BY <2>2, PiecesAre, SizesAreNat DEF Tiling, Byte
      <3>3. Covers(o, k) /\ ~ Covers(r, k)
          BY <1>5, <3>1, <3>2, RangeType, NewIs DEF Covers, Intersects
      <3>4. Intersects(o, p)
          BY <1>5, <3>2, <3>3, RangeType DEF Covers, Intersects
      <3> QED
          BY <3>1, <3>3, <3>4 DEF Tiling
    <2> QED
        BY <2>1, <2>2
  <1> QED
      BY <1>2, <1>3, <1>4, <1>5 DEF Tiling, Paints
-----------------------------------------------------------------------------
(* The merging loop.                                                         *)

\* The range behind a in a map is the one that begins where a ends.
LEMMA NextIs ==
  ASSUME NEW S, Tiling(S), NEW a \in S
  PROVE  LET after == {q \in S : q.first > a.first}
         IN /\ a.last = Size - 1 => after = {}
            /\ a.last # Size - 1 => /\ after # {}
                                    /\ Lowest(after) \in S
                                    /\ Lowest(after).first = a.last + 1
  <1> DEFINE after == {q \in S : q.first > a.first}
  <1>1. /\ a.first \in Nat /\ a.last \in Nat /\ a.first <= a.last /\ a.last <= Size - 1
        /\ Size \in Nat
      BY RangeType, SizesAreNat DEF Tiling
  <1>2. ASSUME NEW q \in after
        PROVE  /\ q.first \in Nat /\ q.last \in Nat /\ q.first <= q.last /\ q.last <= Size - 1
               /\ a.last + 1 <= q.first
    <2>1. q \in S /\ q \in FileRangeEx /\ q.first > a.first
        BY DEF Tiling
    <2>2. q.first \in Nat /\ q.last \in Nat /\ q.first <= q.last /\ q.last <= Size - 1
        BY <2>1, RangeType
    <2>3. ~ Intersects(q, a)
        BY <2>1, <2>2, <1>1 DEF Tiling
    <2> QED
        BY <2>1, <2>2, <2>3, <1>1 DEF Intersects
  <1>3. CASE a.last = Size - 1
      BY <1>1, <1>2, <1>3
  <1>4. CASE a.last # Size - 1
    <2>1. a.last + 1 \in Byte
        BY <1>1, <1>4 DEF Byte
    <2>2. PICK d \in S : Covers(d, a.last + 1)
        BY <2>1 DEF Tiling
    <2>3. d.first \in Nat /\ d.last \in Nat /\ d.first <= a.last + 1 /\ a.last + 1 <= d.last
        BY <2>2, RangeType DEF Tiling, Covers
    <2>4. d # a
        BY <2>3, <1>1
    <2>5. ~ Intersects(d, a)
        BY <2>2, <2>4 DEF Tiling
    <2>6. d.first = a.last + 1
        BY <2>3, <2>5, <1>1 DEF Intersects
    <2>7. d \in after
        BY <2>2, <2>6, <1>1
    <2>8. ASSUME NEW e \in after, \A q \in after : e.first <= q.first PROVE e = d
      <3>1. e.first = d.first
          BY <2>6, <2>7, <2>8, <1>2, <1>1
      <3>2. Intersects(e, d)
          BY <3>1, <2>3, <2>6, <2>8, <1>2, <1>1 DEF Intersects
      <3> QED
          BY <3>2, <2>2, <2>8 DEF Tiling
    <2>9. \A q \in after : d.first <= q.first
        BY <1>2, <2>6
    <2>10. Lowest(after) = d
        BY <2>7, <2>8, <2>9 DEF Lowest
    <2> QED
        BY <2>2, <2>6, <2>7, <2>10, <1>4
  <1> QED
      BY <1>3, <1>4

\* One turn of the loop, without the iterator's search for its successor.
LEMMA MergeTurnIs ==
  ASSUME NEW S, Tiling(S), NEW a \in S, NEW m, m = [set |-> S, at |-> a]
  PROVE  \/ a.last = Size - 1 /\ MergeTurn(m) = [set |-> S, at |-> NoRange]
         \/ \E d \in S : /\ d.first = a.last + 1 /\ d.st # a.st
                         /\ MergeTurn(m) = [set |-> S, at |-> d]
         \/ \E d \in S : LET w == [first |-> a.first, last |-> d.last, st |-> a.st]
                         IN /\ d.first = a.last + 1 /\ d.st = a.st
                            /\ MergeTurn(m) = [set |-> (S \ {a, d}) \cup {w}, at |-> w]
  <1> DEFINE after == {q \in m.set : q.first > m.at.first}
             d == Lowest(after)
             whole == [first |-> m.at.first, last |-> d.last, st |-> m.at.st]
             w == [first |-> a.first, last |-> d.last, st |-> a.st]
             atNone == [set |-> m.set, at |-> NoRange]
             atNext == [set |-> m.set, at |-> d]
             swallowed == [set |-> (m.set \ {m.at, d}) \cup {whole}, at |-> whole]
  <1>1. a # NoRange /\ a = [first |-> a.first, last |-> a.last, st |-> a.st]
      BY NoRangeAssumption, RangeType DEF Tiling
  <1>2. /\ m.at = NoRange \/ after = {} => MergeTurn(m) = atNone
        /\ m.at # NoRange /\ after # {} /\ d.first = m.at.last + 1 /\ d.st = m.at.st
             => MergeTurn(m) = swallowed
        /\ m.at # NoRange /\ after # {} /\ d.st # m.at.st => MergeTurn(m) = atNext
    <2>1. m.at = NoRange \/ after = {} => MergeTurn(m) = atNone
        BY DEF MergeTurn
    <2>2. m.at # NoRange /\ after # {} /\ d.first = m.at.last + 1 /\ d.st = m.at.st
             => MergeTurn(m) = swallowed
        BY DEF MergeTurn
    <2>3. m.at # NoRange /\ after # {} /\ d.st # m.at.st => MergeTurn(m) = atNext
        BY DEF MergeTurn
    <2> QED
        BY <2>1, <2>2, <2>3
  <1>3. m.set = S /\ m.at = a
      OBVIOUS
  <1>4. after = {q \in S : q.first > a.first}
      BY <1>3
  <1> HIDE DEF after
  <1>5. /\ a.last = Size - 1 => after = {}
        /\ a.last # Size - 1 => after # {} /\ d \in S /\ d.first = a.last + 1
      BY <1>4, NextIs
  <1> HIDE DEF d
  <1>6. atNone = [set |-> S, at |-> NoRange] /\ atNext = [set |-> S, at |-> d]
      OBVIOUS
  <1>7. whole = w
      BY <1>1, <1>3
  <1>8. swallowed = [set |-> (S \ {a, d}) \cup {w}, at |-> w]
      BY <1>7, <1>3
  <1> HIDE DEF whole, atNone, atNext, swallowed
  <1>9. CASE a.last = Size - 1
      BY <1>2, <1>6, <1>5, <1>9
  <1>10. CASE a.last # Size - 1 /\ d.st = a.st
      BY <1>1, <1>2, <1>3, <1>8, <1>5, <1>10
  <1>11. CASE a.last # Size - 1 /\ d.st # a.st
      BY <1>1, <1>2, <1>3, <1>6, <1>5, <1>11
  <1> QED
      BY <1>9, <1>10, <1>11

\* The maps R and S give each byte the same status.
SameAs(R, S) ==
  \A k \in Byte : \A p \in R, q \in S : Covers(p, k) /\ Covers(q, k) => p.st = q.st

\* Ranges that ought to be one meet behind byte k.
Unmerged(S, k) ==
  \E p, q \in S : p.last = k /\ q.first = k + 1 /\ p.st = q.st /\ p.st # "empty"

\* Two ranges of one status, one behind the other, become one.
LEMMA SwallowKeeps ==
  ASSUME NEW S, Tiling(S), NEW a \in S, NEW d \in S, d.first = a.last + 1, d.st = a.st,
         NEW w, w = [first |-> a.first, last |-> d.last, st |-> a.st],
         NEW T, T = (S \ {a, d}) \cup {w}
  PROVE  /\ Tiling(T) /\ SameAs(S, T)
         /\ \A k : Unmerged(T, k) => Unmerged(S, k) /\ k # a.last
  <1>1. /\ a.first \in Nat /\ a.last \in Nat /\ a.first <= a.last /\ a.st \in Status
        /\ d.first \in Nat /\ d.last \in Nat /\ d.first <= d.last /\ d.last <= Size - 1
        /\ Size \in Nat
      BY RangeType, SizesAreNat DEF Tiling
  <1>2. w.first = a.first /\ w.last = d.last /\ w.st = a.st
      OBVIOUS
  <1>3. w \in FileRangeEx
      BY <1>1 DEF FileRangeEx, Byte
  <1>4. ASSUME NEW q \in S
        PROVE  q.first \in Nat /\ q.last \in Nat /\ q.first <= q.last
      BY <1>4, RangeType DEF Tiling
  <1>5. ASSUME NEW q \in S, q # a, q # d PROVE ~ Intersects(q, w) /\ ~ Intersects(w, q)
    <2>1. ~ Intersects(q, a) /\ ~ Intersects(q, d)
        BY <1>5 DEF Tiling
    <2> QED
        BY <2>1, <1>1, <1>2, <1>4 DEF Intersects
  <1>6. \A x, y \in T : Intersects(x, y) => x = y
      BY <1>5 DEF Tiling
  <1>7. ASSUME NEW k \in Byte PROVE \E q \in T : Covers(q, k)
    <2>1. PICK q \in S : Covers(q, k)
        BY DEF Tiling
    <2>2. CASE q \notin {a, d}
        BY <2>1, <2>2
    <2>3. CASE q \in {a, d}
        BY <2>1, <2>3, <1>1, <1>2 DEF Covers, Byte
    <2> QED
        BY <2>2, <2>3
  <1>8. Tiling(T)
      BY <1>3, <1>6, <1>7 DEF Tiling
  <1>9. ASSUME NEW k \in Byte, NEW p \in S, NEW q \in T, Covers(p, k), Covers(q, k)
        PROVE  p.st = q.st
    <2>1. k \in Nat
        BY <1>1 DEF Byte
    <2>2. CASE q # w
      <3>1. q \in S /\ Intersects(p, q)
          BY <2>1, <2>2, <1>4, <1>9 DEF Covers, Intersects
      <3> QED
          BY <3>1 DEF Tiling
    <2>3. CASE q = w
      <3>1. Intersects(p, w)
          BY <2>1, <2>3, <1>1, <1>2, <1>4, <1>9 DEF Covers, Intersects
      <3> QED
          BY <2>3, <3>1, <1>2, <1>5
    <2> QED
        BY <2>2, <2>3
  <1>10. ASSUME NEW k, Unmerged(T, k) PROVE Unmerged(S, k) /\ k # a.last
    <2>1. PICK p, q \in T : p.last = k /\ q.first = k + 1 /\ p.st = q.st /\ p.st # "empty"
        BY <1>10 DEF Unmerged
    <2>2. p.first \in Nat /\ p.last \in Nat /\ p.first <= p.last /\ q.first \in Nat
        BY <1>3, <1>4, RangeType
    <2>3. p # q
        BY <2>1, <2>2
    <2>4. CASE p = w
      <3>1. k = d.last /\ q \in S
          BY <2>1, <2>3, <2>4, <1>2
      <3> QED
          BY <2>1, <2>4, <3>1, <1>1, <1>2 DEF Unmerged
    <2>5. CASE q = w
      <3>1. k + 1 = a.first /\ p \in S
          BY <2>1, <2>3, <2>5, <1>2
      <3> QED
          BY <2>1, <2>2, <2>5, <3>1, <1>1, <1>2 DEF Unmerged
    <2>6. CASE p # w /\ q # w
      <3>1. p \in S /\ q \in S /\ p # a
          BY <2>6
      <3>2. k # a.last
        <4>1. SUFFICES ASSUME k = a.last PROVE FALSE
            OBVIOUS
        <4>2. Intersects(p, a)
            BY <4>1, <2>1, <2>2, <1>1 DEF Intersects
        <4> QED
            BY <4>2, <3>1 DEF Tiling
      <3> QED
          BY <2>1, <3>1, <3>2 DEF Unmerged
    <2> QED
        BY <2>4, <2>5, <2>6
  <1> QED
      BY <1>8, <1>9, <1>10 DEF SameAs

\* What a turn of the loop does to the map and to the iterator.
Turned(m, t) ==
  /\ t = [set |-> t.set, at |-> t.at] /\ t.at \in t.set \cup {NoRange}
  /\ Tiling(t.set) /\ SameAs(m.set, t.set)
  /\ \A k : Unmerged(t.set, k) => Unmerged(m.set, k) /\ (m.at # NoRange => k # m.at.last)
  /\ m.at # NoRange =>
       \A d \in m.set : d.first = m.at.last + 1 => t.at # NoRange /\ t.at.last = d.last

\* A map gives each byte the status that it gives it.
LEMMA SameRefl ==
  ASSUME NEW S, Tiling(S)
  PROVE  SameAs(S, S)
  <1>1. ASSUME NEW k \in Byte, NEW p \in S, NEW q \in S, Covers(p, k), Covers(q, k)
        PROVE  p.st = q.st
    <2>1. k \in Nat /\ p \in FileRangeEx /\ q \in FileRangeEx
        BY SizesAreNat DEF Byte, Tiling
    <2>2. Intersects(p, q)
        BY <2>1, <1>1, RangeType DEF Covers, Intersects
    <2> QED
        BY <2>2 DEF Tiling
  <1> QED
      BY <1>1 DEF SameAs

\* Two turns that change no byte change none together.
LEMMA SameTrans ==
  ASSUME NEW R, NEW S, NEW T, Tiling(S), SameAs(R, S), SameAs(S, T)
  PROVE  SameAs(R, T)
  BY DEF Tiling, SameAs

\* A turn of the merging loop keeps the map and every byte, leaves nothing to merge
\* behind the range it was at, and takes what was behind that range along.
LEMMA MergeTurnTurns ==
  ASSUME NEW m, m = [set |-> m.set, at |-> m.at], m.at \in m.set \cup {NoRange}, Tiling(m.set)
  PROVE  Turned(m, MergeTurn(m))
  <1> DEFINE S == m.set
             a == m.at
             t == MergeTurn(m)
  <1>1. CASE a = NoRange
    <2>1. t = [set |-> S, at |-> NoRange]
        BY <1>1 DEF MergeTurn
    <2> QED
        BY <2>1, <1>1, SameRefl DEF Turned
  <1>2. CASE a # NoRange
    <2>1. a \in S /\ a.first \in Nat /\ a.last \in Nat
        BY <1>2, RangeType DEF Tiling
    <2>2. ASSUME NEW d \in S, d.first = a.last + 1, NEW e \in S, e.first = a.last + 1
          PROVE  d = e
      <3>1. d.first \in Nat /\ d.last \in Nat /\ d.first <= d.last
            /\ e.first \in Nat /\ e.last \in Nat /\ e.first <= e.last
          BY RangeType DEF Tiling
      <3>2. Intersects(d, e)
          BY <3>1, <2>2 DEF Intersects
      <3> QED
          BY <3>2 DEF Tiling
    <2>3. CASE a.last = Size - 1 /\ t = [set |-> S, at |-> NoRange]
      <3>1. ASSUME NEW d \in S PROVE d.first # a.last + 1
          BY <2>3, RangeType, SizesAreNat DEF Tiling
      <3>2. ASSUME NEW k, Unmerged(S, k) PROVE k # a.last
          BY <3>1, <3>2 DEF Unmerged
      <3> QED
          BY <2>3, <3>1, <3>2, SameRefl DEF Turned
    <2>4. ASSUME NEW d \in S, d.first = a.last + 1, d.st # a.st, t = [set |-> S, at |-> d]
          PROVE  Turned(m, t)
      <3>1. d # NoRange
          BY NoRangeAssumption DEF Tiling
      <3>2. ASSUME NEW k, Unmerged(S, k) PROVE k # a.last
        <4>1. SUFFICES ASSUME k = a.last PROVE FALSE
            OBVIOUS
        <4>2. PICK p, q \in S : p.last = k /\ q.first = k + 1 /\ p.st = q.st
            BY <3>2 DEF Unmerged
        <4>3. q = d
            BY <2>2, <2>4, <4>1, <4>2
        <4>4. Intersects(p, a)
            BY <4>1, <4>2, <2>1, RangeType DEF Tiling, Intersects
        <4>5. p = a
            BY <4>4, <2>1 DEF Tiling
        <4> QED
            BY <2>4, <4>2, <4>3, <4>5
      <3> HIDE DEF t
      <3> QED
          BY <2>4, <2>2, <3>1, <3>2, SameRefl DEF Turned
    <2>5. ASSUME NEW d \in S, NEW w, w = [first |-> a.first, last |-> d.last, st |-> a.st],
                 d.first = a.last + 1, d.st = a.st,
                 t = [set |-> (S \ {a, d}) \cup {w}, at |-> w]
          PROVE  Turned(m, t)
      <3> DEFINE T == (S \ {a, d}) \cup {w}
      <3>1. /\ Tiling(T) /\ SameAs(S, T)
            /\ \A k : Unmerged(T, k) => Unmerged(S, k) /\ k # a.last
          BY <2>1, <2>5, SwallowKeeps
      <3>2. t.set = T /\ t.at = w /\ t = [set |-> T, at |-> w] /\ w \in T /\ w.last = d.last
          BY <2>5
      <3>3. w # NoRange
          BY <3>1, <3>2, NoRangeAssumption DEF Tiling
      <3> HIDE DEF t, T
      <3> QED
          BY <2>2, <2>5, <3>1, <3>2, <3>3 DEF Turned
    <2> QED
        BY <2>1, <2>3, <2>4, <2>5, MergeTurnIs
  <1> QED
      BY <1>1, <1>2

\* The loop as a function of the number of turns.
Turns(begin) == LET turn[n \in 0 .. 3] == IF n = 0 THEN begin ELSE MergeTurn(turn[n - 1]) IN turn

\* Each turn begins with what the one before it has left.
LEMMA TurnsAre ==
  ASSUME NEW begin
  PROVE  /\ Turns(begin)[0] = begin
         /\ Turns(begin)[1] = MergeTurn(Turns(begin)[0])
         /\ Turns(begin)[2] = MergeTurn(Turns(begin)[1])
         /\ Turns(begin)[3] = MergeTurn(Turns(begin)[2])
  <1> DEFINE one == MergeTurn(begin)
             two == MergeTurn(one)
             three == MergeTurn(two)
             g == [n \in 0 .. 3 |-> IF n = 0 THEN begin ELSE IF n = 1 THEN one
                                    ELSE IF n = 2 THEN two ELSE three]
             F(f) == [n \in 0 .. 3 |-> IF n = 0 THEN begin ELSE MergeTurn(f[n - 1])]
  <1>1. g = F(g)
    <2>1. \A n \in 0 .. 3 : g[n] = IF n = 0 THEN begin ELSE MergeTurn(g[n - 1])
      <3>1. g[0] = begin /\ g[1] = one /\ g[2] = two /\ g[3] = three
          OBVIOUS
      <3> HIDE DEF g
      <3> QED
          BY <3>1
    <2> QED
        BY <2>1
  <1>2. Turns(begin) = CHOOSE f : f = F(f)
      BY DEF Turns
  <1> HIDE DEF g, F
  <1>3. Turns(begin) = F(Turns(begin))
      BY <1>1, <1>2
  <1> DEFINE h == Turns(begin)
  <1>4. h = [n \in 0 .. 3 |-> IF n = 0 THEN begin ELSE MergeTurn(h[n - 1])]
      BY <1>3 DEF F
  <1> HIDE DEF h
  <1>5. h[0] = begin /\ h[1] = MergeTurn(h[0]) /\ h[2] = MergeTurn(h[1]) /\ h[3] = MergeTurn(h[2])
      BY <1>4
  <1> QED
      BY <1>5 DEF h

\* ModifyRange cuts and then merges, from the predecessor of the new range on.
LEMMA ModifyIs ==
  ASSUME NEW R, NEW r, NEW st
  PROVE  LET cut    == CutOf(R, r, st)
             before == {q \in cut : q.first < New(r, st).first}
             at     == IF before = {} THEN New(r, st) ELSE Highest(before)
         IN ModifyRange(R, r, st) = Turns([set |-> cut, at |-> at])[3].set
  BY DEF ModifyRange, Turns, CutOf, New

\* Where the loop begins: at the range that ends in front of n.
LEMMA BeforeIs ==
  ASSUME NEW C, Tiling(C), NEW n \in C
  PROVE  LET before == {q \in C : q.first < n.first}
         IN IF n.first = 0 THEN before = {}
            ELSE before # {} /\ Highest(before) \in C /\ Highest(before).last = n.first - 1
  <1> DEFINE before == {q \in C : q.first < n.first}
  <1>1. n.first \in Nat /\ n.last \in Nat /\ n.first <= n.last /\ n.last <= Size - 1 /\ Size \in Nat
      BY RangeType, SizesAreNat DEF Tiling
  <1>2. \A q \in C : q.first \in Nat /\ q.last \in Nat /\ q.first <= q.last
      BY RangeType DEF Tiling
  <1>3. CASE n.first = 0
      BY <1>2, <1>3
  <1>4. CASE n.first # 0
    <2> DEFINE k == n.first - 1
               p == FindRange(C, k)
    <2>1. k \in Byte /\ k \in Nat /\ k < n.first
        BY <1>1, <1>4 DEF Byte
    <2>2. p \in C /\ Covers(p, k)
        BY <2>1, FindRangeIs
    <2>3. before = {q \in C : q.first <= k}
        BY <1>1, <1>2, <1>4
    <2>4. p = Highest(before)
        BY <2>3 DEF FindRange
    <2> HIDE DEF p, before
    <2>5. p \in before /\ p # n
        BY <2>1, <2>2, <2>3, <1>1, <1>2 DEF Covers
    <2>6. ~ Intersects(p, n)
        BY <2>2, <2>5 DEF Tiling
    <2>7. p.last = k
        BY <2>1, <2>2, <2>6, <1>1, <1>2 DEF Covers, Intersects
    <2> QED
        BY <2>2, <2>4, <2>5, <2>7, <1>4 DEF before
  <1> QED
      BY <1>3, <1>4

\* Only the two ends of the new range may have to be merged.
LEMMA CutUnmerged ==
  ASSUME NEW R, Tiling(R), NEW r \in FileRange, NEW st \in Status,
         \A k : ~ Unmerged(R, k),
         NEW k, Unmerged(CutOf(R, r, st), k)
  PROVE  k = r.first - 1 \/ k = r.last
  <1> DEFINE C == CutOf(R, r, st)
             n == New(r, st)
  <1>1. PICK x, y \in C : x.last = k /\ y.first = k + 1 /\ x.st = y.st /\ x.st # "empty"
      BY DEF Unmerged
  <1>2. CASE x = n
      BY <1>1, <1>2, NewIs
  <1>3. CASE y = n
    <2>1. x \in FileRangeEx
        BY CutTiles DEF Tiling
    <2> QED
        BY <1>1, <1>3, <2>1, NewIs, RangeType
  <1>4. CASE x # n /\ y # n
    <2>1. PICK p \in R : /\ x.st = p.st /\ p.first <= x.first /\ x.last <= p.last
                         /\ x.first # p.first => x.first = r.last + 1
                         /\ x.last # p.last => x.last = r.first - 1
        BY <1>4, PiecesAre
    <2>2. PICK q \in R : /\ y.st = q.st /\ q.first <= y.first /\ y.last <= q.last
                         /\ y.first # q.first => y.first = r.last + 1
                         /\ y.last # q.last => y.last = r.first - 1
        BY <1>4, PiecesAre
    <2>3. x \in FileRangeEx /\ ~ Intersects(x, r) /\ y \in FileRangeEx /\ ~ Intersects(y, r)
        BY <1>4, PiecesAre
    <2>4. /\ x.first \in Nat /\ x.last \in Nat /\ x.first <= x.last
          /\ y.first \in Nat /\ y.last \in Nat /\ y.first <= y.last
          /\ r.first \in Nat /\ r.last \in Nat /\ r.first <= r.last
        BY <2>3, RangeType, NewIs
    <2>5. x.last = p.last
        BY <1>1, <2>1, <2>3, <2>4 DEF Intersects
    <2>6. y.first = q.first
        BY <1>1, <2>2, <2>3, <2>4 DEF Intersects
    <2> QED
        BY <1>1, <2>1, <2>2, <2>5, <2>6 DEF Unmerged
  <1> QED
      BY <1>2, <1>3, <1>4

\* ModifyRange keeps the map a map, gives the bytes of r their new status and the
\* others none, and merges all that it may have left to merge.
LEMMA ModifyRangeIs ==
  ASSUME NEW R, Tiling(R), NEW r \in FileRange, NEW st \in Status
  PROVE  /\ Tiling(ModifyRange(R, r, st)) /\ Paints(R, ModifyRange(R, r, st), r, st)
         /\ (\A k : ~ Unmerged(R, k)) => \A k : ~ Unmerged(ModifyRange(R, r, st), k)
  <1> DEFINE C == CutOf(R, r, st)
             n == New(r, st)
             before == {q \in C : q.first < n.first}
             at == IF before = {} THEN n ELSE Highest(before)
             begin == [set |-> C, at |-> at]
             t == Turns(begin)
  <1>1. ModifyRange(R, r, st) = t[3].set
      BY ModifyIs
  <1>2. /\ t[0] = begin /\ t[1] = MergeTurn(t[0])
        /\ t[2] = MergeTurn(t[1]) /\ t[3] = MergeTurn(t[2])
      BY TurnsAre
  <1>3. Tiling(C) /\ Paints(R, C, r, st)
      BY CutTiles
  <1>4. n \in C
      BY CutIs
  <1>5. n.first = r.first /\ n.last = r.last /\ n # NoRange
        /\ r.first \in Nat /\ r.last \in Nat /\ r.first <= r.last
      BY NewIs, NoRangeAssumption
  <1> HIDE DEF n, C
  <1>6. IF n.first = 0 THEN before = {}
        ELSE before # {} /\ Highest(before) \in C /\ Highest(before).last = n.first - 1
      BY <1>3, <1>4, BeforeIs
  <1>7. at \in C /\ (n.first = 0 => at = n) /\ (n.first # 0 => at.last = n.first - 1)
      BY <1>4, <1>6
  <1> HIDE DEF at, t, before
  <1>8. at # NoRange
      BY <1>3, <1>7, NoRangeAssumption DEF Tiling
  <1>9. t[0] = [set |-> C, at |-> at] /\ t[0].set = C /\ t[0].at = at
      BY <1>2
  <1>10. Turned(t[0], t[1])
      BY <1>2, <1>3, <1>7, <1>9, MergeTurnTurns
  <1>11. Turned(t[1], t[2])
      BY <1>2, <1>10, MergeTurnTurns DEF Turned
  <1>12. Turned(t[2], t[3])
      BY <1>2, <1>11, MergeTurnTurns DEF Turned
  <1>13. Tiling(t[3].set) /\ SameAs(C, t[3].set)
      BY <1>9, <1>10, <1>11, <1>12, SameTrans DEF Turned
  <1>14. Paints(R, t[3].set, r, st)
      BY <1>3, <1>13 DEF Paints, SameAs, Tiling
  <1>15. ASSUME \A k : ~ Unmerged(R, k), NEW k, Unmerged(t[3].set, k) PROVE FALSE
    <2>1. Unmerged(t[2].set, k) /\ Unmerged(t[1].set, k) /\ Unmerged(C, k)
        BY <1>9, <1>10, <1>11, <1>12, <1>15 DEF Turned
    <2>2. k = r.first - 1 \/ k = r.last
        BY <2>1, <1>15, CutUnmerged DEF C
    <2>3. k # at.last
        BY <1>8, <1>9, <1>10, <1>15, <2>1 DEF Turned
    <2>4. CASE n.first = 0
      <3>1. k = r.first - 1
          BY <2>2, <2>3, <2>4, <1>5, <1>7
      <3>2. PICK x \in C : x.last = k
          BY <2>1 DEF Unmerged
      <3> QED
          BY <3>1, <3>2, <2>4, <1>3, <1>5, RangeType DEF Tiling
    <2>5. CASE n.first # 0
      <3>1. k = r.last
          BY <2>2, <2>3, <2>5, <1>5, <1>7
      <3>2. n.first = at.last + 1
          BY <2>5, <1>5, <1>7
      <3>3. t[1].at # NoRange /\ t[1].at.last = n.last
          BY <3>2, <1>4, <1>8, <1>9, <1>10 DEF Turned
      <3> QED
          BY <3>1, <3>3, <1>5, <1>11, <2>1 DEF Turned
    <2> QED
        BY <2>4, <2>5
  <1> QED
      BY <1>1, <1>13, <1>14, <1>15
-----------------------------------------------------------------------------
(* What GetEmptyRange gives.                                                 *)

\* Max and Min of two numbers.
LEMMA MinMaxOfTwo ==
  ASSUME NEW x \in Int, NEW y \in Int
  PROVE  Max({x, y}) = (IF x >= y THEN x ELSE y) /\ Min({x, y}) = (IF x <= y THEN x ELSE y)
  BY DEF Max, Min

\* Min of three numbers is one of them and at most the first.
LEMMA MinOfThree ==
  ASSUME NEW x \in Int, NEW y \in Int, NEW z \in Int
  PROVE  Min({x, y, z}) \in {x, y, z} /\ Min({x, y, z}) <= x
  <1> DEFINE S == {x, y, z}
  <1>1. \E m \in S : \A n \in S : m <= n
      OBVIOUS
  <1>2. Min(S) = CHOOSE m \in S : \A n \in S : m <= n
      BY DEF Min
  <1>3. Min(S) \in S /\ \A n \in S : Min(S) <= n
      BY <1>1, <1>2
  <1> QED
      BY <1>3

\* The least member of a set of numbers is a member.
LEMMA MinIn ==
  ASSUME NEW S \in SUBSET Nat, S # {}
  PROVE  Min(S) \in S
  BY NatMin DEF Min

\* A set of ranges that is not empty has a first one, *ranges_.begin() in the code.
LEMMA LowestIn ==
  ASSUME NEW S, S \subseteq FileRangeEx, S # {}
  PROVE  Lowest(S) \in S
  <1> DEFINE F == {r.first : r \in S}
  <1>1. F \subseteq Nat /\ F # {}
      BY RangeType
  <1>2. PICK n \in F : \A m \in F : n <= m
      BY <1>1, NatMin
  <1>3. PICK r \in S : n = r.first
      OBVIOUS
  <1>4. \A q \in S : r.first <= q.first
      BY <1>2, <1>3
  <1> QED
      BY <1>4 DEF Lowest

\* A remainder is less than the divisor and at most the dividend.
LEMMA ModIs ==
  ASSUME NEW x \in Nat, NEW y \in Nat \ {0}
  PROVE  x % y \in Nat /\ x % y < y /\ x % y <= x
  OBVIOUS

\* A multiple below the quotient lies below the dividend.
LEMMA DivIs ==
  ASSUME NEW x \in Nat, NEW y \in Nat \ {0}, NEW k \in 0 .. (x \div y) - 1
  PROVE  y * k \in Nat /\ y * k < x
  <1>1. x \div y \in Nat /\ y * (x \div y) <= x
      OBVIOUS
  <1>2. k + 1 <= x \div y /\ k \in Nat
      BY <1>1
  <1> DEFINE d == x \div y
  <1> HIDE DEF d
  <1>3. y * (k + 1) <= y * d
      BY <1>1, <1>2 DEF d
  <1>4. y * (k + 1) = y * k + y /\ y * k \in Nat
      BY <1>2
  <1> QED
      BY <1>1, <1>3, <1>4 DEF d

\* g lies in the range r.
Inside(g, r) == g \in FileRange /\ r.first <= g.first /\ g.last <= r.last

\* The offset that GetEmptyRange begins at, for any value of rand, lies in the range.
LEMMA OffsetsAre ==
  ASSUME NEW r \in FileRangeEx, NEW vs \in {0, VerSize}, NEW offset \in Offsets(r, vs)
  PROVE  offset \in Nat /\ r.first <= offset /\ offset <= r.last
  <1>1. r.first \in Nat /\ r.last \in Nat /\ r.first <= r.last
      BY RangeType
  <1>2. CASE vs = 0 \/ r.first % vs # 0
      BY <1>1, <1>2 DEF Offsets
  <1>3. CASE ~ (vs = 0 \/ r.first % vs # 0) /\ (r.last + 1) % vs # 0
    <2>1. vs \in Nat \ {0}
        BY <1>3, SizesAreNat
    <2> DEFINE t == r.last % vs
    <2>2. t \in Nat /\ t <= r.last
        BY <1>1, <2>1, ModIs
    <2>3. offset = Max({r.first, r.last - t})
        BY <1>3 DEF Offsets
    <2> HIDE DEF t
    <2>4. offset = IF r.first >= r.last - t THEN r.first ELSE r.last - t
        BY <1>1, <2>2, <2>3, MinMaxOfTwo
    <2> QED
        BY <1>1, <2>2, <2>4
  <1>4. CASE ~ (vs = 0 \/ r.first % vs # 0) /\ ~ ((r.last + 1) % vs # 0)
    <2>1. vs \in Nat \ {0}
        BY <1>4, SizesAreNat
    <2>2. PICK k \in 0 .. (Length(r) \div vs) - 1 : offset = r.first + vs * k
        BY <1>4 DEF Offsets
    <2>3. Length(r) \in Nat /\ Length(r) = r.last - r.first + 1
        BY <1>1 DEF Length
    <2>4. vs * k \in Nat /\ vs * k < Length(r)
        BY <2>1, <2>3, DivIs
    <2> QED
        BY <1>1, <2>2, <2>3, <2>4
  <1> QED
      BY <1>2, <1>3, <1>4

\* What is cut from a wanted range at an offset in it ends in it.
LEMMA CutRangeIs ==
  ASSUME NEW r \in FileRangeEx, NEW offset \in Nat, r.first <= offset, offset <= r.last
  PROVE  Inside(Cut(offset, r.last), r)
  <1> DEFINE x == r.last - offset + 1
             t == offset % MaxLength
             n == Min({x, MaxLength, MaxLength - t})
  <1>1. r.first \in Nat /\ r.last \in Nat /\ r.last <= Size - 1 /\ Size \in Nat /\ MaxLength \in Nat \ {0}
      BY RangeType, SizesAreNat
  <1>2. t \in Nat /\ t < MaxLength
      BY <1>1, ModIs
  <1>3. x \in Int /\ 1 <= x /\ MaxLength - t \in Int /\ 1 <= MaxLength - t
      BY <1>1, <1>2
  <1>4. Cut(offset, r.last) = [first |-> offset, last |-> offset - 1 + n]
      BY DEF Cut
  <1> HIDE DEF t
  <1>5. n \in {x, MaxLength, MaxLength - t} /\ n <= x
      BY <1>1, <1>3, MinOfThree
  <1>6. n \in Int /\ 1 <= n /\ n <= r.last - offset + 1
      BY <1>1, <1>3, <1>5
  <1> HIDE DEF n
  <1> QED
      BY <1>1, <1>4, <1>6 DEF Inside, FileRange, Byte

\* Every range that GetEmptyRange gives lies in one that nobody fetches and that
\* is not known to be good.
LEMMA EmptyRangesAre ==
  ASSUME NEW R, Tiling(R), NEW vs \in {0, VerSize}, NEW available \in Seq(FileRange),
         NEW g \in EmptyRangesIn(R, vs, available)
  PROVE  \E r \in Wanted(R) : Inside(g, r)
  <1>1. Wanted(R) \subseteq FileRangeEx
      BY DEF Wanted, Tiling
  <1>2. CASE available = <<>>
    <2> DEFINE ragged == {r \in Wanted(R) : Ragged(r, vs)}
               parts  == IF ragged = {} THEN Wanted(R) ELSE {Lowest(ragged)}
    <2>1. g \in UNION {{Cut(offset, r.last) : offset \in Offsets(r, vs)} : r \in parts}
        BY <1>2 DEF EmptyRangesIn, EmptyRanges
    <2>2. PICK r \in parts : \E offset \in Offsets(r, vs) : g = Cut(offset, r.last)
        BY <2>1
    <2>3. r \in Wanted(R)
      <3>1. ragged # {} => Lowest(ragged) \in ragged
          BY <1>1, LowestIn
      <3> HIDE DEF ragged
      <3>2. ragged \subseteq Wanted(R)
          BY DEF ragged
      <3> QED
          BY <2>2, <3>1, <3>2
    <2>4. PICK offset \in Offsets(r, vs) : g = Cut(offset, r.last)
        BY <2>2
    <2> QED
        BY <1>1, <2>3, <2>4, OffsetsAre, CutRangeIs
  <1>3. CASE available # <<>>
    <2> DEFINE met(q) == {i \in DOMAIN available : Intersects(available[i], q)}
               parts == {q \in Wanted(R) : met(q) # {}}
               r == Lowest(parts)
               i0 == Min(met(r))
               av == available[i0]
               offset == Max({av.first, r.first})
               end == Min({av.last, r.last})
               n == Min({MaxLength, end - offset + 1})
    <2>1. parts # {} /\ g = [first |-> offset, last |-> offset - 1 + n]
        BY <1>3 DEF EmptyRangesIn
    <2>2. r \in parts
      <3>1. parts \subseteq FileRangeEx
          BY <1>1
      <3> QED
          BY <2>1, <3>1, LowestIn
    <2>3. r \in Wanted(R) /\ r \in FileRangeEx /\ met(r) # {}
        BY <1>1, <2>2
    <2> HIDE DEF r
    <2>4. DOMAIN available \subseteq Nat
        OBVIOUS
    <2>5. i0 \in met(r)
      <3> DEFINE I == met(r)
      <3>1. I \subseteq Nat /\ I # {}
          BY <2>3, <2>4
      <3> HIDE DEF I
      <3>2. Min(I) \in I
          BY <3>1, MinIn
      <3> QED
          BY <3>2 DEF I
    <2> HIDE DEF i0
    <2>6. av \in FileRange /\ Intersects(av, r)
        BY <2>5
    <2> HIDE DEF av
    <2>7. /\ av.first \in Nat /\ av.last \in Nat /\ av.first <= av.last
          /\ r.first \in Nat /\ r.last \in Nat /\ r.first <= r.last /\ r.last <= Size - 1
          /\ Size \in Nat /\ MaxLength \in Nat \ {0}
        BY <2>3, <2>6, RangeType, SizesAreNat DEF FileRange, Byte
    <2>8. /\ offset = IF av.first >= r.first THEN av.first ELSE r.first
          /\ end = IF av.last <= r.last THEN av.last ELSE r.last
      <3>1. av.first \in Int /\ r.first \in Int /\ av.last \in Int /\ r.last \in Int
          BY <2>7
      <3>2. offset = IF av.first >= r.first THEN av.first ELSE r.first
          BY <3>1, MinMaxOfTwo
      <3>3. end = IF av.last <= r.last THEN av.last ELSE r.last
          BY <3>1, MinMaxOfTwo
      <3> QED
          BY <3>2, <3>3
    <2> HIDE DEF offset, end
    <2>9. offset \in Nat /\ end \in Nat /\ r.first <= offset /\ offset <= end /\ end <= r.last
        BY <2>6, <2>7, <2>8 DEF Intersects
    <2>10. n = IF MaxLength <= end - offset + 1 THEN MaxLength ELSE end - offset + 1
      <3>1. MaxLength \in Int /\ end - offset + 1 \in Int
          BY <2>7, <2>9
      <3> QED
          BY <3>1, MinMaxOfTwo
    <2> HIDE DEF n
    <2>11. n \in Nat /\ 1 <= n /\ n <= end - offset + 1
        BY <2>7, <2>9, <2>10
    <2>12. g.first = offset /\ g.last = offset - 1 + n /\ g \in FileRange
        BY <2>1, <2>7, <2>9, <2>11 DEF FileRange, Byte
    <2>13. Inside(g, r)
        BY <2>7, <2>9, <2>11, <2>12 DEF Inside
    <2> QED
        BY <2>3, <2>13
  <1> QED
      BY <1>2, <1>3

\* The first whole block of a range, if its end lies in the range.
LEMMA FirstBlockIs ==
  ASSUME NEW r \in FileRangeEx, FirstBlock(r, VerSize).last <= r.last
  PROVE  Inside(FirstBlock(r, VerSize), r)
  <1>1. r.first \in Nat /\ r.last \in Nat /\ r.last <= Size - 1 /\ Size \in Nat /\ VerSize \in Nat \ {0}
      BY RangeType, SizesAreNat
  <1> DEFINE t == r.first % VerSize
             from == IF r.first - t < r.first THEN r.first - t + VerSize ELSE r.first - t
  <1>2. t \in Nat /\ t < VerSize /\ t <= r.first
      BY <1>1, ModIs
  <1>3. FirstBlock(r, VerSize) = [first |-> from, last |-> from + VerSize - 1]
      BY DEF FirstBlock
  <1> HIDE DEF t
  <1>4. from \in Nat /\ r.first <= from
      BY <1>1, <1>2
  <1> HIDE DEF from
  <1> QED
      BY <1>1, <1>3, <1>4 DEF Inside, FileRange, Byte

\* The last range of the map.
LEMMA HighestIs ==
  ASSUME NEW R, Tiling(R)
  PROVE  Highest(R) \in R /\ Covers(Highest(R), Size - 1)
  <1>1. Size - 1 \in Byte
      BY SizesAreNat DEF Byte
  <1>2. {r \in R : r.first <= Size - 1} = R
      BY RangeType, SizesAreNat DEF Tiling
  <1>3. FindRange(R, Size - 1) = Highest(R)
      BY <1>2 DEF FindRange
  <1> QED
      BY <1>1, <1>3, FindRangeIs

\* A range without its status is where it was.
LEMMA BareIs ==
  ASSUME NEW r \in FileRangeEx
  PROVE  Inside(Bare(r), r)
  BY RangeType DEF Bare, Inside, FileRange

\* What GetForValidation gives, if anything, is a part of a range that is FULL.
LEMMA GetForValidationIs ==
  ASSUME NEW R, Tiling(R), NEW vs \in {0, VerSize}, GetForValidation(R, vs) # NoRange
  PROVE  \E r \in R : r.st = "full" /\ Inside(GetForValidation(R, vs), r)
  <1> DEFINE g == GetForValidation(R, vs)
             whole == {r \in R : /\ r.st = "full" /\ Length(r) >= vs
                                 /\ FirstBlock(r, vs).last <= r.last}
  <1>1. vs # 0 /\ vs \in Nat \ {0}
      BY SizesAreNat DEF GetForValidation
  <1>2. CASE whole # {}
    <2> DEFINE r == Lowest(whole)
    <2>1. g = FirstBlock(r, vs)
        BY <1>1, <1>2 DEF GetForValidation
    <2>2. r \in whole
        BY <1>2, LowestIn DEF Tiling
    <2> HIDE DEF r
    <2>3. r \in R /\ r \in FileRangeEx /\ r.st = "full" /\ FirstBlock(r, vs).last <= r.last
        BY <2>2 DEF Tiling
    <2>4. vs = VerSize
        BY <1>1
    <2> QED
        BY <2>1, <2>3, <2>4, FirstBlockIs
  <1>3. CASE whole = {}
    <2> DEFINE tail == Highest(R)
    <2>1. g = ShortTail(R, vs)
        BY <1>1, <1>3 DEF GetForValidation
    <2>2. tail.st = "full" /\ g = Bare(tail)
        BY <2>1 DEF ShortTail
    <2>3. tail \in R /\ tail \in FileRangeEx
        BY HighestIs DEF Tiling
    <2> QED
        BY <2>2, <2>3, BareIs
  <1> QED
      BY <1>2, <1>3
-----------------------------------------------------------------------------
(* The inductive invariant.                                                  *)

\* The bytes of the leases are ACTIVE, the leases are disjoint, and no other byte
\* is ACTIVE.
LeaseInv ==
  /\ \A l \in leases, k \in Byte : Covers(l, k) => bytesBar[k] = "active"
  /\ \A l, m \in leases : Intersects(l, m) => l = m
  /\ \A k \in Byte : bytesBar[k] = "active" => \E l \in leases : Covers(l, k)

\* Nobody touches the range that is being hashed.
CheckInv == checking # NoRange => \A k \in Byte : Covers(checking, k) => bytesBar[k] = "full"

MapInv == Tiling(ranges) /\ (\A k : ~ Unmerged(ranges, k)) /\ CacheFresh

IInv == TypeOK /\ MapInv /\ LeaseInv /\ CheckInv

\* The abstract status of a byte is that of the range that covers it.
LEMMA BytesAre ==
  ASSUME Tiling(ranges)
  PROVE  /\ bytesBar \in [Byte -> Status]
         /\ \A r \in ranges, k \in Byte : Covers(r, k) => bytesBar[k] = r.st
         /\ \A k \in Byte : \E r \in ranges : Covers(r, k) /\ bytesBar[k] = r.st
  <1>1. \A k \in Byte : FindRange(ranges, k) \in ranges /\ Covers(FindRange(ranges, k), k)
      BY FindRangeIs
  <1>2. \A k \in Byte, r \in ranges : Covers(r, k) => r = FindRange(ranges, k)
      BY FindRangeIs
  <1>3. \A r \in ranges : r.st \in Status
      BY RangeType DEF Tiling
  <1> QED
      BY <1>1, <1>2, <1>3 DEF bytesBar

\* A range covers its ends.
LEMMA CoverType ==
  ASSUME NEW r \in FileRange
  PROVE  r.first \in Byte /\ r.last \in Byte /\ Covers(r, r.first) /\ r.first <= r.last
         /\ r.first \in Nat /\ r.last \in Nat /\ r.last <= Size - 1
  BY SizesAreNat DEF FileRange, Byte, Covers

\* A call of SetActive, SetFull, SetEmpty, SetValid or SetInvalid.
LEMMA SetIs ==
  ASSUME Tiling(ranges), \A k : ~ Unmerged(ranges, k),
         NEW r \in FileRange, NEW st \in Status, Set(r, st)
  PROVE  /\ MapInv' /\ ranges' \in SUBSET FileRangeEx /\ status_' \in SUBSET Status
         /\ \A k \in Byte : bytesBar'[k] = IF Covers(r, k) THEN st ELSE bytesBar[k]
  <1>1. ranges' = ModifyRange(ranges, r, st) /\ status_' = {}
      BY DEF Set
  <1>2. Tiling(ranges') /\ Paints(ranges, ranges', r, st) /\ \A k : ~ Unmerged(ranges', k)
      BY <1>1, ModifyRangeIs
  <1>3. ASSUME NEW k \in Byte PROVE bytesBar'[k] = IF Covers(r, k) THEN st ELSE bytesBar[k]
    <2>1. FindRange(ranges, k) \in ranges /\ Covers(FindRange(ranges, k), k)
        BY FindRangeIs
    <2>2. FindRange(ranges', k) \in ranges' /\ Covers(FindRange(ranges', k), k)
        BY <1>2, FindRangeIs
    <2>3. FindRange(ranges', k).st = IF Covers(r, k) THEN st ELSE FindRange(ranges, k).st
        BY <1>2, <2>1, <2>2 DEF Paints
    <2> QED
        BY <2>3 DEF bytesBar
  <1>4. MapInv'
      BY <1>1, <1>2 DEF MapInv, CacheFresh
  <1> QED
      BY <1>1, <1>2, <1>3, <1>4 DEF Tiling

\* The map of a new download satisfies the invariant.
LEMMA InitIInv ==
  ASSUME Init PROVE IInv
  <1> DEFINE r == [first |-> 0, last |-> Size - 1, st |-> "empty"]
  <1>1. /\ ranges = {r} /\ status_ = {} /\ versize_ = 0 /\ leases = {} /\ checking = NoRange
        /\ r.first = 0 /\ r.last = Size - 1 /\ r.st = "empty"
      BY DEF Init
  <1>2. r \in FileRangeEx
      BY SizesAreNat DEF FileRangeEx, Byte, Status
  <1> HIDE DEF r
  <1>3. Tiling(ranges)
      BY <1>1, <1>2, SizesAreNat DEF Tiling, Covers, Byte
  <1>4. \A k \in Byte : bytesBar[k] = "empty"
      BY <1>1, <1>3, BytesAre
  <1>5. \A k : ~ Unmerged(ranges, k)
      BY <1>1 DEF Unmerged
  <1>6. TypeOK
      BY <1>1, <1>2 DEF TypeOK, Status
  <1>7. LeaseInv /\ CheckInv /\ CacheFresh
      BY <1>1, <1>4 DEF LeaseInv, CheckInv, CacheFresh
  <1> QED
      BY <1>3, <1>5, <1>6, <1>7 DEF IInv, MapInv

\* What FetchFile is given is wanted, byte by byte.
LEMMA FetchedIs ==
  ASSUME IInv, NEW available \in Available,
         NEW g \in EmptyRangesIn(ranges, versize_, available)
  PROVE  g \in FileRange /\ \A k \in Byte : Covers(g, k) => bytesBar[k] \in {"empty", "invalid"}
  <1>1. versize_ \in {0, VerSize} /\ Tiling(ranges)
      BY DEF IInv, TypeOK, MapInv
  <1>2. available \in Seq(FileRange)
      BY AvailableAssumption
  <1>3. PICK r \in Wanted(ranges) : Inside(g, r)
      BY <1>1, <1>2, EmptyRangesAre
  <1>4. r \in ranges /\ r.st \in {"empty", "invalid"} /\ r \in FileRangeEx
      BY <1>1 DEF Wanted, Tiling
  <1>5. ASSUME NEW k \in Byte, Covers(g, k) PROVE Covers(r, k)
      BY <1>3, <1>4, <1>5, CoverType, RangeType, SizesAreNat DEF Inside, Covers, Byte
  <1> QED
      BY <1>1, <1>3, <1>4, <1>5, BytesAre DEF Inside

\* Taking a lease keeps the invariant: the leased bytes were nobody's.
LEMMA FetchFileStep ==
  ASSUME IInv, NEW available \in Available, FetchFile(available) PROVE IInv'
  <1>1. PICK g \in EmptyRangesIn(ranges, versize_, available) :
             Set(g, "active") /\ leases' = leases \cup {g} /\ UNCHANGED <<versize_, checking>>
      BY DEF FetchFile
  <1>2. g \in FileRange /\ \A k \in Byte : Covers(g, k) => bytesBar[k] \in {"empty", "invalid"}
      BY FetchedIs
  <1>3. /\ MapInv' /\ ranges' \in SUBSET FileRangeEx /\ status_' \in SUBSET Status
        /\ \A k \in Byte : bytesBar'[k] = IF Covers(g, k) THEN "active" ELSE bytesBar[k]
      BY <1>1, <1>2, SetIs DEF IInv, MapInv, Status
  <1>4. TypeOK'
      BY <1>1, <1>2, <1>3 DEF IInv, TypeOK
  <1>5. LeaseInv'
    <2>1. \A l \in leases', k \in Byte : Covers(l, k) => bytesBar'[k] = "active"
        BY <1>1, <1>3 DEF IInv, LeaseInv
    <2>2. ASSUME NEW l \in leases PROVE ~ Intersects(l, g) /\ ~ Intersects(g, l)
      <3>1. l \in FileRange
          BY DEF IInv, TypeOK
      <3>2. \A k \in Byte : ~ (Covers(l, k) /\ Covers(g, k))
          BY <1>2 DEF IInv, LeaseInv
      <3> QED
          BY <3>1, <3>2, <1>2, CoverType DEF Covers, Intersects
    <2>3. \A l, m \in leases' : Intersects(l, m) => l = m
        BY <1>1, <2>2 DEF IInv, LeaseInv
    <2>4. \A k \in Byte : bytesBar'[k] = "active" => \E l \in leases' : Covers(l, k)
        BY <1>1, <1>3 DEF IInv, LeaseInv
    <2> QED
        BY <2>1, <2>3, <2>4 DEF LeaseInv
  <1>6. CheckInv'
      BY <1>1, <1>2, <1>3 DEF IInv, CheckInv
  <1> QED
      BY <1>3, <1>4, <1>5, <1>6 DEF IInv

\* A lease that ends, with its data or without.
LEMMA LeaseEnds ==
  ASSUME IInv, NEW r \in leases, NEW st \in {"full", "empty"},
         Set(r, st), leases' = leases \ {r}, UNCHANGED <<versize_, checking>>
  PROVE  IInv'
  <1>1. r \in FileRange /\ Tiling(ranges)
      BY DEF IInv, TypeOK, MapInv
  <1>2. /\ MapInv' /\ ranges' \in SUBSET FileRangeEx /\ status_' \in SUBSET Status
        /\ \A k \in Byte : bytesBar'[k] = IF Covers(r, k) THEN st ELSE bytesBar[k]
      BY <1>1, SetIs DEF IInv, MapInv, Status
  <1>3. TypeOK'
      BY <1>2 DEF IInv, TypeOK
  <1>4. LeaseInv'
    <2>1. ASSUME NEW l \in leases', NEW k \in Byte, Covers(l, k) PROVE bytesBar'[k] = "active"
      <3>1. l \in leases /\ l # r /\ l \in FileRange
          BY DEF IInv, TypeOK
      <3>2. ~ Intersects(l, r)
          BY <3>1 DEF IInv, LeaseInv
      <3>3. ~ Covers(r, k)
          BY <2>1, <3>1, <3>2, <1>1, CoverType, SizesAreNat DEF Covers, Intersects, Byte
      <3> QED
          BY <2>1, <3>1, <3>3, <1>2 DEF IInv, LeaseInv
    <2>2. \A l, m \in leases' : Intersects(l, m) => l = m
        BY DEF IInv, LeaseInv
    <2>3. \A k \in Byte : bytesBar'[k] = "active" => \E l \in leases' : Covers(l, k)
        BY <1>2 DEF IInv, LeaseInv
    <2> QED
        BY <2>1, <2>2, <2>3 DEF LeaseInv
  <1>5. CheckInv'
    <2>1. \A k \in Byte : Covers(r, k) => bytesBar[k] = "active"
        BY DEF IInv, LeaseInv
    <2> QED
        BY <1>2, <2>1 DEF IInv, CheckInv
  <1> QED
      BY <1>2, <1>3, <1>4, <1>5 DEF IInv

\* What is hashed has arrived.
LEMMA ToHashIs ==
  ASSUME IInv, ToHash # NoRange
  PROVE  ToHash \in FileRange /\ \A k \in Byte : Covers(ToHash, k) => bytesBar[k] = "full"
  <1>1. Tiling(ranges) /\ versize_ \in {0, VerSize}
      BY DEF IInv, TypeOK, MapInv
  <1>2. StatusMask = {q.st : q \in ranges}
      BY DEF StatusMask, IInv, MapInv, CacheFresh
  <1>3. CASE StatusMask = {"full"}
    <2>1. ToHash = Whole
        BY <1>3 DEF ToHash
    <2>2. Whole \in FileRange
        BY SizesAreNat DEF Whole, FileRange, Byte
    <2>3. \A q \in ranges : q.st = "full"
        BY <1>2, <1>3
    <2> QED
        BY <2>1, <2>2, <2>3, <1>1, BytesAre
  <1>4. CASE StatusMask # {"full"}
    <2> DEFINE g == GetForValidation(ranges, versize_)
    <2>1. ToHash = g
        BY <1>4 DEF ToHash
    <2>2. PICK r \in ranges : r.st = "full" /\ Inside(g, r)
        BY <2>1, <1>1, GetForValidationIs
    <2> HIDE DEF g
    <2>3. r \in FileRangeEx /\ g \in FileRange
        BY <2>2, <1>1 DEF Tiling, Inside
    <2>4. ASSUME NEW k \in Byte, Covers(g, k) PROVE Covers(r, k)
        BY <2>2, <2>3, <2>4, CoverType, RangeType, SizesAreNat DEF Inside, Covers, Byte
    <2> QED
        BY <2>1, <2>2, <2>3, <2>4, <1>1, BytesAre
  <1> QED
      BY <1>3, <1>4

\* Starting a hash task keeps the invariant: its bytes have arrived.
LEMMA FileUpdatedStep ==
  ASSUME IInv, FileUpdated PROVE IInv'
  <1>1. /\ ToHash # NoRange /\ status_' = StatusMask /\ checking' = ToHash
        /\ ranges' = ranges /\ versize_' = versize_ /\ leases' = leases
      BY DEF FileUpdated
  <1>2. ToHash \in FileRange /\ \A k \in Byte : Covers(ToHash, k) => bytesBar[k] = "full"
      BY <1>1, ToHashIs
  <1>3. StatusMask = {q.st : q \in ranges}
      BY DEF StatusMask, IInv, MapInv, CacheFresh
  <1>4. StatusMask \in SUBSET Status
      BY <1>3, RangeType DEF IInv, TypeOK
  <1>5. bytesBar' = bytesBar
      BY <1>1 DEF bytesBar
  <1>6. TypeOK'
      BY <1>1, <1>2, <1>4 DEF IInv, TypeOK
  <1>7. MapInv'
      BY <1>1, <1>3 DEF IInv, MapInv, CacheFresh
  <1>8. LeaseInv' /\ CheckInv'
      BY <1>1, <1>2, <1>5 DEF IInv, LeaseInv, CheckInv
  <1> QED
      BY <1>6, <1>7, <1>8 DEF IInv

\* A verdict keeps the invariant: it paints bytes that nobody fetches.
LEMMA HashedStep ==
  ASSUME IInv, NEW verdict \in {"valid", "invalid"}, Hashed(verdict) PROVE IInv'
  <1>1. /\ checking # NoRange /\ Set(checking, verdict) /\ checking' = NoRange
        /\ versize_' = versize_ /\ leases' = leases
      BY DEF Hashed
  <1>2. checking \in FileRange /\ Tiling(ranges)
      BY <1>1 DEF IInv, TypeOK, MapInv
  <1>3. /\ MapInv' /\ ranges' \in SUBSET FileRangeEx /\ status_' \in SUBSET Status
        /\ \A k \in Byte : bytesBar'[k] = IF Covers(checking, k) THEN verdict ELSE bytesBar[k]
      BY <1>1, <1>2, SetIs DEF IInv, MapInv, Status
  <1>4. \A k \in Byte : Covers(checking, k) => bytesBar[k] = "full"
      BY <1>1 DEF IInv, CheckInv
  <1>5. TypeOK'
      BY <1>1, <1>3 DEF IInv, TypeOK
  <1>6. LeaseInv'
      BY <1>1, <1>3, <1>4 DEF IInv, LeaseInv
  <1>7. CheckInv'
      BY <1>1 DEF CheckInv
  <1> QED
      BY <1>3, <1>5, <1>6, <1>7 DEF IInv

\* ToStream writes an ACTIVE range as EMPTY and keeps its place.
LEMMA SavedIs ==
  ASSUME NEW r \in FileRangeEx
  PROVE  /\ Saved(r) \in FileRangeEx /\ Saved(r).first = r.first /\ Saved(r).last = r.last
         /\ Saved(r).st = IF r.st = "active" THEN "empty" ELSE r.st
  <1>1. r = [first |-> r.first, last |-> r.last, st |-> r.st]
      BY RangeType
  <1>2. CASE r.st = "active"
    <2>1. Saved(r) = [first |-> r.first, last |-> r.last, st |-> "empty"]
        BY <1>1, <1>2 DEF Saved
    <2> QED
        BY <2>1, <1>2, RangeType DEF FileRangeEx, Status
  <1>3. CASE r.st # "active"
      BY <1>3 DEF Saved
  <1> QED
      BY <1>2, <1>3

\* Saving and loading keeps the map and turns the ACTIVE bytes into EMPTY ones.
LEMMA RestartIs ==
  ASSUME IInv, Restart
  PROVE  /\ MapInv' /\ ranges' \in SUBSET FileRangeEx
         /\ \A k \in Byte : bytesBar'[k] = IF bytesBar[k] = "active" THEN "empty" ELSE bytesBar[k]
  <1>1. ranges' = {Saved(r) : r \in ranges} /\ status_' = {}
      BY DEF Restart
  <1>2. Tiling(ranges) /\ ranges \subseteq FileRangeEx
      BY DEF IInv, MapInv, Tiling
  <1>3. ranges' \subseteq FileRangeEx
      BY <1>1, <1>2, SavedIs
  <1>4. ASSUME NEW k \in Byte PROVE \E q \in ranges' : Covers(q, k)
    <2>1. PICK r \in ranges : Covers(r, k)
        BY <1>2 DEF Tiling
    <2> QED
        BY <2>1, <1>1, <1>2, SavedIs DEF Covers
  <1>5. ASSUME NEW x \in ranges', NEW y \in ranges', Intersects(x, y) PROVE x = y
    <2>1. PICK r \in ranges : x = Saved(r)
        BY <1>1
    <2>2. PICK q \in ranges : y = Saved(q)
        BY <1>1
    <2>3. Intersects(r, q)
        BY <1>2, <1>5, <2>1, <2>2, SavedIs DEF Intersects
    <2> QED
        BY <1>2, <2>1, <2>2, <2>3 DEF Tiling
  <1>6. Tiling(ranges')
      BY <1>3, <1>4, <1>5 DEF Tiling
  <1>7. ASSUME NEW k, Unmerged(ranges', k) PROVE FALSE
    <2>1. PICK x, y \in ranges' : x.last = k /\ y.first = k + 1 /\ x.st = y.st /\ x.st # "empty"
        BY <1>7 DEF Unmerged
    <2>2. PICK r, q \in ranges : x = Saved(r) /\ y = Saved(q)
        BY <1>1
    <2>3. r.last = k /\ q.first = k + 1 /\ r.st = q.st /\ r.st # "empty"
        BY <1>2, <2>1, <2>2, SavedIs
    <2> QED
        BY <2>3 DEF IInv, MapInv, Unmerged
  <1>8. ASSUME NEW k \in Byte
        PROVE bytesBar'[k] = IF bytesBar[k] = "active" THEN "empty" ELSE bytesBar[k]
    <2>1. PICK r \in ranges : Covers(r, k) /\ bytesBar[k] = r.st
        BY <1>2, BytesAre
    <2>2. Saved(r) \in ranges' /\ Covers(Saved(r), k)
        BY <2>1, <1>1, <1>2, SavedIs DEF Covers
    <2>3. FindRange(ranges', k) = Saved(r)
        BY <2>2, <1>6, FindRangeIs
    <2>4. bytesBar'[k] = Saved(r).st
        BY <2>3 DEF bytesBar
    <2> QED
        BY <2>1, <2>4, <1>2, SavedIs
  <1> QED
      BY <1>1, <1>3, <1>6, <1>7, <1>8 DEF MapInv, CacheFresh

\* A restart keeps the invariant: nothing is leased and nothing is ACTIVE.
LEMMA RestartStep ==
  ASSUME IInv, Restart PROVE IInv'
  <1>1. /\ status_' = {} /\ versize_' \in {0, versize_} /\ leases' = {} /\ checking' = NoRange
      BY DEF Restart
  <1>2. /\ MapInv' /\ ranges' \in SUBSET FileRangeEx
        /\ \A k \in Byte : bytesBar'[k] = IF bytesBar[k] = "active" THEN "empty" ELSE bytesBar[k]
      BY RestartIs
  <1>3. TypeOK'
      BY <1>1, <1>2 DEF IInv, TypeOK
  <1>4. LeaseInv'
    <2>1. \A k \in Byte : bytesBar'[k] # "active"
        BY <1>2
    <2> QED
        BY <1>1, <2>1 DEF LeaseInv
  <1> QED
      BY <1>1, <1>2, <1>3, <1>4 DEF IInv, CheckInv

\* The other steps leave the map alone.
LEMMA OtherSteps ==
  ASSUME IInv, OnTiger \/ CancelTasks \/ AskStatus \/ UNCHANGED vars PROVE IInv'
  <1>1. /\ ranges' = ranges /\ leases' = leases /\ checking' \in {checking, NoRange}
        /\ status_' \in {status_, StatusMask} /\ versize_' \in {versize_, VerSize}
      BY DEF OnTiger, CancelTasks, AskStatus, vars
  <1>2. StatusMask = {q.st : q \in ranges} /\ StatusMask \in SUBSET Status
      BY RangeType DEF StatusMask, IInv, MapInv, CacheFresh, TypeOK
  <1>3. bytesBar' = bytesBar
      BY <1>1 DEF bytesBar
  <1>4. TypeOK'
      BY <1>1, <1>2 DEF IInv, TypeOK
  <1>5. MapInv'
      BY <1>1, <1>2 DEF IInv, MapInv, CacheFresh
  <1>6. LeaseInv' /\ CheckInv'
      BY <1>1, <1>3 DEF IInv, LeaseInv, CheckInv
  <1> QED
      BY <1>4, <1>5, <1>6 DEF IInv

\* Every call keeps the invariant.
THEOREM Invariance == Spec => []IInv
  <1>1. Init => IInv
      BY InitIInv
  <1>2. IInv /\ [Next]_vars => IInv'
    <2> SUFFICES ASSUME IInv, [Next]_vars PROVE IInv'
        OBVIOUS
    <2>1. ASSUME NEW available \in Available, FetchFile(available) PROVE IInv'
        BY <2>1, FetchFileStep
    <2>2. ASSUME NEW r \in leases, TaskComplete(r) PROVE IInv'
        BY <2>2, LeaseEnds DEF TaskComplete
    <2>3. ASSUME NEW r \in leases, CancelTask(r) PROVE IInv'
        BY <2>3, LeaseEnds DEF CancelTask
    <2>4. ASSUME NEW verdict \in {"valid", "invalid"}, Hashed(verdict) PROVE IInv'
        BY <2>4, HashedStep
    <2> QED
        BY <2>1, <2>2, <2>3, <2>4, FileUpdatedStep, RestartStep, OtherSteps DEF Next
  <1> QED
      BY <1>1, <1>2, PTL DEF Spec

\* After any sequence of calls of ModifyRange the ranges cover the file without
\* overlap, neighbours of one status have become one range, and the cached mask is
\* the one that would be computed.
THEOREM MapIsWellFormed == Spec => []WellFormed
  <1>1. IInv => WellFormed
    <2> SUFFICES ASSUME IInv PROVE WellFormed
        OBVIOUS
    <2>1. Tiling(ranges)
        BY DEF IInv, MapInv
    <2>2. ASSUME NEW k \in Byte
          PROVE Cardinality({r \in ranges : r.first <= k /\ k <= r.last}) = 1
      <3> DEFINE f == FindRange(ranges, k)
      <3>1. f \in ranges /\ Covers(f, k) /\ \A q \in ranges : Covers(q, k) => q = f
          BY <2>1, FindRangeIs
      <3> HIDE DEF f
      <3>2. {r \in ranges : r.first <= k /\ k <= r.last} = {f}
          BY <3>1 DEF Covers
      <3> QED
          BY <3>2, FS_Singleton
    <2>3. Merged
        BY DEF Merged, IInv, MapInv, Unmerged
    <2> QED
        BY <2>2, <2>3 DEF WellFormed, Tiled, IInv, MapInv
  <1> QED
      BY <1>1, Invariance, PTL

\* The ACTIVE bytes are those of the leases, each of exactly one lease.
THEOREM MapIsLeased == Spec => []Leased
  <1>1. IInv => Leased
    <2> SUFFICES ASSUME IInv, NEW k \in Byte
                 PROVE LET holders == {l \in leases : l.first <= k /\ k <= l.last}
                       IN IF FindRange(ranges, k).st = "active"
                          THEN Cardinality(holders) = 1 ELSE holders = {}
        BY DEF Leased
    <2> DEFINE holders == {l \in leases : l.first <= k /\ k <= l.last}
    <2>1. bytesBar[k] = FindRange(ranges, k).st
        BY DEF bytesBar
    <2>2. CASE bytesBar[k] = "active"
      <3>1. PICK l \in leases : Covers(l, k)
          BY <2>2 DEF IInv, LeaseInv
      <3>2. ASSUME NEW m \in leases, Covers(m, k) PROVE m = l
        <4>1. m \in FileRange /\ l \in FileRange
            BY DEF IInv, TypeOK
        <4>2. Intersects(m, l)
            BY <3>1, <3>2, <4>1, CoverType, SizesAreNat DEF Covers, Intersects, Byte
        <4> QED
            BY <4>2 DEF IInv, LeaseInv
      <3>3. holders = {l}
          BY <3>1, <3>2 DEF Covers
      <3> QED
          BY <2>1, <2>2, <3>3, FS_Singleton
    <2>3. CASE bytesBar[k] # "active"
        BY <2>1, <2>3 DEF IInv, LeaseInv, Covers
    <2> QED
        BY <2>2, <2>3
  <1> QED
      BY <1>1, Invariance, PTL
-----------------------------------------------------------------------------
(* FileMap implements ByteMap.                                               *)

Interval(r) == r.first .. r.last

\* The bytes of a range determine it.
LEMMA IntervalIs ==
  ASSUME NEW r \in FileRange
  PROVE  /\ Interval(r) # {} /\ Interval(r) \in SUBSET Byte
         /\ \A k \in Byte : k \in Interval(r) <=> Covers(r, k)
         /\ \A q \in FileRange : Interval(q) = Interval(r) => q = r
  <1>1. r.first \in Nat /\ r.last \in Nat /\ r.first <= r.last /\ r.last <= Size - 1 /\ Size \in Nat
      BY CoverType, SizesAreNat
  <1>2. \A k \in Byte : k \in Interval(r) <=> Covers(r, k)
      BY <1>1 DEF Interval, Covers, Byte
  <1>3. ASSUME NEW q \in FileRange, Interval(q) = Interval(r) PROVE q = r
    <2>1. q.first \in Nat /\ q.last \in Nat /\ q.first <= q.last
        BY CoverType
    <2>2. /\ q.first \in r.first .. r.last /\ q.last \in r.first .. r.last
          /\ r.first \in q.first .. q.last /\ r.last \in q.first .. q.last
        BY <1>1, <1>3, <2>1 DEF Interval
    <2>3. q.first = r.first /\ q.last = r.last
        BY <2>1, <2>2, <1>1
    <2> QED
        BY <2>3 DEF FileRange
  <1> QED
      BY <1>1, <1>2, <1>3 DEF Interval, Byte

\* A call of Set paints the bytes of the range.
LEMMA SetPaints ==
  ASSUME IInv, NEW r \in FileRange, NEW st \in Status, Set(r, st)
  PROVE  Bytes!Paint(Interval(r), st)
  <1>1. \A k \in Byte : bytesBar'[k] = IF Covers(r, k) THEN st ELSE bytesBar[k]
      BY SetIs DEF IInv, MapInv
  <1>2. bytesBar' = [k \in Byte |-> bytesBar'[k]]
      BY DEF bytesBar
  <1>3. \A k \in Byte : k \in Interval(r) <=> Covers(r, k)
      BY IntervalIs
  <1>4. bytesBar' = [k \in Byte |-> IF k \in Interval(r) THEN st ELSE bytesBar[k]]
      BY <1>1, <1>2, <1>3
  <1> QED
      BY <1>4 DEF Bytes!Paint, Bytes!Byte, Byte

\* The initial map is the initial abstract map.
LEMMA RefinesInit ==
  ASSUME Init PROVE Bytes!Init
  <1>1. IInv
      BY InitIInv
  <1>2. ranges = {[first |-> 0, last |-> Size - 1, st |-> "empty"]} /\ leases = {} /\ checking = NoRange
      BY DEF Init
  <1>3. \A k \in Byte : bytesBar[k] = "empty"
      BY <1>1, <1>2, BytesAre DEF IInv, MapInv
  <1>4. bytesBar = [k \in Byte |-> bytesBar[k]]
      BY DEF bytesBar
  <1>5. bytesBar = [k \in Byte |-> "empty"]
      BY <1>3, <1>4
  <1>6. leasesBar = {} /\ checkingBar = {}
      BY <1>2 DEF leasesBar, checkingBar
  <1> QED
      BY <1>5, <1>6 DEF Bytes!Init, Bytes!Byte, Byte

\* FetchFile is a lease of the abstract map.
LEMMA RefinesFetch ==
  ASSUME IInv, NEW available \in Available, FetchFile(available) PROVE Bytes!Next
  <1>1. PICK g \in EmptyRangesIn(ranges, versize_, available) :
             Set(g, "active") /\ leases' = leases \cup {g} /\ UNCHANGED <<versize_, checking>>
      BY DEF FetchFile
  <1>2. g \in FileRange /\ \A k \in Byte : Covers(g, k) => bytesBar[k] \in {"empty", "invalid"}
      BY FetchedIs
  <1>3. Bytes!Paint(Interval(g), "active")
      BY <1>1, <1>2, SetPaints DEF Status
  <1>4. leasesBar' = leasesBar \cup {Interval(g)} /\ checkingBar' = checkingBar
      BY <1>1 DEF leasesBar, checkingBar, Interval
  <1>5. Bytes!Wanted(Interval(g)) /\ Interval(g) # {}
      BY <1>2, IntervalIs DEF Bytes!Wanted
  <1>6. Bytes!Lease(Interval(g))
      BY <1>3, <1>4, <1>5 DEF Bytes!Lease
  <1>7. g.first \in Byte /\ g.last \in Byte
      BY <1>2, CoverType
  <1> QED
      BY <1>6, <1>7 DEF Bytes!Next, Bytes!Byte, Byte, Interval

\* TaskComplete fills a lease of the abstract map, CancelTask releases it.
LEMMA RefinesEnd ==
  ASSUME IInv, NEW r \in leases, TaskComplete(r) \/ CancelTask(r) PROVE Bytes!Next
  <1>1. r \in FileRange /\ leases \subseteq FileRange
      BY DEF IInv, TypeOK
  <1>2. leases' = leases \ {r} /\ checking' = checking
      BY DEF TaskComplete, CancelTask
  <1>3. Interval(r) \in leasesBar
      BY DEF leasesBar, Interval
  <1>4. leasesBar' = leasesBar \ {Interval(r)}
    <2>1. leasesBar = {Interval(l) : l \in leases} /\ leasesBar' = {Interval(l) : l \in leases'}
        BY DEF leasesBar, Interval
    <2> QED
        BY <1>1, <1>2, <2>1, IntervalIs
  <1>5. checkingBar' = checkingBar
      BY <1>2 DEF checkingBar
  <1>6. Bytes!All(Interval(r), "active")
      BY <1>1, IntervalIs DEF Bytes!All, IInv, LeaseInv
  <1>7. CASE TaskComplete(r)
    <2>1. Bytes!Paint(Interval(r), "full")
        BY <1>1, <1>7, SetPaints DEF TaskComplete, Status
    <2> QED
        BY <2>1, <1>3, <1>4, <1>5, <1>6 DEF Bytes!Fill, Bytes!Next
  <1>8. CASE CancelTask(r)
    <2>1. Bytes!Paint(Interval(r), "empty")
        BY <1>1, <1>8, SetPaints DEF CancelTask, Status
    <2> QED
        BY <2>1, <1>3, <1>4, <1>5, <1>6 DEF Bytes!Release, Bytes!Next
  <1> QED
      BY <1>7, <1>8

\* FileUpdated checks bytes of the abstract map.
LEMMA RefinesCheck ==
  ASSUME IInv, FileUpdated PROVE Bytes!Next
  <1>1. /\ checking = NoRange /\ checking' = ToHash /\ ToHash # NoRange
        /\ ranges' = ranges /\ leases' = leases
      BY DEF FileUpdated
  <1>2. ToHash \in FileRange /\ \A k \in Byte : Covers(ToHash, k) => bytesBar[k] = "full"
      BY <1>1, ToHashIs
  <1>3. checkingBar = {} /\ checkingBar' = Interval(ToHash)
      BY <1>1 DEF checkingBar, Interval
  <1>4. bytesBar' = bytesBar /\ leasesBar' = leasesBar
      BY <1>1 DEF bytesBar, leasesBar
  <1>5. Bytes!All(Interval(ToHash), "full") /\ Interval(ToHash) # {}
      BY <1>2, IntervalIs DEF Bytes!All
  <1>6. Bytes!Check(Interval(ToHash))
      BY <1>3, <1>4, <1>5 DEF Bytes!Check
  <1>7. ToHash.first \in Byte /\ ToHash.last \in Byte
      BY <1>2, CoverType
  <1> QED
      BY <1>6, <1>7 DEF Bytes!Next, Bytes!Byte, Byte, Interval

\* Hashed is the verdict of the abstract map.
LEMMA RefinesJudge ==
  ASSUME IInv, NEW verdict \in {"valid", "invalid"}, Hashed(verdict) PROVE Bytes!Next
  <1>1. checking # NoRange /\ Set(checking, verdict) /\ checking' = NoRange /\ leases' = leases
      BY DEF Hashed
  <1>2. checking \in FileRange
      BY <1>1 DEF IInv, TypeOK
  <1>3. checkingBar = Interval(checking) /\ checkingBar' = {} /\ leasesBar' = leasesBar
      BY <1>1 DEF checkingBar, leasesBar, Interval
  <1>4. Bytes!Paint(checkingBar, verdict)
      BY <1>1, <1>2, <1>3, SetPaints DEF Status
  <1>5. Bytes!All(checkingBar, "full") /\ checkingBar # {}
      BY <1>1, <1>2, <1>3, IntervalIs DEF Bytes!All, IInv, CheckInv
  <1> QED
      BY <1>3, <1>4, <1>5 DEF Bytes!Judge, Bytes!Next

\* A restart is a restart of the abstract map.
LEMMA RefinesRestart ==
  ASSUME IInv, Restart PROVE Bytes!Next
  <1>1. \A k \in Byte : bytesBar'[k] = IF bytesBar[k] = "active" THEN "empty" ELSE bytesBar[k]
      BY RestartIs
  <1>2. bytesBar' = [k \in Byte |-> bytesBar'[k]]
      BY DEF bytesBar
  <1>3. bytesBar' = [k \in Byte |-> IF bytesBar[k] = "active" THEN "empty" ELSE bytesBar[k]]
      BY <1>1, <1>2
  <1>4. leasesBar' = {} /\ checkingBar' = {}
      BY DEF Restart, leasesBar, checkingBar
  <1> QED
      BY <1>3, <1>4 DEF Bytes!Restart, Bytes!Next, Bytes!Byte, Byte

\* Splitting and merging are invisible: every behaviour of the map of ranges is,
\* seen byte by byte, one of the abstract map.
THEOREM RangesImplementBytes == Spec => BytesSpec
  <1>1. Init => Bytes!Init
      BY RefinesInit
  <1>2. IInv /\ [Next]_vars => [Bytes!Next]_(Bytes!vars)
    <2> SUFFICES ASSUME IInv, [Next]_vars PROVE Bytes!Next \/ UNCHANGED Bytes!vars
        OBVIOUS
    <2>1. CASE \E available \in Available : FetchFile(available)
        BY <2>1, RefinesFetch
    <2>2. CASE \E r \in leases : TaskComplete(r) \/ CancelTask(r)
        BY <2>2, RefinesEnd
    <2>3. CASE FileUpdated
        BY <2>3, RefinesCheck
    <2>4. CASE \E verdict \in {"valid", "invalid"} : Hashed(verdict)
        BY <2>4, RefinesJudge
    <2>5. CASE CancelTasks
      <3>1. /\ bytesBar' = bytesBar /\ leasesBar' = leasesBar /\ checkingBar' = {}
          BY <2>5 DEF CancelTasks, bytesBar, leasesBar, checkingBar
      <3> QED
          BY <3>1 DEF Bytes!Drop, Bytes!Next
    <2>6. CASE Restart
        BY <2>6, RefinesRestart
    <2>7. CASE OnTiger \/ AskStatus \/ UNCHANGED vars
      <3>1. bytesBar' = bytesBar /\ leasesBar' = leasesBar /\ checkingBar' = checkingBar
          BY <2>7 DEF OnTiger, AskStatus, vars, bytesBar, leasesBar, checkingBar
      <3> QED
          BY <3>1 DEF Bytes!vars
    <2> QED
        BY <2>1, <2>2, <2>3, <2>4, <2>5, <2>6, <2>7 DEF Next
  <1> QED
      BY <1>1, <1>2, Invariance, PTL DEF Spec, BytesSpec, Bytes!Spec
-----------------------------------------------------------------------------
(* The validation never strands.                                             *)

SameBlock(j, k) == j \div VerSize = k \div VerSize

\* A block is VALID as a whole or not at all.
BlockInv == \A j, k \in Byte : SameBlock(j, k) /\ bytesBar[j] = "valid" => bytesBar[k] = "valid"

\* Multiplication is monotone.
LEMMA Monotone ==
  ASSUME NEW v \in Nat, NEW p \in Int, NEW q \in Int, p <= q
  PROVE  v * p <= v * q
  OBVIOUS

\* The bytes of the block that begins at f.
LEMMA BlockIs ==
  ASSUME NEW f \in Nat, f % VerSize = 0, NEW k \in Nat
  PROVE  SameBlock(k, f) <=> f <= k /\ k < f + VerSize
  <1> DEFINE p == f \div VerSize
             q == k \div VerSize
             t == k % VerSize
  <1>1. VerSize \in Nat \ {0}
      BY SizesAreNat
  <1>2. p \in Nat /\ f = VerSize * p
      BY <1>1
  <1>3. q \in Nat /\ t \in Nat /\ t < VerSize /\ k = VerSize * q + t
      BY <1>1
  <1>4. SameBlock(k, f) <=> q = p
      BY DEF SameBlock
  <1> HIDE DEF p, q, t
  <1>5. CASE q = p
      BY <1>1, <1>2, <1>3, <1>4, <1>5
  <1>6. CASE q > p
    <2>1. VerSize * (p + 1) <= VerSize * q
        BY <1>1, <1>2, <1>3, <1>6, Monotone
    <2>2. VerSize * (p + 1) = VerSize * p + VerSize
        BY <1>1, <1>2
    <2> QED
        BY <2>1, <2>2, <1>1, <1>2, <1>3, <1>4, <1>6
  <1>7. CASE q < p
    <2>1. VerSize * (q + 1) <= VerSize * p
        BY <1>1, <1>2, <1>3, <1>7, Monotone
    <2>2. VerSize * (q + 1) = VerSize * q + VerSize
        BY <1>1, <1>3
    <2> QED
        BY <2>1, <2>2, <1>1, <1>2, <1>3, <1>4, <1>7
  <1> QED
      BY <1>2, <1>3, <1>5, <1>6, <1>7

\* Painting bytes that are not VALID with another status splits no VALID block.
LEMMA SetKeepsBlocks ==
  ASSUME IInv, BlockInv, NEW r \in FileRange, NEW st \in Status \ {"valid"}, Set(r, st),
         \A k \in Byte : Covers(r, k) => bytesBar[k] # "valid"
  PROVE  BlockInv'
  <1>1. \A k \in Byte : bytesBar'[k] = IF Covers(r, k) THEN st ELSE bytesBar[k]
      BY SetIs DEF IInv, MapInv
  <1>2. \A k \in Byte : bytesBar'[k] = "valid" <=> bytesBar[k] = "valid"
      BY <1>1
  <1> QED
      BY <1>2 DEF BlockInv

\* A verdict VALID is given to a whole block or to the whole file.
LEMMA HashedKeepsBlocks ==
  ASSUME IInv, BlockInv, NEW verdict \in {"valid", "invalid"}, Hashed(verdict)
  PROVE  BlockInv'
  <1>1. checking # NoRange /\ Set(checking, verdict) /\ (verdict = "valid" => IsBlock(checking))
      BY DEF Hashed
  <1>2. checking \in FileRange /\ \A k \in Byte : Covers(checking, k) => bytesBar[k] = "full"
      BY <1>1 DEF IInv, TypeOK, CheckInv
  <1>3. CASE verdict = "invalid"
      BY <1>1, <1>2, <1>3, SetKeepsBlocks DEF Status
  <1>4. CASE verdict = "valid"
    <2>1. \A k \in Byte : bytesBar'[k] = IF Covers(checking, k) THEN "valid" ELSE bytesBar[k]
        BY <1>1, <1>2, <1>4, SetIs DEF IInv, MapInv, Status
    <2>2. ASSUME NEW j \in Byte, NEW k \in Byte, SameBlock(j, k), Covers(checking, j)
          PROVE  Covers(checking, k)
      <3>1. /\ j \in Nat /\ k \in Nat /\ j <= Size - 1 /\ k <= Size - 1
            /\ Size \in Nat /\ VerSize \in Nat \ {0}
          BY SizesAreNat DEF Byte
      <3>2. CASE checking = Whole
          BY <3>1, <3>2 DEF Whole, Covers
      <3>3. CASE checking.first % VerSize = 0 /\ checking.last = Min({checking.first + VerSize, Size}) - 1
        <4> DEFINE f == checking.first
                   z == checking.last
        <4>1. f \in Nat /\ z \in Nat /\ f % VerSize = 0 /\ f + VerSize \in Int /\ Size \in Int
            BY <1>2, <3>1, <3>3, CoverType
        <4>2. Min({f + VerSize, Size}) = IF f + VerSize <= Size THEN f + VerSize ELSE Size
            BY <4>1, MinMaxOfTwo
        <4>3. z = (IF f + VerSize <= Size THEN f + VerSize ELSE Size) - 1
            BY <4>2, <3>3
        <4>4. SameBlock(j, f) <=> f <= j /\ j < f + VerSize
            BY <3>1, <4>1, BlockIs
        <4>5. SameBlock(k, f) <=> f <= k /\ k < f + VerSize
            BY <3>1, <4>1, BlockIs
        <4>6. f <= j /\ j <= z
            BY <2>2 DEF Covers
        <4> HIDE DEF f, z
        <4>7. SameBlock(k, f)
            BY <2>2, <3>1, <4>1, <4>3, <4>4, <4>6 DEF SameBlock
        <4>8. f <= k /\ k <= z
            BY <3>1, <4>1, <4>3, <4>5, <4>7
        <4> QED
            BY <4>8 DEF Covers, f, z
      <3> QED
          BY <1>1, <1>4, <3>2, <3>3 DEF IsBlock
    <2> QED
        BY <2>1, <2>2 DEF BlockInv, SameBlock
  <1> QED
      BY <1>3, <1>4

\* No call splits a VALID block.
LEMMA NextKeepsBlocks ==
  ASSUME IInv, BlockInv, [Next]_vars PROVE BlockInv'
  <1>1. ASSUME NEW available \in Available, FetchFile(available) PROVE BlockInv'
    <2>1. PICK g \in EmptyRangesIn(ranges, versize_, available) : Set(g, "active")
        BY <1>1 DEF FetchFile
    <2> QED
        BY <2>1, FetchedIs, SetKeepsBlocks DEF Status
  <1>2. ASSUME NEW r \in leases, TaskComplete(r) \/ CancelTask(r) PROVE BlockInv'
    <2>1. r \in FileRange /\ \A k \in Byte : Covers(r, k) => bytesBar[k] # "valid"
        BY DEF IInv, TypeOK, LeaseInv
    <2> QED
        BY <1>2, <2>1, SetKeepsBlocks DEF TaskComplete, CancelTask, Status
  <1>3. CASE Restart
      BY <1>3, RestartIs DEF BlockInv
  <1>4. CASE OnTiger \/ FileUpdated \/ CancelTasks \/ AskStatus \/ UNCHANGED vars
    <2>1. ranges' = ranges
        BY <1>4 DEF OnTiger, FileUpdated, CancelTasks, AskStatus, vars
    <2> QED
        BY <2>1 DEF BlockInv, bytesBar
  <1> QED
      BY <1>1, <1>2, <1>3, <1>4, HashedKeepsBlocks DEF Next

\* Behind a full range of a map without anything left to fetch its block goes on
\* being FULL, so that the range does too.
LEMMA FullBlock ==
  ASSUME IInv, BlockInv, {r.st : r \in ranges} \subseteq {"full", "valid"},
         NEW r \in ranges, r.st = "full", NEW j \in Byte, Covers(r, j), NEW k \in Byte, SameBlock(j, k)
  PROVE  /\ k = r.first - 1 => FALSE
         /\ k = r.last + 1 => FALSE
  <1>1. Tiling(ranges) /\ r \in FileRangeEx
      BY DEF IInv, MapInv, Tiling
  <1>2. bytesBar[j] = "full"
      BY <1>1, BytesAre
  <1>3. bytesBar[k] # "valid"
      BY <1>2 DEF BlockInv, SameBlock
  <1>4. PICK p \in ranges : Covers(p, k) /\ bytesBar[k] = p.st
      BY <1>1, BytesAre
  <1>5. p.st = "full"
      BY <1>3, <1>4
  <1>6. p \in FileRangeEx
      BY <1>1 DEF Tiling
  <1>7. /\ p.first \in Nat /\ p.last \in Nat /\ p.first <= k /\ k <= p.last /\ k \in Nat
        /\ r.first \in Nat /\ r.last \in Nat /\ r.first <= r.last
      BY <1>1, <1>4, <1>6, RangeType, SizesAreNat DEF Covers, Byte
  <1>8. Intersects(p, r) => p = r
      BY <1>1 DEF Tiling
  <1>9. ASSUME k = r.first - 1 PROVE FALSE
    <2>1. p.last = k
        BY <1>7, <1>8, <1>9 DEF Intersects
    <2>2. Unmerged(ranges, k)
        BY <2>1, <1>5, <1>7, <1>9 DEF Unmerged
    <2> QED
        BY <2>2 DEF IInv, MapInv
  <1>10. ASSUME k = r.last + 1 PROVE FALSE
    <2>1. p.first = k
        BY <1>7, <1>8, <1>10 DEF Intersects
    <2>2. Unmerged(ranges, r.last)
        BY <2>1, <1>5, <1>10 DEF Unmerged
    <2> QED
        BY <2>2 DEF IInv, MapInv
  <1> QED
      BY <1>9, <1>10

\* With the tiger tree known and nothing left to fetch there is something to hash
\* until every byte has its verdict.
THEOREM MapNeverStrands == Spec => []NeverStranded
  <1>1. Init => BlockInv
    <2> SUFFICES ASSUME Init PROVE BlockInv
        OBVIOUS
    <2>1. IInv /\ \A r \in ranges : r.st = "empty"
        BY InitIInv DEF Init
    <2>2. \A k \in Byte : bytesBar[k] = "empty"
        BY <2>1, BytesAre DEF IInv, MapInv
    <2> QED
        BY <2>2 DEF BlockInv
  <1>2. IInv /\ BlockInv /\ [Next]_vars => BlockInv'
      BY NextKeepsBlocks
  <1>3. IInv /\ BlockInv => NeverStranded
    <2> SUFFICES ASSUME IInv, BlockInv, versize_ # 0,
                        {r.st : r \in ranges} \cap {"empty", "invalid", "active"} = {},
                        "full" \in {r.st : r \in ranges}
                 PROVE  GetForValidation(ranges, versize_) # NoRange
        BY DEF NeverStranded
    <2>1. versize_ = VerSize /\ VerSize \in Nat \ {0} /\ Size \in Nat \ {0} /\ Tiling(ranges)
        BY SizesAreNat DEF IInv, TypeOK, MapInv
    <2>2. {r.st : r \in ranges} \subseteq {"full", "valid"}
        BY RangeType DEF IInv, TypeOK, Status
    <2>3. PICK r \in ranges : r.st = "full"
        OBVIOUS
    <2>4. r \in FileRangeEx
        BY <2>1 DEF Tiling
    <2>5. /\ r.first \in Nat /\ r.last \in Nat /\ r.first <= r.last /\ r.last <= Size - 1
          /\ r.first \in Byte /\ r.last \in Byte /\ Covers(r, r.first)
        BY <2>4, RangeType DEF Covers
    <2>6. \A k \in Byte : SameBlock(r.first, k) => k # r.first - 1 /\ k # r.last + 1
        BY <2>2, <2>3, <2>5, FullBlock
    <2> DEFINE t == r.first % VerSize
               f == r.first - t
               whole == {q \in ranges : /\ q.st = "full" /\ Length(q) >= versize_
                                        /\ FirstBlock(q, versize_).last <= q.last}
    <2>7. t \in Nat /\ t < VerSize /\ t <= r.first /\ f \in Nat /\ f % VerSize = 0
      <3>1. t \in Nat /\ t < VerSize /\ t <= r.first
          BY <2>1, <2>5, ModIs
      <3>2. f % VerSize = 0
          BY <2>1, <2>5
      <3> QED
          BY <2>5, <3>1, <3>2
    <2> HIDE DEF t
    <2>8. \A k \in Nat : SameBlock(k, f) <=> f <= k /\ k < f + VerSize
        BY <2>7, BlockIs
    <2>9. t = 0
      <3>1. SUFFICES ASSUME t # 0 PROVE FALSE
          OBVIOUS
      <3>2. r.first - 1 \in Byte /\ r.first - 1 \in Nat
          BY <2>1, <2>5, <2>7, <3>1 DEF Byte
      <3> DEFINE j == r.first - 1
      <3>3. f <= j /\ j < f + VerSize /\ f <= r.first /\ r.first < f + VerSize
          BY <2>1, <2>5, <2>7, <3>1
      <3>4. j \in Nat
          BY <3>2
      <3> HIDE DEF f, j
      <3>5. SameBlock(r.first, f) /\ SameBlock(j, f)
          BY <2>5, <2>8, <3>3, <3>4
      <3> QED
          BY <2>6, <3>2, <3>5 DEF SameBlock, j
    <2>10. f = r.first
        BY <2>5, <2>9
    <2>11. r.last + 1 \in Byte => r.last + 1 >= f + VerSize
      <3>1. SUFFICES ASSUME r.last + 1 \in Byte, r.last + 1 < f + VerSize PROVE FALSE
          BY <2>1, <2>5, <2>7
      <3>2. SameBlock(r.first, f) /\ SameBlock(r.last + 1, f)
          BY <2>1, <2>5, <2>8, <2>10, <3>1
      <3> QED
          BY <2>6, <3>1, <3>2 DEF SameBlock
    <2>12. CASE whole # {}
      <3>1. GetForValidation(ranges, versize_) = FirstBlock(Lowest(whole), versize_)
          BY <2>12 DEF GetForValidation
      <3>2. Lowest(whole) \in whole
          BY <2>1, <2>12, LowestIn DEF Tiling
      <3>3. Inside(FirstBlock(Lowest(whole), VerSize), Lowest(whole))
          BY <2>1, <3>2, FirstBlockIs DEF Tiling
      <3> QED
          BY <2>1, <3>1, <3>3, NoRangeAssumption DEF Inside
    <2>13. CASE whole = {}
      <3>1. GetForValidation(ranges, versize_) = ShortTail(ranges, versize_)
          BY <2>13 DEF GetForValidation
      <3>2. FirstBlock(r, VerSize) = [first |-> r.first, last |-> r.first + VerSize - 1]
          BY <2>5, <2>9 DEF FirstBlock, t
      <3>3. Length(r) < VerSize
        <4>1. ~ (Length(r) >= VerSize /\ r.first + VerSize - 1 <= r.last)
            BY <2>1, <2>3, <2>13, <3>2
        <4> QED
            BY <4>1, <2>1, <2>5 DEF Length
      <3>4. r.last = Size - 1
          BY <2>1, <2>5, <2>10, <2>11, <3>3 DEF Length, Byte
      <3>5. Highest(ranges) = r
        <4>1. Highest(ranges) \in ranges /\ Covers(Highest(ranges), Size - 1)
            BY <2>1, HighestIs
        <4>2. Intersects(Highest(ranges), r)
            BY <4>1, <2>1, <2>5, <3>4, RangeType DEF Tiling, Covers, Intersects
        <4> QED
            BY <4>1, <4>2, <2>1 DEF Tiling
      <3>6. ShortTail(ranges, versize_) = Bare(r)
          BY <2>1, <2>3, <3>3, <3>5 DEF ShortTail
      <3> QED
          BY <2>4, <3>1, <3>6, BareIs, NoRangeAssumption DEF Inside
    <2> QED
        BY <2>12, <2>13
  <1> QED
      BY <1>1, <1>2, <1>3, Invariance, PTL DEF Spec

------------------------------------------------------------------------------

Usable   == \A p \in Path : pointers_[p] # NoFile => mode_[pointers_[p]] \in Modes
Distinct == \A p, q \in Path : pointers_[p] # NoFile /\ pointers_[p] = pointers_[q] => p = q
Named    == \A p \in Path : pointers_[p] # NoFile => \/ name_[pointers_[p]] = p
                                                     \/ \E to \in Path : <<p, to>> \in MayMove

FilesInv == FilesTypeOK /\ KeepsAccess /\ InTable /\ Usable /\ Distinct /\ Named

\* The modes of the callers are comparable: who needs access that a file lacks
\* needs all that it has.
LEMMA Comparable == \A m, n \in Modes : m \subseteq n \/ n \subseteq m
  BY DEF Modes, Access

\* No file is open at first.
LEMMA FilesInitIsFine == FilesInit => FilesInv
  <1> SUFFICES ASSUME FilesInit PROVE FilesInv
      OBVIOUS
  <1>1. FilesTypeOK
      BY NoneAssumption DEF FilesInit, FilesTypeOK, Nothing
  <1> QED
      BY <1>1 DEF FilesInit, FilesInv, KeepsAccess, InTable, Usable, Distinct, Named

\* What a SharedFile gets: a file, and a belief about it.
Owned == /\ pFile_ \in [Owner -> File \cup {NoFile}]
         /\ asked \in [Owner -> [path : Path, mode : Modes] \cup {Nothing}]
         /\ \A o \in Owner : (pFile_[o] = NoFile) = (asked[o] = Nothing)

\* What an opening SharedFile believes is about the file it got.
LEMMA Taken ==
  ASSUME Owned, NEW o \in Owner, NEW path \in Path, NEW mode \in Modes, NEW f \in File,
         Take(o, f, path, mode)
  PROVE  Owned'
  <1> DEFINE belief == [path |-> path, mode |-> mode]
  <1>1. belief \in [path : Path, mode : Modes]
      OBVIOUS
  <1>2. belief # Nothing
    <2>1. belief.path = path /\ Nothing.path = NoPath
        BY DEF Nothing
    <2> QED
        BY <2>1, NoneAssumption
  <1>3. pFile_' = [pFile_ EXCEPT ![o] = f] /\ asked' = [asked EXCEPT ![o] = belief]
      BY DEF Take
  <1>4. f # NoFile
      BY NoneAssumption
  <1> HIDE DEF belief
  <1>5. /\ pFile_' \in [Owner -> File \cup {NoFile}]
        /\ asked' \in [Owner -> [path : Path, mode : Modes] \cup {Nothing}]
      BY <1>1, <1>3 DEF Owned
  <1>6. ASSUME NEW e \in Owner PROVE (pFile_'[e] = NoFile) = (asked'[e] = Nothing)
    <2>1. CASE e = o
        BY <1>2, <1>3, <1>4, <2>1 DEF Owned
    <2>2. CASE e # o
      <3>1. pFile_'[e] = pFile_[e] /\ asked'[e] = asked[e]
          BY <1>3, <2>2 DEF Owned
      <3> QED
          BY <3>1 DEF Owned
    <2> QED
        BY <2>1, <2>2
  <1> QED
      BY <1>5, <1>6 DEF Owned

\* The type invariant, with the part about the SharedFiles as one conjunct.
LEMMA OwnedType ==
  FilesTypeOK <=> /\ pointers_ \in [Path -> File \cup {NoFile}]
             /\ name_ \in [File -> Path \cup {NoPath}]
             /\ mode_ \in [File -> SUBSET Access]
             /\ Owned
  BY DEF FilesTypeOK, Owned

\* As long as the table is the same, nobody closes and whoever takes a file takes
\* it from the table, all files in use are there.
LEMMA StillInTable ==
  /\ InTable /\ pointers_' = pointers_
  /\ \A e \in Owner : pFile_'[e] = pFile_[e] \/ \E p \in Path : pointers_[p] = pFile_'[e]
  => InTable'
  BY DEF InTable

\* Opening a path that is not in the table keeps the invariant.
LEMMA NewIsFine ==
  ASSUME FilesInv, NEW o \in Owner, NEW path \in Path, NEW mode \in Modes, OpenNew(o, path, mode)
  PROVE  FilesInv'
  <1> DEFINE f == CHOOSE f \in Free : TRUE
  <1>1. f \in Free /\ f \in File
      BY DEF OpenNew, Free
  <1>2. /\ pointers_' = [pointers_ EXCEPT ![path] = f]
        /\ name_' = [name_ EXCEPT ![f] = path]
        /\ mode_' = [mode_ EXCEPT ![f] = mode]
        /\ pFile_' = [pFile_ EXCEPT ![o] = f]
        /\ asked' = [asked EXCEPT ![o] = [path |-> path, mode |-> mode]]
        /\ pointers_[path] = NoFile
      BY DEF OpenNew, Opened, Take
  <1>3. /\ \A e \in Owner : pFile_[e] # f
        /\ \A p \in Path : pointers_[p] # f
        /\ f # NoFile
      BY <1>1, NoneAssumption DEF Free, Holders
  <1> HIDE DEF f
  <1>4. FilesTypeOK'
    <2>1. Owned'
        BY <1>1, Taken, OwnedType DEF OpenNew, FilesInv, f
    <2>2. /\ pointers_' \in [Path -> File \cup {NoFile}]
          /\ name_' \in [File -> Path \cup {NoPath}]
          /\ mode_' \in [File -> SUBSET Access]
      <3>1. mode \in SUBSET Access
          BY DEF Modes, Access
      <3> QED
          BY <1>1, <1>2, <3>1 DEF FilesInv, FilesTypeOK
    <2> QED
        BY <2>1, <2>2 DEF FilesTypeOK, Owned
  <1>5. KeepsAccess'
      BY <1>1, <1>2, <1>3 DEF FilesInv, FilesTypeOK, KeepsAccess
  <1>6. Usable' /\ Distinct' /\ Named'
      BY <1>1, <1>2, <1>3 DEF FilesInv, FilesTypeOK, Usable, Distinct, Named
  <1>7. InTable'
    <2>1. /\ pointers_'[path] = f
          /\ \A p \in Path : p # path => pointers_'[p] = pointers_[p]
          /\ pFile_'[o] = f
          /\ \A e \in Owner : e # o => pFile_'[e] = pFile_[e]
        BY <1>2 DEF FilesInv, FilesTypeOK
    <2>2. ASSUME NEW e \in Owner, e # o, pFile_'[e] # NoFile
          PROVE  \E p \in Path : pointers_'[p] = pFile_'[e]
      <3>1. PICK p \in Path : pointers_[p] = pFile_[e]
          BY <2>1, <2>2 DEF FilesInv, InTable
      <3>2. p # path
          BY <1>2, <2>1, <2>2, <3>1
      <3> QED
          BY <2>1, <2>2, <3>1, <3>2
    <2> QED
        BY <2>1, <2>2 DEF InTable
  <1> QED
      BY <1>4, <1>5, <1>6, <1>7 DEF FilesInv

\* Sharing the open file keeps the invariant.
LEMMA SharedIsFine ==
  ASSUME FilesInv, NEW o \in Owner, NEW path \in Path, NEW mode \in Modes, OpenShared(o, path, mode)
  PROVE  FilesInv'
  <1>1. /\ pointers_[path] \in File
        /\ mode \subseteq mode_[pointers_[path]]
        /\ pFile_' = [pFile_ EXCEPT ![o] = pointers_[path]]
        /\ asked' = [asked EXCEPT ![o] = [path |-> path, mode |-> mode]]
        /\ pointers_' = pointers_ /\ name_' = name_ /\ mode_' = mode_
      BY DEF OpenShared, Take, FilesInv, FilesTypeOK
  <1>2. FilesTypeOK'
    <2>1. Owned'
        BY <1>1, Taken, OwnedType DEF OpenShared, FilesInv
    <2> QED
        BY <1>1, <2>1 DEF FilesInv, FilesTypeOK, Owned
  <1>3. KeepsAccess'
      BY <1>1 DEF FilesInv, FilesTypeOK, KeepsAccess
  <1>4. Usable' /\ Distinct' /\ Named'
      BY <1>1 DEF FilesInv, Usable, Distinct, Named
  <1>5. InTable'
    <2>1. \A e \in Owner : pFile_'[e] = pFile_[e] \/ pFile_'[e] = pointers_[path]
        BY <1>1 DEF FilesInv, FilesTypeOK
    <2> QED
        BY <1>1, <2>1, StillInTable DEF FilesInv
  <1> QED
      BY <1>2, <1>3, <1>4, <1>5 DEF FilesInv

\* Reopening the file with more access keeps the invariant.
LEMMA MoreIsFine ==
  ASSUME FilesInv, NEW o \in Owner, NEW path \in Path, NEW mode \in Modes, OpenMore(o, path, mode)
  PROVE  FilesInv'
  <1> DEFINE f == pointers_[path]
  <1>1. /\ f \in File /\ f # NoFile /\ pointers_' = pointers_
        /\ mode_[f] \in Modes /\ mode_[f] \subseteq mode
      BY Comparable DEF OpenMore, FilesInv, FilesTypeOK, Usable
  <1> DEFINE opened(m) == name_' = [name_ EXCEPT ![f] = path] /\ mode_' = [mode_ EXCEPT ![f] = m]
  <1>2. ASSUME NEW m \in Modes, opened(m), mode_[f] \subseteq m
        PROVE  /\ name_' \in [File -> Path \cup {NoPath}]
               /\ mode_' \in [File -> SUBSET Access]
               /\ Usable' /\ Distinct' /\ Named'
    <2>1. m \in SUBSET Access
        BY DEF Modes, Access
    <2>2. /\ name_' \in [File -> Path \cup {NoPath}]
          /\ mode_' \in [File -> SUBSET Access]
        BY <1>1, <1>2, <2>1 DEF FilesInv, FilesTypeOK
    <2>3. Usable' /\ Distinct'
        BY <1>1, <1>2 DEF FilesInv, FilesTypeOK, Usable, Distinct
    <2>4. ASSUME NEW p \in Path, pointers_[p] # NoFile
          PROVE  name_'[pointers_[p]] = p \/ \E to \in Path : <<p, to>> \in MayMove
      <3>1. CASE p = path
          BY <1>1, <1>2, <3>1 DEF FilesInv, FilesTypeOK
      <3>2. CASE p # path
        <4>1. pointers_[p] # f /\ pointers_[p] \in File
            BY <2>4, <3>2 DEF FilesInv, FilesTypeOK, Distinct
        <4>2. name_'[pointers_[p]] = name_[pointers_[p]]
            BY <1>2, <4>1 DEF FilesInv, FilesTypeOK
        <4> QED
            BY <2>4, <4>2 DEF FilesInv, Named
      <3> QED
          BY <3>1, <3>2
    <2> QED
        BY <1>1, <2>2, <2>3, <2>4 DEF Named
  <1>3. CASE opened(mode) /\ Take(o, f, path, mode)
    <2>1. /\ pFile_' = [pFile_ EXCEPT ![o] = f]
          /\ asked' = [asked EXCEPT ![o] = [path |-> path, mode |-> mode]]
        BY <1>3 DEF Take
    <2>2. FilesTypeOK'
      <3>1. Owned'
          BY <1>1, <1>3, Taken, OwnedType DEF FilesInv
      <3> QED
          BY <1>1, <1>2, <1>3, <3>1 DEF FilesInv, FilesTypeOK, Owned
    <2>3. KeepsAccess'
        BY <1>1, <1>3, <2>1 DEF FilesInv, FilesTypeOK, KeepsAccess
    <2>4. InTable'
      <3>1. \A e \in Owner : pFile_'[e] = pFile_[e] \/ pFile_'[e] = pointers_[path]
          BY <1>1, <2>1 DEF FilesInv, FilesTypeOK
      <3> QED
          BY <1>1, <3>1, StillInTable DEF FilesInv
    <2> QED
        BY <1>1, <1>2, <1>3, <2>2, <2>3, <2>4 DEF FilesInv
  <1>4. CASE opened(mode_[f]) /\ UNCHANGED <<pFile_, asked>>
    <2>1. FilesTypeOK'
        BY <1>1, <1>2, <1>4 DEF FilesInv, FilesTypeOK
    <2>2. KeepsAccess'
        BY <1>1, <1>4 DEF FilesInv, FilesTypeOK, KeepsAccess
    <2>3. InTable'
        BY <1>1, <1>4, StillInTable DEF FilesInv
    <2> QED
        BY <1>1, <1>2, <1>4, <2>1, <2>2, <2>3 DEF FilesInv
  <1> QED
      BY <1>3, <1>4 DEF OpenMore, Opened

\* FileManager::Transfer keeps the invariant, whatever was open under the two names.
LEMMA TransferIsFine ==
  ASSUME FilesInv, NEW from \in Path, NEW to \in Path, <<from, to>> \in MayMove, Transfer(from, to)
  PROVE  FilesInv'
  <1> DEFINE f == pointers_[from]
  <1>1. /\ f \in File /\ f # NoFile /\ pointers_' = pointers_ /\ pFile_' = pFile_
        /\ mode_[f] \in Modes
        /\ mode_' = [mode_ EXCEPT ![f] = mode_[f]]
        /\ \E path \in {from, to} : name_' = [name_ EXCEPT ![f] = path]
        /\ \A o \in Owner : asked'[o] \in {asked[o], [asked[o] EXCEPT !.path = to]}
      BY DEF Transfer, Opened, FilesInv, FilesTypeOK, Usable
  <1>2. mode_' = mode_
      BY <1>1 DEF FilesInv, FilesTypeOK
  <1>3. name_' \in [File -> Path \cup {NoPath}]
      BY <1>1 DEF FilesInv, FilesTypeOK
  <1>4. InTable' /\ Usable' /\ Distinct'
    <2>1. InTable'
        BY <1>1, StillInTable DEF FilesInv
    <2> QED
        BY <1>1, <1>2, <2>1 DEF FilesInv, Usable, Distinct
  <1>5. Named'
    <2> SUFFICES ASSUME NEW p \in Path, pointers_[p] # NoFile
                 PROVE  name_'[pointers_[p]] = p \/ \E path \in Path : <<p, path>> \in MayMove
        BY <1>1 DEF Named
    <2>1. CASE p = from
        BY <2>1
    <2>2. CASE p # from
      <3>1. pointers_[p] # f /\ pointers_[p] \in File
          BY <2>2 DEF FilesInv, FilesTypeOK, Distinct
      <3>2. name_'[pointers_[p]] = name_[pointers_[p]]
          BY <1>1, <3>1 DEF FilesInv, FilesTypeOK
      <3> QED
          BY <3>2 DEF FilesInv, Named
    <2> QED
        BY <2>1, <2>2
  <1>6. CASE asked' = asked
    <2>1. FilesTypeOK'
        BY <1>1, <1>2, <1>6, <1>3 DEF FilesInv, FilesTypeOK
    <2>2. KeepsAccess'
        BY <1>1, <1>2, <1>6 DEF FilesInv, KeepsAccess
    <2> QED
        BY <1>4, <1>5, <2>1, <2>2 DEF FilesInv
  <1>7. CASE asked' = [o \in Owner |-> IF o \in Holders(f) THEN [asked[o] EXCEPT !.path = to]
                                       ELSE asked[o]]
    <2>1. ASSUME NEW o \in Owner, o \in Holders(f)
          PROVE  /\ asked[o] \in [path : Path, mode : Modes]
                 /\ asked'[o] = [path |-> to, mode |-> asked[o].mode]
      <3>1. asked[o] # Nothing
          BY <1>1, <2>1 DEF FilesInv, FilesTypeOK, Holders
      <3> QED
          BY <1>7, <2>1, <3>1 DEF FilesInv, FilesTypeOK
    <2>2. FilesTypeOK'
      <3>1. ASSUME NEW o \in Owner
            PROVE  /\ asked'[o] \in [path : Path, mode : Modes] \cup {Nothing}
                   /\ (pFile_'[o] = NoFile) = (asked'[o] = Nothing)
        <4>1. CASE o \in Holders(f)
          <5>1. /\ asked[o] \in [path : Path, mode : Modes]
                /\ asked'[o] = [path |-> to, mode |-> asked[o].mode]
              BY <2>1, <4>1, Zenon
          <5>2. asked'[o] \in [path : Path, mode : Modes]
              BY <5>1
          <5>4. asked'[o].path # Nothing.path
              BY <5>1, NoneAssumption DEF Nothing
          <5>3. pFile_'[o] # NoFile
              BY <1>1, <4>1 DEF Holders
          <5> QED
              BY <5>2, <5>3, <5>4
        <4>2. CASE o \notin Holders(f)
            BY <1>1, <1>7, <4>2 DEF FilesInv, FilesTypeOK
        <4> QED
            BY <4>1, <4>2
      <3> QED
          BY <1>1, <1>2, <1>7, <1>3, <3>1 DEF FilesInv, FilesTypeOK
    <2>3. KeepsAccess'
      <3>1. ASSUME NEW o \in Owner, pFile_[o] # NoFile PROVE asked'[o].mode = asked[o].mode
          BY <1>7, <2>1
      <3> QED
          BY <1>1, <1>2, <3>1 DEF FilesInv, KeepsAccess
    <2> QED
        BY <1>4, <1>5, <2>2, <2>3 DEF FilesInv
  <1> QED
      BY <1>6, <1>7 DEF Transfer

\* Closing a SharedFile keeps the invariant.
LEMMA CloseIsFine ==
  ASSUME FilesInv, NEW o \in Owner, Close(o)
  PROVE  FilesInv'
  <1> DEFINE f == pFile_[o]
             path == name_[f]
  <1>1. /\ f \in File /\ f # NoFile
        /\ pFile_' = [pFile_ EXCEPT ![o] = NoFile]
        /\ asked' = [asked EXCEPT ![o] = Nothing]
        /\ name_' = name_ /\ mode_' = mode_
      BY DEF Close, FilesInv, FilesTypeOK
  <1>2. \A p \in Path : \/ pointers_'[p] = pointers_[p]
                        \/ p = path /\ pointers_'[p] = NoFile /\ Holders(pointers_[p]) \subseteq {o}
      BY DEF Close, FilesInv, FilesTypeOK
  <1>3. FilesTypeOK'
    <2>1. pointers_' \in [Path -> File \cup {NoFile}]
        BY DEF Close, FilesInv, FilesTypeOK
    <2> QED
        BY <1>1, <2>1 DEF FilesInv, FilesTypeOK
  <1>4. KeepsAccess'
      BY <1>1 DEF FilesInv, FilesTypeOK, KeepsAccess
  <1>5. Usable' /\ Distinct' /\ Named'
      BY <1>1, <1>2 DEF FilesInv, Usable, Distinct, Named
  <1>6. ASSUME NEW e \in Owner, pFile_'[e] # NoFile PROVE \E p \in Path : pointers_'[p] = pFile_'[e]
    <2>1. e # o /\ pFile_'[e] = pFile_[e] /\ pFile_[e] # NoFile
        BY <1>1, <1>6 DEF FilesInv, FilesTypeOK
    <2>2. PICK p \in Path : pointers_[p] = pFile_[e]
        BY <2>1 DEF FilesInv, InTable
    <2>3. e \in Holders(pointers_[p])
        BY <2>2 DEF Holders
    <2> QED
        BY <1>2, <2>1, <2>2, <2>3
  <1>7. InTable'
      BY <1>6 DEF InTable
  <1> QED
      BY <1>3, <1>4, <1>5, <1>7 DEF FilesInv

\* A step that changes nothing keeps the invariant.
LEMMA FilesStutter == FilesInv /\ UNCHANGED filesVars => FilesInv'
  <1> SUFFICES ASSUME FilesInv, UNCHANGED filesVars PROVE FilesInv'
      OBVIOUS
  <1>1. FilesTypeOK' /\ KeepsAccess' /\ Usable' /\ Distinct' /\ Named'
      BY DEF FilesInv, FilesTypeOK, KeepsAccess, Usable, Distinct, Named, filesVars
  <1>2. InTable'
    <2>1. pointers_' = pointers_ /\ pFile_' = pFile_
        BY DEF filesVars
    <2> QED
        BY <2>1, StillInTable DEF FilesInv
  <1> QED
      BY <1>1, <1>2 DEF FilesInv

\* Every step keeps the invariant.
LEMMA FilesStep == FilesInv /\ [FilesNext]_filesVars => FilesInv'
  <1> SUFFICES ASSUME FilesInv, [FilesNext]_filesVars PROVE FilesInv'
      OBVIOUS
  <1>1. ASSUME NEW o \in Owner, NEW path \in Path, NEW mode \in Modes,
               OpenNew(o, path, mode) \/ OpenShared(o, path, mode) \/ OpenMore(o, path, mode)
        PROVE  FilesInv'
      BY <1>1, NewIsFine, SharedIsFine, MoreIsFine
  <1>2. ASSUME NEW o \in Owner, Close(o) PROVE FilesInv'
      BY <1>2, CloseIsFine
  <1>3. ASSUME NEW move \in MayMove, Transfer(move[1], move[2]) PROVE FilesInv'
    <2>1. move[1] \in Path /\ move[2] \in Path /\ <<move[1], move[2]>> \in MayMove
        BY MovesAssumption
    <2> QED
        BY <1>3, <2>1, TransferIsFine
  <1>4. CASE UNCHANGED filesVars
      BY <1>4, FilesStutter
  <1> QED
      BY <1>1, <1>2, <1>3, <1>4 DEF FilesNext

\* Every reachable state of FileManager satisfies the invariant.
THEOREM FilesInvariance == FilesSpec => []FilesInv
  BY FilesInitIsFine, FilesStep, PTL DEF FilesSpec

\* The table, the files and what their owners hold are always well formed.
THEOREM FilesTypes == FilesSpec => []FilesTypeOK
  <1>1. FilesInv => FilesTypeOK
      BY DEF FilesInv
  <1> QED
      BY <1>1, FilesInvariance, PTL

\* Nobody loses the access to a file that FileManager::Open has given.
THEOREM AccessIsKept == FilesSpec => []KeepsAccess
  <1>1. FilesInv => KeepsAccess
      BY DEF FilesInv
  <1> QED
      BY <1>1, FilesInvariance, PTL

\* Every file in use is found in the table by the next one who opens it.
THEOREM UsedIsInTable == FilesSpec => []InTable
  <1>1. FilesInv => InTable
      BY DEF FilesInv
  <1> QED
      BY <1>1, FilesInvariance, PTL

-----------------------------------------------------------------------------
\* Whoever takes a file has one afterwards.
LEMMA TakerGoesOn ==
  ASSUME FilesInv, NEW o \in Owner, NEW g \in File, pFile_' = [pFile_ EXCEPT ![o] = g],
         NEW f \in File, Holders(f) # {}, {e \in Owner : pFile_'[e] = f} = {}
  PROVE  Dropped(f)
  <1>1. PICK e \in Owner : pFile_[e] = f
      BY DEF Holders
  <1>2. e = o /\ pFile_'[o] = g /\ g # NoFile
      BY <1>1, NoneAssumption DEF FilesInv, FilesTypeOK
  <1> QED
      BY <1>1, <1>2 DEF Dropped, Holders

\* The file that loses its last user was dropped by Close.
LEMMA CloserDrops ==
  ASSUME FilesInv, NEW o \in Owner, Close(o),
         NEW f \in File, Holders(f) # {}, {e \in Owner : pFile_'[e] = f} = {}
  PROVE  Dropped(f)
  <1>1. PICK e \in Owner : pFile_[e] = f
      BY DEF Holders
  <1>2. \A d \in Owner : d # o => pFile_'[d] = pFile_[d]
      BY DEF Close, FilesInv, FilesTypeOK
  <1>3. e = o /\ pFile_[o] = f /\ Holders(f) \subseteq {o}
      BY <1>1, <1>2 DEF Holders
  <1>4. PICK p \in Path : pointers_[p] = f
      BY <1>3, NoneAssumption DEF FilesInv, InTable
  <1>5. name_' = name_ /\ f # NoFile
      BY NoneAssumption DEF Close
  <1>6. pointers_' = IF pointers_[name_[f]] # NoFile /\ Holders(pointers_[name_[f]]) \subseteq {o}
                     THEN [pointers_ EXCEPT ![name_[f]] = NoFile]
                     ELSE pointers_
      BY <1>3 DEF Close
  <1>7. CASE name_[f] = p
    <2>1. pointers_' = [pointers_ EXCEPT ![p] = NoFile]
        BY <1>3, <1>4, <1>5, <1>6, <1>7
    <2>2. \A q \in Path : pointers_'[q] # f
        BY <1>4, <1>5, <2>1 DEF FilesInv, FilesTypeOK, Distinct
    <2> QED
        BY <2>2 DEF Dropped
  <1>8. CASE name_[f] # p
    <2>1. pointers_'[p] = f
        BY <1>4, <1>6, <1>8 DEF FilesInv, FilesTypeOK
    <2> QED
        BY <1>5, <1>8, <2>1 DEF Dropped
  <1> QED
      BY <1>7, <1>8

\* FileManager::Close forgets a file with its last owner, unless another SharedFile
\* was assigned to that owner or FileManager::Transfer has moved the file.
THEOREM LastOwnerDrops == FilesSpec => DroppedWithLast
  <1>1. ASSUME FilesInv, [FilesNext]_filesVars
        PROVE  [\A f \in File : Holders(f) # {} /\ Holders(f)' = {} => Dropped(f)]_filesVars
    <2> SUFFICES ASSUME FilesNext, NEW f \in File, Holders(f) # {}, {e \in Owner : pFile_'[e] = f} = {}
                 PROVE  Dropped(f)
        BY <1>1 DEF Holders
    <2>1. CASE pFile_' = pFile_
        BY <2>1 DEF Holders
    <2>2. ASSUME NEW o \in Owner, NEW g \in File, pFile_' = [pFile_ EXCEPT ![o] = g]
          PROVE  Dropped(f)
        BY <1>1, <2>2, TakerGoesOn
    <2>3. ASSUME NEW o \in Owner, Close(o) PROVE Dropped(f)
        BY <1>1, <2>3, CloserDrops
    <2>4. ASSUME NEW o \in Owner, NEW path \in Path, NEW mode \in Modes,
                 OpenNew(o, path, mode) \/ OpenShared(o, path, mode) \/ OpenMore(o, path, mode)
          PROVE  pFile_' = pFile_ \/ \E g \in File : pFile_' = [pFile_ EXCEPT ![o] = g]
      <3>1. CASE OpenNew(o, path, mode)
        <4>1. (CHOOSE g \in Free : TRUE) \in File
            BY <3>1 DEF OpenNew, Free
        <4> QED
            BY <3>1, <4>1 DEF OpenNew, Take
      <3>2. CASE OpenShared(o, path, mode) \/ OpenMore(o, path, mode)
        <4>1. pointers_[path] \in File
            BY <1>1, <3>2 DEF OpenShared, OpenMore, FilesInv, FilesTypeOK
        <4> QED
            BY <3>2, <4>1 DEF OpenShared, OpenMore, Take
      <3> QED
          BY <2>4, <3>1, <3>2
    <2>5. ASSUME NEW move \in MayMove, Transfer(move[1], move[2]) PROVE pFile_' = pFile_
        BY <2>5 DEF Transfer
    <2> QED
        BY <2>1, <2>2, <2>3, <2>4, <2>5 DEF FilesNext
  <1> QED
      BY <1>1, FilesInvariance, PTL DEF FilesSpec, DroppedWithLast
-----------------------------------------------------------------------------
(* The index of the share manager.                                           *)

Objects == UNION {[S -> FileInfo] : S \in SUBSET Ptr}
Index   == [info : Objects, index : SUBSET [path : SharePath, ptr : Ptr], kw : SUBSET Ptr, qht : SUBSET Content]

\* IndicesAgree, for any state of the index.
Agree(s) ==
  /\ s \in Index
  /\ \A e \in s.index : e.ptr \in DOMAIN s.info /\ s.info[e.ptr].path = e.path
  /\ \A e, f \in s.index : e.path = f.path => e = f
  /\ s.kw = {e.ptr : e \in s.index}
  /\ DOMAIN s.info = s.kw

\* QhtCovers.
Passes(s) == \A e \in s.index : e.path # Inc => s.info[e.ptr].hash \in s.qht \cup {Empty}

\* DownloadsKeepInfo.
Serves(s, d) == d.status # "none" => /\ [path |-> Inc, ptr |-> d.ptr] \in s.index
                                     /\ s.info[d.ptr].partial

\* The objects that are alive, each at an address.
LEMMA ObjectsAre ==
  ASSUME NEW m
  PROVE  m \in Objects <=> /\ m = [p \in DOMAIN m |-> m[p]] /\ DOMAIN m \subseteq Ptr
                           /\ \A p \in DOMAIN m : m[p] \in FileInfo
  <1>1. ASSUME m \in Objects
        PROVE  /\ m = [p \in DOMAIN m |-> m[p]] /\ DOMAIN m \subseteq Ptr
               /\ \A p \in DOMAIN m : m[p] \in FileInfo
    <2>1. PICK S \in SUBSET Ptr : m \in [S -> FileInfo]
        BY <1>1 DEF Objects
    <2> QED
        BY <2>1
  <1>2. ASSUME m = [p \in DOMAIN m |-> m[p]], DOMAIN m \subseteq Ptr,
               \A p \in DOMAIN m : m[p] \in FileInfo
        PROVE  m \in Objects
    <2>1. m \in [DOMAIN m -> FileInfo]
        BY <1>2
    <2> QED
        BY <1>2, <2>1 DEF Objects
  <1> QED
      BY <1>1, <1>2

\* The four parts of the index.
LEMMA IndexIs ==
  ASSUME NEW s \in Index
  PROVE  /\ s = [info |-> s.info, index |-> s.index, kw |-> s.kw, qht |-> s.qht]
         /\ s.info = [p \in DOMAIN s.info |-> s.info[p]] /\ DOMAIN s.info \subseteq Ptr
         /\ \A p \in DOMAIN s.info : s.info[p] \in FileInfo
         /\ s.index \subseteq [path : SharePath, ptr : Ptr]
         /\ s.kw \subseteq Ptr /\ s.qht \subseteq Content
  <1>1. /\ s = [info |-> s.info, index |-> s.index, kw |-> s.kw, qht |-> s.qht]
        /\ s.info \in Objects /\ s.index \subseteq [path : SharePath, ptr : Ptr]
        /\ s.kw \subseteq Ptr /\ s.qht \subseteq Content
      BY DEF Index
  <1> QED
      BY <1>1, ObjectsAre

\* The objects are replaced.
LEMMA ObjectsReplaced ==
  ASSUME NEW s \in Index, NEW a
  PROVE  [s EXCEPT !.info = a] = [info |-> a, index |-> s.index, kw |-> s.kw, qht |-> s.qht]
  <1>1. s \in [info : Objects, index : SUBSET [path : SharePath, ptr : Ptr], kw : SUBSET Ptr, qht : SUBSET Content]
      BY DEF Index
  <1> QED
      BY <1>1

\* Three parts are replaced.
LEMMA Replaced ==
  ASSUME NEW s \in Index, NEW a, NEW b, NEW c
  PROVE  [s EXCEPT !.info = a, !.kw = b, !.index = c] = [info |-> a, index |-> c, kw |-> b, qht |-> s.qht]
  <1> DEFINE x == [info |-> a, index |-> s.index, kw |-> s.kw, qht |-> s.qht]
             y == [info |-> a, index |-> s.index, kw |-> b, qht |-> s.qht]
  <1>1. [s EXCEPT !.info = a] = x
      BY ObjectsReplaced, Zenon
  <1>2. [x EXCEPT !.kw = b] = y
      OBVIOUS
  <1>3. [y EXCEPT !.index = c] = [info |-> a, index |-> c, kw |-> b, qht |-> s.qht]
      OBVIOUS
  <1>4. [[[s EXCEPT !.info = a] EXCEPT !.kw = b] EXCEPT !.index = c] = [y EXCEPT !.index = c]
    <2> HIDE DEF x, y
    <2> QED
        BY <1>1, <1>2
  <1>5. [s EXCEPT !.info = a, !.kw = b, !.index = c] = [[[s EXCEPT !.info = a] EXCEPT !.kw = b] EXCEPT !.index = c]
      OBVIOUS
  <1> QED
      BY <1>3, <1>4, <1>5, Zenon

\* What a path leads to.
LEMMA AtIs ==
  ASSUME NEW s, Agree(s)
  PROVE  /\ \A e \in s.index : /\ At(s, e.path) = e.ptr /\ e = [path |-> e.path, ptr |-> e.ptr]
                               /\ e.path \in SharePath /\ e.ptr \in Ptr /\ e.path \in PathsOf(s)
         /\ \A p \in PathsOf(s) : /\ [path |-> p, ptr |-> At(s, p)] \in s.index
                                  /\ At(s, p) \in DOMAIN s.info /\ At(s, p) \in Ptr
                                  /\ s.info[At(s, p)].path = p /\ p \in SharePath
  <1>1. s \in Index /\ s.index \subseteq [path : SharePath, ptr : Ptr]
      BY IndexIs DEF Agree
  <1>2. ASSUME NEW e \in s.index
        PROVE  /\ At(s, e.path) = e.ptr /\ e = [path |-> e.path, ptr |-> e.ptr]
               /\ e.path \in SharePath /\ e.ptr \in Ptr /\ e.path \in PathsOf(s)
    <2> DEFINE f == CHOOSE x \in s.index : x.path = e.path
    <2>1. f \in s.index /\ f.path = e.path
        OBVIOUS
    <2>2. f = e
        BY <2>1 DEF Agree
    <2>3. At(s, e.path) = e.ptr
        BY <2>2 DEF At
    <2>4. e \in [path : SharePath, ptr : Ptr]
        BY <1>1
    <2> QED
        BY <2>3, <2>4 DEF PathsOf
  <1>3. ASSUME NEW p \in PathsOf(s)
        PROVE  /\ [path |-> p, ptr |-> At(s, p)] \in s.index
               /\ At(s, p) \in DOMAIN s.info /\ At(s, p) \in Ptr
               /\ s.info[At(s, p)].path = p /\ p \in SharePath
    <2>1. PICK e \in s.index : e.path = p
        BY DEF PathsOf
    <2>2. At(s, p) = e.ptr /\ e = [path |-> p, ptr |-> e.ptr] /\ e.ptr \in Ptr /\ p \in SharePath
        BY <1>2, <2>1
    <2>3. e.ptr \in DOMAIN s.info /\ s.info[e.ptr].path = p
        BY <2>1 DEF Agree
    <2> QED
        BY <2>2, <2>3
  <1> QED
      BY <1>2, <1>3

\* An object at an address.
LEMMA WithIs ==
  ASSUME NEW f \in Objects, NEW p \in Ptr, NEW i \in FileInfo
  PROVE  /\ With(f, p, i) \in Objects /\ DOMAIN With(f, p, i) = DOMAIN f \cup {p}
         /\ With(f, p, i)[p] = i /\ \A q \in DOMAIN f : q # p => With(f, p, i)[q] = f[q]
  <1> DEFINE g == With(f, p, i)
  <1>1. DOMAIN f \subseteq Ptr /\ \A q \in DOMAIN f : f[q] \in FileInfo
      BY ObjectsAre
  <1>2. g = [x \in DOMAIN f \cup {p} |-> IF x = p THEN i ELSE f[x]]
      BY DEF With
  <1>3. /\ DOMAIN g = DOMAIN f \cup {p} /\ g[p] = i /\ \A q \in DOMAIN f : q # p => g[q] = f[q]
        /\ g = [x \in DOMAIN g |-> g[x]]
      BY <1>2
  <1> HIDE DEF g
  <1>4. g \in Objects
    <2>1. DOMAIN g \subseteq Ptr
        BY <1>1, <1>3
    <2>2. \A x \in DOMAIN g : g[x] \in FileInfo
        BY <1>1, <1>3
    <2> QED
        BY <1>3, <2>1, <2>2, ObjectsAre
  <1> QED
      BY <1>3, <1>4 DEF g

\* A new object under a path that is free.
LEMMA PutKeeps ==
  ASSUME NEW s, Agree(s), NEW p \in Ptr, p \notin DOMAIN s.info, NEW i \in FileInfo, CanPut(s, i)
  PROVE  LET t == Put(s, p, i) IN
         /\ Agree(t) /\ t.index = s.index \cup {[path |-> i.path, ptr |-> p]} /\ t.qht = s.qht
         /\ DOMAIN t.info = DOMAIN s.info \cup {p} /\ t.info[p] = i
         /\ \A q \in DOMAIN s.info : t.info[q] = s.info[q]
  <1> DEFINE e == [path |-> i.path, ptr |-> p]
             g == With(s.info, p, i)
             t == [info |-> g, index |-> s.index \cup {e}, kw |-> s.kw \cup {p}, qht |-> s.qht]
  <1>1. s \in Index /\ s.info \in Objects
      BY DEF Agree, Index
  <1>2. Put(s, p, i) = t
      BY <1>1, Replaced, Zenon DEF Put
  <1>3. /\ g \in Objects /\ DOMAIN g = DOMAIN s.info \cup {p}
        /\ g[p] = i /\ \A q \in DOMAIN s.info : g[q] = s.info[q]
    <2>1. /\ g \in Objects /\ DOMAIN g = DOMAIN s.info \cup {p}
          /\ g[p] = i /\ \A q \in DOMAIN s.info : q # p => g[q] = s.info[q]
        BY <1>1, WithIs, Zenon
    <2> QED
        BY <2>1
  <1>4. i.path \in SharePath /\ e \in [path : SharePath, ptr : Ptr]
      BY DEF FileInfo
  <1>5. e.path = i.path /\ e.ptr = p
      OBVIOUS
  <1>6. \A f \in s.index : f.path # i.path /\ f.ptr \in DOMAIN s.info
      BY DEF CanPut, PathsOf, Agree
  <1> HIDE DEF g, e
  <1>7. t.info = g /\ t.index = s.index \cup {e} /\ t.kw = s.kw \cup {p} /\ t.qht = s.qht
      OBVIOUS
  <1>8. t \in Index
      BY <1>1, <1>3, <1>4, IndexIs DEF Index
  <1> HIDE DEF t
  <1>9. \A f \in t.index : f.ptr \in DOMAIN t.info /\ t.info[f.ptr].path = f.path
      BY <1>3, <1>5, <1>6, <1>7 DEF Agree
  <1>10. \A f, h \in t.index : f.path = h.path => f = h
      BY <1>5, <1>6, <1>7 DEF Agree
  <1>11. t.kw = {f.ptr : f \in t.index} /\ DOMAIN t.info = t.kw
      BY <1>3, <1>5, <1>7 DEF Agree
  <1>12. Agree(t)
      BY <1>8, <1>9, <1>10, <1>11 DEF Agree
  <1> QED
      BY <1>2, <1>3, <1>7, <1>12 DEF e

\* Objects leave.
LEMMA DropKeeps ==
  ASSUME NEW s, Agree(s), NEW P
  PROVE  LET t == Drop(s, P) IN
         /\ Agree(t) /\ t.index = {e \in s.index : e.ptr \notin P} /\ t.qht = s.qht
         /\ DOMAIN t.info = DOMAIN s.info \ P
         /\ \A q \in DOMAIN t.info : t.info[q] = s.info[q]
         /\ Passes(s) => Passes(t)
  <1> DEFINE g == [q \in DOMAIN s.info \ P |-> s.info[q]]
             t == [info |-> g, index |-> {e \in s.index : e.ptr \notin P}, kw |-> s.kw \ P, qht |-> s.qht]
  <1>1. s \in Index
      BY DEF Agree
  <1>2. Drop(s, P) = t
      BY <1>1, Replaced, Zenon DEF Drop, Restrict
  <1>3. DOMAIN g = DOMAIN s.info \ P /\ \A q \in DOMAIN g : g[q] = s.info[q]
      OBVIOUS
  <1>4. g = [q \in DOMAIN g |-> g[q]]
      OBVIOUS
  <1> HIDE DEF g
  <1>5. t.info = g /\ t.index = {e \in s.index : e.ptr \notin P} /\ t.kw = s.kw \ P /\ t.qht = s.qht
      OBVIOUS
  <1>6. g \in Objects
      BY <1>1, <1>3, <1>4, IndexIs, ObjectsAre
  <1>7. t \in Index
    <2>1. t.index \subseteq [path : SharePath, ptr : Ptr] /\ t.kw \subseteq Ptr /\ t.qht \subseteq Content
        BY <1>1, <1>5, IndexIs
    <2> QED
        BY <1>5, <1>6, <2>1 DEF Index
  <1> HIDE DEF t
  <1>8. \A f \in t.index : f.ptr \in DOMAIN t.info /\ t.info[f.ptr].path = f.path
      BY <1>3, <1>5 DEF Agree
  <1>9. \A f, h \in t.index : f.path = h.path => f = h
      BY <1>5 DEF Agree
  <1>10. t.kw = {f.ptr : f \in t.index} /\ DOMAIN t.info = t.kw
      BY <1>3, <1>5 DEF Agree
  <1>11. Agree(t)
      BY <1>7, <1>8, <1>9, <1>10 DEF Agree
  <1>12. Passes(s) => Passes(t)
      BY <1>3, <1>5, <1>8 DEF Passes
  <1> QED
      BY <1>2, <1>3, <1>5, <1>11, <1>12

\* An object changes under its path.
LEMMA SetKeeps ==
  ASSUME NEW s, Agree(s), NEW p \in DOMAIN s.info, NEW i \in FileInfo, i.path = s.info[p].path
  PROVE  LET t == [s EXCEPT !.info = With(s.info, p, i)] IN
         /\ Agree(t) /\ t.index = s.index /\ t.qht = s.qht /\ DOMAIN t.info = DOMAIN s.info
         /\ t.info[p] = i /\ \A q \in DOMAIN s.info : q # p => t.info[q] = s.info[q]
  <1> DEFINE g == With(s.info, p, i)
             t == [info |-> g, index |-> s.index, kw |-> s.kw, qht |-> s.qht]
  <1>1. s \in Index /\ s.info \in Objects /\ p \in Ptr
      BY IndexIs DEF Agree, Index
  <1>2. [s EXCEPT !.info = With(s.info, p, i)] = t
      BY <1>1, ObjectsReplaced, Zenon
  <1>3. /\ g \in Objects /\ DOMAIN g = DOMAIN s.info
        /\ g[p] = i /\ \A q \in DOMAIN s.info : q # p => g[q] = s.info[q]
    <2>1. DOMAIN g = DOMAIN s.info \cup {p}
        BY <1>1, WithIs
    <2>2. DOMAIN s.info \cup {p} = DOMAIN s.info
        OBVIOUS
    <2> QED
        BY <1>1, <2>1, <2>2, WithIs
  <1> HIDE DEF g
  <1>4. t.info = g /\ t.index = s.index /\ t.kw = s.kw /\ t.qht = s.qht
      OBVIOUS
  <1>5. t \in Index
      BY <1>1, <1>3, IndexIs DEF Index
  <1> HIDE DEF t
  <1>6. \A f \in t.index : f.ptr \in DOMAIN t.info /\ t.info[f.ptr].path = f.path
      BY <1>3, <1>4 DEF Agree
  <1>7. Agree(t)
      BY <1>3, <1>4, <1>5, <1>6 DEF Agree
  <1> QED
      BY <1>2, <1>3, <1>4, <1>7

\* There is an address for a new object as long as there is a path for it.
LEMMA FreshIs ==
  ASSUME NEW s, Agree(s), NEW x \in SharePath, x \notin PathsOf(s)
  PROVE  /\ Fresh(s) \in Ptr /\ Fresh(s) \notin DOMAIN s.info
         /\ dl.status # "none" => Fresh(s) # dl.ptr
  <1> DEFINE D == DOMAIN s.info
             T == SharePath \ {x}
             f == [p \in D |-> s.info[p].path]
  <1>1. D = {e.ptr : e \in s.index} /\ D \subseteq Ptr
      BY IndexIs DEF Agree
  <1>2. IsFiniteSet(SharePath) /\ Cardinality(SharePath) = Paths + 1
    <2>1. SharePath = 0 .. Paths
        BY PathsAssumption DEF SharePath, Shared, Inc
    <2>2. 0 \in Int /\ Paths \in Int /\ ~(0 > Paths) /\ Paths - 0 + 1 = Paths + 1
        BY PathsAssumption
    <2> QED
        BY <2>1, <2>2, FS_Interval
  <1>3. IsFiniteSet(T) /\ Cardinality(T) = Paths
    <2>1. IsFiniteSet(T) /\ Cardinality(T) = Cardinality(SharePath) - 1
        BY <1>2, FS_RemoveElement
    <2> QED
        BY <1>2, <2>1, PathsAssumption
  <1>4. f \in Injection(D, T)
    <2>1. ASSUME NEW p \in D
          PROVE  f[p] \in T /\ \A q \in D : f[p] = f[q] => p = q
      <3>1. PICK e \in s.index : e.ptr = p
          BY <1>1
      <3>2. s.info[p].path = e.path /\ e.path \in SharePath /\ e.path \in PathsOf(s)
          BY <3>1, AtIs DEF Agree
      <3>3. ASSUME NEW q \in D, s.info[q].path = e.path
            PROVE  p = q
        <4>1. PICK h \in s.index : h.ptr = q
            BY <1>1
        <4>2. h.path = e.path
            BY <3>3, <4>1 DEF Agree
        <4>3. h = e
            BY <4>2 DEF Agree
        <4> QED
            BY <3>1, <4>1, <4>3
      <3> QED
          BY <3>2, <3>3
    <2>2. f \in [D -> T]
        BY <2>1
    <2> HIDE DEF f
    <2> QED
        BY <2>1, <2>2 DEF Injection, IsInjective
  <1> HIDE DEF f, T
  <1>5. IsFiniteSet(D) /\ Cardinality(D) \in Nat /\ Cardinality(D) <= Paths
    <2>1. IsFiniteSet(D) /\ Cardinality(D) <= Paths
        BY <1>3, <1>4, FS_Injection
    <2> QED
        BY <2>1, FS_CardinalityType
  <1>6. \E p \in Ptr : p \notin D /\ p # dl.ptr
    <2>1. IsFiniteSet(D \cup {dl.ptr}) /\ Cardinality(D \cup {dl.ptr}) <= Paths + 1
      <3>1. /\ IsFiniteSet(D \cup {dl.ptr})
            /\ Cardinality(D \cup {dl.ptr}) = IF dl.ptr \in D THEN Cardinality(D) ELSE Cardinality(D) + 1
          BY <1>5, FS_AddElement
      <3> HIDE DEF D
      <3> QED
          BY <1>5, <3>1, PathsAssumption
    <2>2. ~(Ptr \subseteq D \cup {dl.ptr})
      <3>1. ASSUME Ptr \subseteq D \cup {dl.ptr}
            PROVE  FALSE
        <4>1. Cardinality(Ptr) <= Cardinality(D \cup {dl.ptr})
            BY <2>1, <3>1, FS_Subset
        <4>2. Cardinality(D \cup {dl.ptr}) \in Nat /\ Cardinality(Ptr) \in Nat
            BY <2>1, PtrAssumption, FS_CardinalityType
        <4> QED
            BY <2>1, <4>1, <4>2, PtrAssumption, PathsAssumption
      <3> QED
          BY <3>1
    <2> QED
        BY <2>2
  <1>7. \E p \in Ptr : p \notin DOMAIN s.info /\ (dl.status = "none" \/ p # dl.ptr)
      BY <1>6
  <1> QED
      BY <1>7 DEF Fresh

\* What of the index is there already, and what is new.
Grown(s, t, I) ==
  /\ Agree(t) /\ t.qht = s.qht /\ s.index \subseteq t.index
  /\ \A e \in s.index : t.info[e.ptr] = s.info[e.ptr]
  /\ \A e \in t.index : e \in s.index \/ t.info[e.ptr] \in I

\* One more object, or none when the path is there already.
LEMMA OneMore ==
  ASSUME NEW s, NEW t, NEW I \in SUBSET FileInfo, Grown(s, t, I), NEW i \in I
  PROVE  Grown(s, Put(t, Fresh(t), i), I)
  <1> DEFINE p == Fresh(t)
             u == Put(t, p, i)
  <1>1. CASE ~CanPut(t, i)
      BY <1>1 DEF Put
  <1>2. CASE CanPut(t, i)
    <2>1. Agree(t) /\ i \in FileInfo /\ i.path \in SharePath /\ i.path \notin PathsOf(t)
        BY <1>2 DEF Grown, CanPut, FileInfo
    <2>2. p \in Ptr /\ p \notin DOMAIN t.info
        BY <2>1, FreshIs
    <2> HIDE DEF p
    <2>3. /\ Agree(u) /\ u.index = t.index \cup {[path |-> i.path, ptr |-> p]} /\ u.qht = t.qht
          /\ u.info[p] = i /\ \A q \in DOMAIN t.info : u.info[q] = t.info[q]
        BY <1>2, <2>1, <2>2, PutKeeps
    <2> HIDE DEF u
    <2>4. \A e \in t.index : e.ptr \in DOMAIN t.info
        BY <2>1 DEF Agree
    <2>5. \A e \in s.index : u.info[e.ptr] = s.info[e.ptr]
        BY <2>3, <2>4 DEF Grown
    <2>6. \A e \in u.index : e \in s.index \/ u.info[e.ptr] \in I
        BY <2>3, <2>4 DEF Grown
    <2>7. Grown(s, u, I)
        BY <2>3, <2>5, <2>6 DEF Grown
    <2> QED
        BY <2>7 DEF u, p
  <1> QED
      BY <1>1, <1>2

\* All of the new objects, in whichever order.
LEMMA AddAllKeeps ==
  ASSUME NEW s, Agree(s), NEW I \in SUBSET FileInfo, IsFiniteSet(I)
  PROVE  Grown(s, AddAll(s, I), I)
  <1> DEFINE Is_(f) == f = [R \in SUBSET I |-> IF R = {} THEN s
                                ELSE Put(f[R \ {AnyOf(R)}], Fresh(f[R \ {AnyOf(R)}]), AnyOf(R))]
             iter == CHOOSE f : Is_(f)
             step == [i \in I |-> [v \in Index |-> Put(v, Fresh(v), i)]]
  <1>1. AddAll(s, I) = iter[I]
      BY DEF AddAll, FoldSet, MapThenFoldSet, AnyOf
  <1>2. \A R \in SUBSET I : R # {} => AnyOf(R) \in R
      BY Zenon DEF AnyOf
  <1>3. Grown(s, s, I)
      BY DEF Grown
  <1>4. \A v : Grown(s, v, I) => v \in Index
      BY DEF Grown, Agree
  <1>5. PICK g : IsFold(g, I, s, step)
    <2> HIDE DEF step
    <2> QED
        BY FoldExists, Zenon
  <1>6. /\ g = [R \in SUBSET I |-> g[R]]
        /\ g[{}] = s
        /\ \A R \in SUBSET I : R # {} => g[R] = step[AnyOf(R)][g[R \ {AnyOf(R)}]]
      BY <1>5, Zenon DEF IsFold
  <1>7. \A i \in I, v \in Index : step[i][v] = Put(v, Fresh(v), i)
      OBVIOUS
  <1> HIDE DEF step
  <1>8. \A R \in SUBSET I : Grown(s, g[R], I)
    <2> DEFINE G == {R \in SUBSET I : Grown(s, g[R], I)}
    <2>1. ASSUME NEW R \in SUBSET I, \A i \in R : R \ {i} \in G
          PROVE  R \in G
      <3>1. CASE R = {}
          BY <1>3, <1>6, <3>1
      <3>2. CASE R # {}
        <4> DEFINE i == AnyOf(R)
                   v == g[R \ {i}]
        <4>1. i \in R /\ i \in I
            BY <1>2, <3>2
        <4>2. Grown(s, v, I)
            BY <2>1, <4>1
        <4>3. g[R] = step[i][v]
            BY <1>6, <3>2
        <4> HIDE DEF i, v
        <4>4. g[R] = Put(v, Fresh(v), i)
            BY <1>4, <1>7, <4>1, <4>2, <4>3
        <4>5. Grown(s, g[R], I)
            BY <4>1, <4>2, <4>4, OneMore
        <4> QED
            BY <4>5
      <3> QED
          BY <3>1, <3>2
    <2> HIDE DEF G
    <2>2. \A R \in SUBSET I : R \in G
        BY <2>1, SubsetsOf
    <2> QED
        BY <2>2 DEF G
  <1>9. Is_(g)
    <2>1. ASSUME NEW R \in SUBSET I
          PROVE  g[R] = IF R = {} THEN s
                        ELSE Put(g[R \ {AnyOf(R)}], Fresh(g[R \ {AnyOf(R)}]), AnyOf(R))
      <3>1. CASE R = {}
          BY <1>6, <3>1
      <3>2. CASE R # {}
        <4> DEFINE i == AnyOf(R)
                   v == g[R \ {i}]
        <4>1. i \in I /\ g[R] = step[i][v]
            BY <1>2, <1>6, <3>2
        <4>2. v \in Index
            BY <1>4, <1>8
        <4> HIDE DEF i, v
        <4>3. g[R] = Put(v, Fresh(v), i)
            BY <1>7, <4>1, <4>2
        <4> QED
            BY <3>2, <4>3 DEF i, v
      <3> QED
          BY <3>1, <3>2
    <2> QED
        BY <1>6, <2>1, Zenon
  <1>10. Is_(iter)
      BY <1>9
  <1> HIDE DEF Is_, iter
  <1>11. \A R \in SUBSET I : iter[R] = IF R = {} THEN s
                             ELSE Put(iter[R \ {AnyOf(R)}], Fresh(iter[R \ {AnyOf(R)}]), AnyOf(R))
      BY <1>10 DEF Is_
  <1>12. \A R \in SUBSET I : Grown(s, iter[R], I)
    <2> DEFINE G == {R \in SUBSET I : Grown(s, iter[R], I)}
    <2>1. ASSUME NEW R \in SUBSET I, \A i \in R : R \ {i} \in G
          PROVE  R \in G
      <3>1. CASE R = {}
          BY <1>3, <1>11, <3>1
      <3>2. CASE R # {}
        <4> DEFINE i == AnyOf(R)
                   v == iter[R \ {i}]
        <4>1. i \in R /\ i \in I
            BY <1>2, <3>2
        <4>2. Grown(s, v, I)
            BY <2>1, <4>1
        <4>3. iter[R] = Put(v, Fresh(v), i)
            BY <1>11, <3>2
        <4> HIDE DEF i, v
        <4>4. Grown(s, iter[R], I)
            BY <4>1, <4>2, <4>3, OneMore
        <4> QED
            BY <4>4
      <3> QED
          BY <3>1, <3>2
    <2> HIDE DEF G
    <2>2. \A R \in SUBSET I : R \in G
        BY <2>1, SubsetsOf
    <2> QED
        BY <2>2 DEF G
  <1>13. Grown(s, iter[I], I)
      BY <1>12
  <1> QED
      BY <1>1, <1>13

\* The query hash table is another one.
LEMMA TableKeeps ==
  ASSUME NEW s, Agree(s), NEW Q \in SUBSET Content
  PROVE  LET t == [s EXCEPT !.qht = Q] IN
         Agree(t) /\ t.info = s.info /\ t.index = s.index /\ t.kw = s.kw /\ t.qht = Q
  <1> DEFINE t == [s EXCEPT !.qht = Q]
  <1>1. s \in Index
      BY DEF Agree
  <1>2. t \in Index /\ t.info = s.info /\ t.index = s.index /\ t.kw = s.kw /\ t.qht = Q
      BY <1>1 DEF Index
  <1> HIDE DEF t
  <1>3. Agree(t)
      BY <1>2 DEF Agree
  <1> QED
      BY <1>2, <1>3 DEF t

\* UpdateQHT of one object, and of all.
LEMMA QueriesKeep ==
  ASSUME NEW s, Agree(s)
  PROVE  /\ \A p \in DOMAIN s.info : LET t == UpdateQHT(s, p) IN
              /\ Agree(t) /\ t.info = s.info /\ t.index = s.index
              /\ t.qht = s.qht \cup {s.info[p].hash}
         /\ LET t == Requery(s) IN Agree(t) /\ Passes(t) /\ t.info = s.info /\ t.index = s.index
  <1>1. s \in Index /\ s.qht \subseteq Content /\ \A p \in DOMAIN s.info : s.info[p].hash \in Content
      BY IndexIs DEF Agree, FileInfo
  <1>2. ASSUME NEW p \in DOMAIN s.info
        PROVE  LET t == UpdateQHT(s, p) IN
               /\ Agree(t) /\ t.info = s.info /\ t.index = s.index
               /\ t.qht = s.qht \cup {s.info[p].hash}
    <2>1. s.qht \cup {s.info[p].hash} \in SUBSET Content
        BY <1>1
    <2> QED
        BY <2>1, TableKeeps, Zenon DEF UpdateQHT
  <1>3. LET t == Requery(s) IN Agree(t) /\ Passes(t) /\ t.info = s.info /\ t.index = s.index
    <2> DEFINE Q == {s.info[e.ptr].hash : e \in s.index}
               t == Requery(s)
    <2>1. Q \in SUBSET Content
        BY <1>1 DEF Agree
    <2>2. Agree(t) /\ t.info = s.info /\ t.index = s.index /\ t.qht = Q
        BY <2>1, TableKeeps, Zenon DEF Requery
    <2> HIDE DEF t
    <2>3. Passes(t)
        BY <2>2 DEF Passes
    <2> QED
        BY <2>2, <2>3 DEF t
  <1> QED
      BY <1>2, <1>3

\* The index becomes another one.
LEMMA BecomesIs ==
  ASSUME NEW t \in Index, Become(t)
  PROVE  Now' = t
  <1>1. info' = t.info /\ index' = t.index /\ kw' = t.kw /\ qht' = t.qht
      BY DEF Become
  <1>2. Now' = [info |-> t.info, index |-> t.index, kw |-> t.kw, qht |-> t.qht]
      BY <1>1 DEF Now
  <1> QED
      BY <1>2, IndexIs

\* A hash that is under way.
Hashing == [kind : {"hash", "hashed"}, path : SharePath, hash : Content]

\* What is swept out before the next file is hashed is not the download.
LEMMA HashSomethingKeeps ==
  ASSUME NEW s, Agree(s), Passes(s), Serves(s, dl), HashSomething(s)
  PROVE  /\ Agree(Now') /\ Passes(Now') /\ Serves(Now', dl)
         /\ work' \in [kind : {"none"}] \cup Hashing
  <1> DEFINE there == {p \in Due(s) : disk[p] # Empty}
             gone  == {p \in Due(s) \ there : \A q \in there : p < q}
             P     == {At(s, p) : p \in gone}
             t     == Drop(s, P)
             u     == Requery(t)
  <1>1. Due(s) \subseteq PathsOf(s) /\ Inc \notin Due(s) /\ Due(s) \subseteq SharePath
      BY AtIs DEF Due
  <1>2. /\ Agree(t) /\ t.index = {e \in s.index : e.ptr \notin P}
        /\ DOMAIN t.info = DOMAIN s.info \ P /\ \A q \in DOMAIN t.info : t.info[q] = s.info[q]
        /\ Passes(t)
      BY DropKeeps
  <1>3. Serves(t, dl)
    <2>1. SUFFICES ASSUME dl.status # "none"
                   PROVE  [path |-> Inc, ptr |-> dl.ptr] \in t.index /\ t.info[dl.ptr].partial
        BY DEF Serves
    <2> DEFINE e == [path |-> Inc, ptr |-> dl.ptr]
    <2>2. e \in s.index /\ s.info[dl.ptr].partial /\ e.path = Inc /\ e.ptr = dl.ptr
        BY <2>1 DEF Serves
    <2>3. dl.ptr \in DOMAIN s.info /\ s.info[dl.ptr].path = Inc
        BY <2>2 DEF Agree
    <2>4. dl.ptr \notin P
      <3>1. ASSUME NEW p \in gone, dl.ptr = At(s, p)
            PROVE  FALSE
        <4>1. p \in PathsOf(s) /\ p # Inc
            BY <1>1
        <4>2. s.info[At(s, p)].path = p
            BY <4>1, AtIs
        <4> QED
            BY <2>3, <3>1, <4>1, <4>2
      <3> QED
          BY <3>1
    <2> HIDE DEF e, t, P
    <2>5. e \in t.index /\ dl.ptr \in DOMAIN t.info
        BY <1>2, <2>2, <2>3, <2>4
    <2> QED
        BY <1>2, <2>2, <2>5 DEF e
  <1>4. Agree(u) /\ Passes(u) /\ Serves(u, dl)
    <2>1. Agree(u) /\ Passes(u) /\ u.info = t.info /\ u.index = t.index
        BY <1>2, QueriesKeep
    <2> HIDE DEF u, t
    <2> QED
        BY <1>3, <2>1 DEF Serves
  <1>5. /\ Become(t) \/ Become(u)
        /\ \/ work' = NoWork
           \/ there # {} /\ work' = [kind |-> "hash", path |-> Min(there), hash |-> Empty]
      BY DEF HashSomething
  <1>6. t \in Index /\ u \in Index
      BY <1>2, <1>4 DEF Agree
  <1>7. Agree(Now') /\ Passes(Now') /\ Serves(Now', dl)
    <2> HIDE DEF t, u
    <2>1. CASE Become(t)
      <3>1. Now' = t
          BY <1>6, <2>1, BecomesIs
      <3> QED
          BY <1>2, <1>3, <3>1
    <2>2. CASE Become(u)
      <3>1. Now' = u
          BY <1>6, <2>2, BecomesIs
      <3> QED
          BY <1>4, <3>1
    <2> QED
        BY <1>5, <2>1, <2>2
  <1>8. work' \in [kind : {"none"}] \cup Hashing
    <2>1. there # {} => Min(there) \in SharePath
      <3>1. ASSUME there # {}
            PROVE  Min(there) \in there
        <4>1. there \subseteq Nat
            BY <1>1, PathsAssumption DEF SharePath, Shared, Inc
        <4> HIDE DEF there
        <4>2. \E n \in there : \A m \in there : n <= m
            BY <3>1, <4>1, NatMin
        <4> QED
            BY <4>2 DEF Min
      <3> QED
          BY <1>1, <3>1
    <2> HIDE DEF there
    <2>2. Empty \in Content
        BY DEF Content
    <2> QED
        BY <1>5, <2>1, <2>2 DEF NoWork, Hashing
  <1> QED
      BY <1>7, <1>8

-----------------------------------------------------------------------------
(* The invariant.                                                            *)

Scan      == [kind : {"scan"}, validate : SUBSET SharePath, todo : SUBSET SharePath, found : SUBSET SharePath]
Downloads == [status : {"none", "list", "copy", "copying", "copied", "failed", "error"}, ptr : Ptr, to : SharePath]
Records   == [path : SharePath, due : BOOLEAN, hash : Content]

\* The types of what is not the index.
Typed == /\ disk \in [SharePath -> Content]
         /\ work \in [kind : {"none"}] \cup Scan \cup Hashing
         /\ dl \in Downloads /\ (dl.status = "none" => dl = NoDownload)
         /\ saved \subseteq Records
         /\ up \in BOOLEAN
         /\ changes \in 0 .. MaxChanges /\ moves \in 0 .. MaxMoves /\ restarts \in 0 .. MaxRestarts

\* The index is as it should be.
Indexes == Agree(Now) /\ Passes(Now) /\ Serves(Now, dl)

\* A scan does not find the file of a download.  It may look for it in vain only when the
\* index has an object of that path and there is no download: then none can be created.
Scanned == work.kind = "scan" => /\ work.todo \subseteq Shared /\ work.found \subseteq Shared
                                 /\ Inc \in work.validate => dl.status = "none" /\ Inc \in PathsOf(Now)

\* Nothing works while the program does not run.
Resting == ~up => work = NoWork

ShareInv == Typed /\ Indexes /\ Scanned /\ Resting

\* The parts of the index.
LEMMA NowIs == Now.info = info /\ Now.index = index /\ Now.kw = kw /\ Now.qht = qht
  BY DEF Now

\* The numbers of the bounds; no Work is no task.
LEMMA BoundsAre ==
  /\ MaxChanges \in Nat /\ MaxMoves \in Nat /\ MaxRestarts \in Nat /\ Paths \in Nat /\ Paths >= 1
  /\ NoWork \in [kind : {"none"}] /\ NoWork.kind = "none"
  /\ Inc \in SharePath /\ Inc \notin Shared /\ Shared \subseteq SharePath
  /\ \A c \in {Empty, Own, Loaded, Part} : c \in Content
  /\ NoDownload \in Downloads /\ NoDownload.status = "none"
  <1>1. MaxChanges \in Nat /\ MaxMoves \in Nat /\ MaxRestarts \in Nat /\ Paths \in Nat /\ Paths >= 1
      BY PathsAssumption
  <1>2. NoWork \in [kind : {"none"}] /\ NoWork.kind = "none"
      BY DEF NoWork
  <1>3. Inc \in SharePath /\ Inc \notin Shared /\ Shared \subseteq SharePath
      BY <1>1 DEF SharePath, Shared, Inc
  <1>4. \A c \in {Empty, Own, Loaded, Part} : c \in Content
      BY DEF Content
  <1>5. \E p \in Ptr : TRUE
    <2>1. Cardinality(Ptr) # 0
      <3>1. Cardinality(Ptr) \in Nat
          BY PtrAssumption, FS_CardinalityType
      <3> QED
          BY <1>1, <3>1, PtrAssumption
    <2> QED
        BY <2>1, PtrAssumption, FS_EmptySet
  <1>6. NoDownload \in Downloads /\ NoDownload.status = "none"
    <2> DEFINE p == CHOOSE q \in Ptr : TRUE
    <2>1. p \in Ptr
        BY <1>5
    <2>2. NoDownload = [status |-> "none", ptr |-> p, to |-> Inc]
        BY DEF NoDownload
    <2> HIDE DEF p
    <2> QED
        BY <1>3, <2>1, <2>2 DEF Downloads
  <1> QED
      BY <1>1, <1>2, <1>3, <1>4, <1>6

\* The index when nothing is known.
Blank == [info |-> <<>>, index |-> {}, kw |-> {}, qht |-> {}]

LEMMA BlankAgrees == Agree(Blank) /\ Passes(Blank)
  <1>1. <<>> \in Objects /\ DOMAIN <<>> = {}
    <2>1. <<>> \in [{} -> FileInfo] /\ DOMAIN <<>> = {}
        OBVIOUS
    <2> QED
        BY <2>1 DEF Objects
  <1>2. Blank.info = <<>> /\ Blank.index = {} /\ Blank.kw = {} /\ Blank.qht = {}
      BY DEF Blank
  <1>3. Blank \in Index
      BY <1>1 DEF Blank, Index
  <1>4. DOMAIN Blank.info = Blank.kw
      BY <1>1, <1>2
  <1> QED
      BY <1>2, <1>3, <1>4 DEF Agree, Passes

\* Nothing is known at first.
LEMMA ShareInitIsFine == ShareInit => ShareInv
  <1> SUFFICES ASSUME ShareInit PROVE ShareInv
      OBVIOUS
  <1>1. Typed
      BY BoundsAre DEF ShareInit, Typed
  <1>2. Now = Blank
      BY DEF ShareInit, Now, Blank
  <1>3. Indexes
      BY <1>2, BlankAgrees, BoundsAre DEF ShareInit, Indexes, Serves
  <1>4. Scanned /\ Resting
      BY BoundsAre DEF ShareInit, Scanned, Resting
  <1> QED
      BY <1>1, <1>3, <1>4 DEF ShareInv

\* When the index stays what it is, and so does what the download keeps of it.
LEMMA IndexStays ==
  ASSUME ShareInv, UNCHANGED <<info, index, kw, qht>>,
         dl'.status # "none" => dl.status # "none" /\ dl'.ptr = dl.ptr
  PROVE  Indexes' /\ Now' = Now /\ PathsOf(Now)' = PathsOf(Now)
  <1>1. Now' = Now
      BY DEF Now
  <1>2. PathsOf(Now)' = PathsOf(Now)
      BY <1>1 DEF PathsOf
  <1>3. Agree(Now)' /\ Passes(Now)'
      BY <1>1 DEF ShareInv, Indexes, Agree, Passes
  <1>4. Serves(Now, dl)'
      BY <1>1 DEF ShareInv, Indexes, Serves
  <1> QED
      BY <1>1, <1>2, <1>3, <1>4 DEF Indexes

\* What share.dat holds.
LEMMA SaveIs ==
  ASSUME NEW s, Agree(s)
  PROVE  SaveOf(s) \subseteq Records
  <1>1. ASSUME NEW e \in s.index
        PROVE  [path |-> s.info[e.ptr].path, due |-> s.info[e.ptr].due, hash |-> s.info[e.ptr].hash] \in Records
    <2>1. s.info[e.ptr] \in FileInfo
        BY IndexIs DEF Agree
    <2> QED
        BY <2>1 DEF FileInfo, Records
  <1> QED
      BY <1>1 DEF SaveOf

\* What the workers, the users of the disk and the timers do beside the index.
LEMMA QuietKeeps ==
  ASSUME ShareInv,
         \/ Sync \/ HashReads \/ Save \/ FileComplete \/ CopyOpens \/ CopyEnds \/ CopyFailed
         \/ UNCHANGED shareVars
         \/ \E p \in Shared : ScanPath(p) \/ UserWrites(p) \/ UserDeletes(p)
  PROVE  ShareInv'
  <1>1. /\ Typed /\ Scanned /\ Resting /\ Agree(Now) /\ Now.info = info /\ Now.index = index
        /\ Serves(Now, dl)
      BY NowIs DEF ShareInv, Indexes
  <1>2. CASE Sync
    <2> DEFINE V == {info[e.ptr].path : e \in {f \in index : ~info[f.ptr].partial}}
    <2>1. /\ up /\ work' = [kind |-> "scan", todo |-> Shared, found |-> {}, validate |-> V]
          /\ UNCHANGED <<disk, info, index, kw, qht, dl, saved, up, changes, moves, restarts>>
        BY <1>2 DEF Sync
    <2>2. V \subseteq SharePath /\ (Inc \in V => dl.status = "none" /\ Inc \in PathsOf(Now))
      <3>1. ASSUME NEW e \in index, ~info[e.ptr].partial
            PROVE  /\ info[e.ptr].path = e.path /\ e.path \in SharePath /\ e.path \in PathsOf(Now)
                   /\ e.path = Inc => dl.status = "none"
        <4>1. info[e.ptr].path = e.path /\ e.path \in SharePath /\ e.path \in PathsOf(Now)
            BY <1>1, AtIs DEF Agree
        <4>2. ASSUME e.path = Inc, dl.status # "none"
              PROVE  FALSE
          <5> DEFINE f == [path |-> Inc, ptr |-> dl.ptr]
          <5>1. f \in index /\ f.path = Inc /\ f.ptr = dl.ptr /\ info[dl.ptr].partial
              BY <1>1, <4>2 DEF Serves
          <5> HIDE DEF f
          <5>2. e = f
              BY <1>1, <4>2, <5>1 DEF Agree
          <5> QED
              BY <3>1, <5>1, <5>2
        <4> QED
            BY <4>1, <4>2
      <3> QED
          BY <3>1
    <2> HIDE DEF V
    <2>3. /\ work' \in Scan /\ work'.kind = "scan" /\ work'.validate = V
          /\ work'.todo = Shared /\ work'.found = {}
        BY <2>1, <2>2, BoundsAre DEF Scan
    <2>4. Indexes' /\ PathsOf(Now)' = PathsOf(Now)
        BY <2>1, IndexStays
    <2>5. Typed'
        BY <1>1, <2>1, <2>3 DEF Typed
    <2>6. Scanned' /\ Resting'
        BY <2>1, <2>2, <2>3, <2>4 DEF Scanned, Resting
    <2> QED
        BY <2>4, <2>5, <2>6 DEF ShareInv
  <1>3. ASSUME NEW p \in Shared, ScanPath(p)
        PROVE  ShareInv'
    <2> DEFINE found == IF disk[p] = Empty THEN work.found ELSE work.found \cup {p}
    <2>1. /\ work.kind = "scan" /\ work \in Scan
          /\ work' = [work EXCEPT !.todo = work.todo \ {p}, !.found = found]
          /\ UNCHANGED <<disk, info, index, kw, qht, dl, saved, up, changes, moves, restarts>>
      <3>1. work.kind = "scan" => work \in Scan
          BY <1>1 DEF Typed, Hashing
      <3> QED
          BY <1>3, <3>1 DEF ScanPath
    <2>2. p \in SharePath
        BY BoundsAre
    <2>3. /\ work' \in Scan /\ work'.kind = "scan" /\ work'.validate = work.validate
          /\ work'.todo = work.todo \ {p} /\ work'.found = found
        BY <2>1, <2>2 DEF Scan
    <2>4. Indexes' /\ PathsOf(Now)' = PathsOf(Now)
        BY <2>1, IndexStays
    <2>5. Typed'
        BY <1>1, <2>1, <2>3 DEF Typed
    <2>6. Scanned' /\ Resting'
        BY <1>1, <2>1, <2>3, <2>4, BoundsAre DEF Scanned, Resting
    <2> QED
        BY <2>4, <2>5, <2>6 DEF ShareInv
  <1>4. CASE HashReads
    <2>1. /\ work.kind = "hash" /\ work \in Hashing
          /\ UNCHANGED <<disk, info, index, kw, qht, dl, saved, up, moves, restarts>>
          /\ changes' \in 0 .. MaxChanges
          /\ \E h \in Content : work' = [work EXCEPT !.kind = "hashed", !.hash = h]
      <3>1. work.kind = "hash" => work \in Hashing
          BY <1>1 DEF Typed, Scan
      <3>2. work.kind = "hash" => disk[work.path] \in Content
          BY <1>1, <3>1 DEF Typed, Hashing
      <3>3. Empty \in Content
          BY BoundsAre
      <3>4. changes < MaxChanges => changes + 1 \in 0 .. MaxChanges
          BY <1>1, BoundsAre DEF Typed
      <3>5. changes \in 0 .. MaxChanges
          BY <1>1 DEF Typed
      <3> QED
          BY <1>4, <3>1, <3>2, <3>3, <3>4, <3>5 DEF HashReads
    <2>2. work' \in Hashing
        BY <2>1 DEF Hashing
    <2>3. work' # NoWork => up
        BY <1>1, <2>1, BoundsAre DEF Resting
    <2>4. work'.kind # "scan" /\ work # NoWork
        BY <2>1, <2>2, BoundsAre DEF Hashing
    <2>5. Indexes'
        BY <2>1, IndexStays
    <2>6. Typed'
        BY <1>1, <2>1, <2>2 DEF Typed
    <2>7. Scanned' /\ Resting'
        BY <1>1, <2>1, <2>4 DEF Scanned, Resting
    <2> QED
        BY <2>5, <2>6, <2>7 DEF ShareInv
  <1>5. CASE Save
    <2>1. UNCHANGED <<disk, info, index, kw, qht, work, dl, up, changes, moves, restarts>>
        BY <1>5 DEF Save
    <2>2. saved' \subseteq Records
        BY <1>1, <1>5, SaveIs DEF Save
    <2>3. Indexes' /\ PathsOf(Now)' = PathsOf(Now)
        BY <2>1, IndexStays
    <2> QED
        BY <1>1, <2>1, <2>2, <2>3 DEF ShareInv, Typed, Scanned, Resting
  <1>6. CASE FileComplete \/ CopyOpens \/ CopyEnds \/ CopyFailed
    <2>1. /\ UNCHANGED <<info, index, kw, qht, work, saved, up, changes, moves, restarts>>
          /\ dl \in Downloads /\ dl.status # "none" /\ disk \in [SharePath -> Content]
        BY <1>1, <1>6 DEF FileComplete, CopyOpens, CopyEnds, CopyFailed, Typed
    <2>2. dl' \in Downloads /\ dl'.ptr = dl.ptr /\ dl'.status # "none"
        BY <1>6, <2>1, BoundsAre DEF FileComplete, CopyOpens, CopyEnds, CopyFailed, Downloads
    <2>3. disk' \in [SharePath -> Content]
        BY <1>6, <2>1, BoundsAre DEF FileComplete, CopyOpens, CopyEnds, CopyFailed
    <2>4. Indexes' /\ PathsOf(Now)' = PathsOf(Now)
        BY <2>1, <2>2, IndexStays
    <2>5. Typed'
        BY <1>1, <2>1, <2>2, <2>3 DEF Typed
    <2>6. Scanned' /\ Resting'
        BY <1>1, <2>1, <2>4 DEF Scanned, Resting
    <2> QED
        BY <2>4, <2>5, <2>6 DEF ShareInv
  <1>7. ASSUME NEW p \in Shared, UserWrites(p) \/ UserDeletes(p)
        PROVE  ShareInv'
    <2>1. UNCHANGED <<info, index, kw, qht, work, dl, saved, up, moves, restarts>>
        BY <1>7 DEF UserWrites, UserDeletes
    <2>2. changes' \in 0 .. MaxChanges
        BY <1>1, <1>7, BoundsAre DEF UserWrites, UserDeletes, Typed
    <2>3. disk' \in [SharePath -> Content]
        BY <1>1, <1>7, BoundsAre DEF UserWrites, UserDeletes, Typed
    <2>4. Indexes' /\ PathsOf(Now)' = PathsOf(Now)
        BY <2>1, IndexStays
    <2> QED
        BY <1>1, <2>1, <2>2, <2>3, <2>4 DEF ShareInv, Typed, Scanned, Resting
  <1>8. CASE UNCHANGED shareVars
    <2>1. UNCHANGED <<disk, info, index, kw, qht, work, dl, saved, up, changes, moves, restarts>>
        BY <1>8 DEF shareVars
    <2>2. Indexes' /\ PathsOf(Now)' = PathsOf(Now)
        BY <2>1, IndexStays
    <2> QED
        BY <1>1, <2>1, <2>2 DEF ShareInv, Typed, Scanned, Resting
  <1> QED
      BY <1>2, <1>3, <1>4, <1>5, <1>6, <1>7, <1>8

\* The differences that a scan found are applied to an index in which the download still is.
LEMMA SyncedKeeps ==
  ASSUME ShareInv, work.kind = "scan"
  PROVE  Agree(Synced) /\ Passes(Synced) /\ Serves(Synced, dl)
  <1> DEFINE removed == (work.validate \ work.found) \cap PathsOf(Now)
             created == {p \in work.found \ work.validate : disk[p] # Empty}
             P == {At(Now, p) : p \in removed}
             I == {NewInfo(p) : p \in created}
             t == Drop(Now, P)
             u == AddAll(t, I)
  <1>1. /\ Typed /\ Scanned /\ Agree(Now) /\ Passes(Now) /\ Serves(Now, dl)
      BY DEF ShareInv, Indexes
  <1>2. created \subseteq SharePath /\ IsFiniteSet(created)
    <2>1. created \subseteq Shared
        BY <1>1 DEF Scanned
    <2>2. created \subseteq 1 .. Paths
        BY <2>1 DEF Shared
    <2>3. IsFiniteSet(1 .. Paths)
        BY BoundsAre, FS_Interval
    <2> HIDE DEF created
    <2> QED
        BY <2>1, <2>2, <2>3, FS_Subset, BoundsAre
  <1>3. I \in SUBSET FileInfo /\ \A i \in I : i.hash = Empty
    <2>1. \A p \in SharePath : NewInfo(p) \in FileInfo /\ NewInfo(p).hash = Empty
        BY BoundsAre DEF NewInfo, FileInfo
    <2> HIDE DEF created
    <2> QED
        BY <1>2, <2>1
  <1>4. IsFiniteSet(I)
    <2> DEFINE f == [p \in created |-> NewInfo(p)]
    <2>1. f \in Surjection(created, I)
      <3>1. f \in [created -> I]
          OBVIOUS
      <3>2. \A i \in I : \E p \in created : f[p] = i
          OBVIOUS
      <3> HIDE DEF f, I, created
      <3> QED
          BY <3>1, <3>2 DEF Surjection
    <2> HIDE DEF f, I, created
    <2> QED
        BY <1>2, <2>1, FS_Surjection
  <1>5. /\ Agree(t) /\ t.index = {e \in index : e.ptr \notin P}
        /\ DOMAIN t.info = DOMAIN info \ P /\ \A q \in DOMAIN t.info : t.info[q] = info[q]
        /\ t.qht = qht /\ Passes(t)
      BY <1>1, NowIs, DropKeeps
  <1>6. Serves(t, dl)
    <2>1. SUFFICES ASSUME dl.status # "none"
                   PROVE  [path |-> Inc, ptr |-> dl.ptr] \in t.index /\ t.info[dl.ptr].partial
        BY DEF Serves
    <2> DEFINE e == [path |-> Inc, ptr |-> dl.ptr]
    <2>2. e \in index /\ info[dl.ptr].partial /\ e.path = Inc /\ e.ptr = dl.ptr
        BY <1>1, <2>1, NowIs DEF Serves
    <2>3. dl.ptr \in DOMAIN info /\ info[dl.ptr].path = Inc
        BY <1>1, <2>2, NowIs DEF Agree
    <2>4. Inc \notin removed
        BY <1>1, <2>1 DEF Scanned
    <2>5. dl.ptr \notin P
      <3>1. ASSUME NEW p \in removed, dl.ptr = At(Now, p)
            PROVE  FALSE
        <4>1. p \in PathsOf(Now) /\ p # Inc
            BY <2>4
        <4>2. info[At(Now, p)].path = p
            BY <1>1, <4>1, AtIs, NowIs
        <4> QED
            BY <2>3, <3>1, <4>1, <4>2
      <3> QED
          BY <3>1
    <2> HIDE DEF e, t, P
    <2>6. e \in t.index /\ dl.ptr \in DOMAIN t.info
        BY <1>5, <2>2, <2>3, <2>5
    <2> QED
        BY <1>5, <2>2, <2>6 DEF e
  <1> HIDE DEF t
  <1>7. Grown(t, u, I)
    <2> HIDE DEF I
    <2> QED
        BY <1>3, <1>4, <1>5, AddAllKeeps
  <1>8. Synced = u
      BY DEF Synced, t
  <1> HIDE DEF u, I
  <1>9. Agree(u) /\ u.qht = t.qht
      BY <1>7 DEF Grown
  <1>10. Passes(u)
      BY <1>3, <1>5, <1>7 DEF Grown, Passes
  <1>11. Serves(u, dl)
    <2>1. SUFFICES ASSUME dl.status # "none"
                   PROVE  [path |-> Inc, ptr |-> dl.ptr] \in u.index /\ u.info[dl.ptr].partial
        BY DEF Serves
    <2> DEFINE e == [path |-> Inc, ptr |-> dl.ptr]
    <2>2. e \in t.index /\ t.info[dl.ptr].partial /\ e.ptr = dl.ptr
        BY <1>6, <2>1 DEF Serves
    <2> HIDE DEF e
    <2> QED
        BY <1>7, <2>2 DEF Grown, e
  <1> QED
      BY <1>8, <1>9, <1>10, <1>11

\* The object that is under the path now is the one that gets the hashes.
LEMMA UpdatedKeeps ==
  ASSUME ShareInv, work.kind = "hashed"
  PROVE  Agree(Updated) /\ Passes(Updated) /\ Serves(Updated, dl)
  <1>1. /\ Typed /\ Agree(Now) /\ Passes(Now) /\ Serves(Now, dl)
      BY DEF ShareInv, Indexes
  <1>2. CASE work.path \notin PathsOf(Now)
      BY <1>1, <1>2 DEF Updated
  <1>3. CASE work.path \in PathsOf(Now)
    <2> DEFINE p == At(Now, work.path)
               i == [info[p] EXCEPT !.hash = work.hash, !.due = FALSE]
               t == [Now EXCEPT !.info = With(info, p, i)]
               u == UpdateQHT(t, p)
    <2>1. p \in DOMAIN info /\ info[p] \in FileInfo /\ info[p].path = work.path
      <3>1. p \in DOMAIN info /\ info[p].path = work.path
          BY <1>1, <1>3, AtIs, NowIs
      <3>2. \A q \in DOMAIN info : info[q] \in FileInfo
          BY <1>1, IndexIs, NowIs DEF Agree
      <3> QED
          BY <3>1, <3>2
    <2>2. work.hash \in Content
        BY <1>1 DEF Typed, Scan, Hashing
    <2> HIDE DEF p
    <2>3. i \in FileInfo /\ i.path = info[p].path /\ i.partial = info[p].partial /\ i.hash = work.hash
        BY <2>1, <2>2 DEF FileInfo
    <2> HIDE DEF i
    <2>4. /\ Agree(t) /\ t.index = index /\ t.qht = qht /\ DOMAIN t.info = DOMAIN info
          /\ t.info[p] = i /\ \A q \in DOMAIN info : q # p => t.info[q] = info[q]
      <3>1. Now.info = info /\ Now.index = index /\ Now.qht = qht
          BY NowIs
      <3> QED
          BY <1>1, <2>1, <2>3, <3>1, SetKeeps
    <2> HIDE DEF t
    <2>5. Agree(u) /\ u.info = t.info /\ u.index = index /\ u.qht = qht \cup {work.hash}
        BY <2>1, <2>3, <2>4, QueriesKeep
    <2>6. Updated = u
        BY <1>3 DEF Updated, t, i, p
    <2> HIDE DEF u
    <2>7. Passes(u)
        BY <1>1, <2>3, <2>4, <2>5, NowIs DEF Passes, Agree
    <2>8. Serves(u, dl)
      <3>1. SUFFICES ASSUME dl.status # "none"
                     PROVE  [path |-> Inc, ptr |-> dl.ptr] \in u.index /\ u.info[dl.ptr].partial
          BY DEF Serves
      <3> DEFINE e == [path |-> Inc, ptr |-> dl.ptr]
      <3>2. e \in index /\ info[dl.ptr].partial /\ e.ptr = dl.ptr
          BY <1>1, <3>1, NowIs DEF Serves
      <3>3. dl.ptr \in DOMAIN info
          BY <1>1, <3>2, NowIs DEF Agree
      <3> HIDE DEF e
      <3>4. u.info[dl.ptr].partial
          BY <2>3, <2>4, <2>5, <3>2, <3>3
      <3> QED
          BY <2>5, <3>2, <3>4 DEF e
    <2> QED
        BY <2>5, <2>6, <2>7, <2>8
  <1> QED
      BY <1>2, <1>3

\* The results of the Work.
LEMMA ResultsKeep ==
  ASSUME ShareInv, OnPathsSynced \/ OnHashed
  PROVE  ShareInv'
  <1>1. Typed /\ Resting /\ work # NoWork
      BY BoundsAre DEF ShareInv, OnPathsSynced, OnHashed
  <1>2. \E s : /\ Agree(s) /\ Passes(s) /\ Serves(s, dl) /\ HashSomething(s)
               /\ saved' = SaveOf(s) \/ saved' = saved
    <2>1. CASE OnPathsSynced
      <3>1. PICK s \in {Synced} : HashSomething(s) /\ saved' = SaveOf(s)
          BY <2>1 DEF OnPathsSynced
      <3>2. Agree(s) /\ Passes(s) /\ Serves(s, dl)
          BY <2>1, <3>1, SyncedKeeps DEF OnPathsSynced
      <3> QED
          BY <3>1, <3>2
    <2>2. CASE OnHashed
      <3>1. PICK s \in {Updated} : HashSomething(s)
          BY <2>2 DEF OnHashed
      <3>2. Agree(s) /\ Passes(s) /\ Serves(s, dl)
          BY <2>2, <3>1, UpdatedKeeps DEF OnHashed
      <3> QED
          BY <2>2, <3>1, <3>2 DEF OnHashed
    <2> QED
        BY <2>1, <2>2
  <1>3. PICK s : /\ Agree(s) /\ Passes(s) /\ Serves(s, dl) /\ HashSomething(s)
                 /\ saved' = SaveOf(s) \/ saved' = saved
      BY <1>2
  <1>4. UNCHANGED <<disk, dl, up, changes, moves, restarts>>
      BY DEF OnPathsSynced, OnHashed
  <1>5. /\ Agree(Now') /\ Passes(Now') /\ Serves(Now', dl)
        /\ work' \in [kind : {"none"}] \cup Hashing
      BY <1>3, HashSomethingKeeps
  <1>6. saved' \subseteq Records
      BY <1>1, <1>3, SaveIs DEF Typed
  <1>7. Indexes'
      BY <1>4, <1>5 DEF Indexes, Agree, Passes, Serves
  <1>8. Typed'
      BY <1>1, <1>4, <1>5, <1>6 DEF Typed
  <1>9. Scanned' /\ Resting'
    <2>1. up'
        BY <1>1, <1>4 DEF Resting
    <2>2. work'.kind # "scan"
        BY <1>5 DEF Hashing
    <2> QED
        BY <2>1, <2>2 DEF Scanned, Resting
  <1> QED
      BY <1>7, <1>8, <1>9 DEF ShareInv

\* A week has passed: the hashes are due again.
LEMMA ExpireKeeps ==
  ASSUME ShareInv, HashesExpire
  PROVE  ShareInv'
  <1>1. /\ Typed /\ Scanned /\ Resting /\ Agree(Now) /\ Passes(Now) /\ Serves(Now, dl)
      BY DEF ShareInv, Indexes
  <1>2. /\ info' = [p \in DOMAIN info |-> [info[p] EXCEPT !.due = TRUE]]
        /\ UNCHANGED <<disk, index, kw, qht, work, dl, saved, up, changes, moves, restarts>>
        /\ work.kind # "scan"
      BY BoundsAre DEF HashesExpire
  <1>3. DOMAIN info \subseteq Ptr /\ \A p \in DOMAIN info : info[p] \in FileInfo
      BY <1>1, IndexIs, NowIs DEF Agree
  <1>4. /\ DOMAIN info' = DOMAIN info /\ info' = [p \in DOMAIN info' |-> info'[p]]
        /\ \A p \in DOMAIN info : /\ info'[p] \in FileInfo /\ info'[p].path = info[p].path
                                  /\ info'[p].hash = info[p].hash /\ info'[p].partial = info[p].partial
    <2>1. ASSUME NEW p \in DOMAIN info
          PROVE  LET i == [info[p] EXCEPT !.due = TRUE] IN
                 i \in FileInfo /\ i.path = info[p].path /\ i.hash = info[p].hash /\ i.partial = info[p].partial
        BY <1>3 DEF FileInfo
    <2> QED
        BY <1>2, <2>1
  <1>5. info' \in Objects
      BY <1>3, <1>4, ObjectsAre
  <1> DEFINE t == Now'
  <1>6. t.info = info' /\ t.index = index /\ t.kw = kw /\ t.qht = qht
      BY <1>2 DEF Now
  <1>7. t \in Index
    <2>1. Now \in Index
        BY <1>1 DEF Agree
    <2>2. t = [info |-> info', index |-> index, kw |-> kw, qht |-> qht]
        BY <1>2 DEF Now
    <2> HIDE DEF t
    <2> QED
        BY <1>5, <2>1, <2>2, NowIs, IndexIs DEF Index
  <1> HIDE DEF t
  <1>8. \A e \in index : e.ptr \in DOMAIN info /\ info[e.ptr].path = e.path
      BY <1>1, NowIs DEF Agree
  <1>9. Agree(t)
    <2>1. \A e \in t.index : e.ptr \in DOMAIN t.info /\ t.info[e.ptr].path = e.path
        BY <1>4, <1>6, <1>8
    <2>2. (\A e, f \in t.index : e.path = f.path => e = f) /\ t.kw = {e.ptr : e \in t.index}
        BY <1>1, <1>6, NowIs DEF Agree
    <2>3. DOMAIN t.info = t.kw
        BY <1>1, <1>4, <1>6, NowIs DEF Agree
    <2> QED
        BY <1>7, <2>1, <2>2, <2>3 DEF Agree
  <1>10. Passes(t)
      BY <1>1, <1>4, <1>6, <1>8, NowIs DEF Passes
  <1>11. Serves(t, dl)
    <2>1. SUFFICES ASSUME dl.status # "none"
                   PROVE  [path |-> Inc, ptr |-> dl.ptr] \in t.index /\ t.info[dl.ptr].partial
        BY DEF Serves
    <2> DEFINE e == [path |-> Inc, ptr |-> dl.ptr]
    <2>2. e \in index /\ info[dl.ptr].partial /\ e.ptr = dl.ptr
        BY <1>1, <2>1, NowIs DEF Serves
    <2> HIDE DEF e
    <2>3. t.info[dl.ptr].partial
        BY <1>4, <1>6, <1>8, <2>2
    <2> QED
        BY <1>6, <2>2, <2>3 DEF e
  <1>12. Indexes'
      BY <1>2, <1>9, <1>10, <1>11 DEF Indexes, Agree, Passes, Serves, t
  <1>13. Typed' /\ Scanned' /\ Resting'
      BY <1>1, <1>2 DEF Typed, Scanned, Resting
  <1> QED
      BY <1>12, <1>13 DEF ShareInv

\* A download begins: its object is the one that the path leads to, or there is none.
LEMMA CreateKeeps ==
  ASSUME ShareInv, Create
  PROVE  ShareInv'
  <1> DEFINE i == [path |-> Inc, partial |-> TRUE, due |-> TRUE, hash |-> Loaded]
             p == Fresh(Now)
             t == Put(Now, p, i)
             d == [NoDownload EXCEPT !.status = "list", !.ptr = p]
  <1>1. /\ Typed /\ Scanned /\ Resting /\ Agree(Now) /\ Passes(Now)
      BY DEF ShareInv, Indexes
  <1>2. /\ dl = NoDownload /\ moves < MaxMoves /\ moves' = moves + 1
        /\ disk' = [disk EXCEPT ![Inc] = Loaded]
        /\ UNCHANGED <<work, saved, up, changes, restarts>>
        /\ \/ CanPut(Now, i) /\ Become(t) /\ dl' = d
           \/ ~CanPut(Now, i) /\ Become(Now) /\ dl' = dl
      BY DEF Create
  <1>3. disk' \in [SharePath -> Content] /\ moves' \in 0 .. MaxMoves
      BY <1>1, <1>2, BoundsAre DEF Typed
  <1>4. CASE CanPut(Now, i) /\ Become(t) /\ dl' = d
    <2>1. i \in FileInfo /\ i.path = Inc /\ i.partial
        BY BoundsAre DEF FileInfo
    <2>2. Inc \in SharePath /\ Inc \notin PathsOf(Now)
        BY <1>4, <2>1, BoundsAre DEF CanPut
    <2>3. p \in Ptr /\ p \notin DOMAIN info
        BY <1>1, <2>2, FreshIs, NowIs
    <2> HIDE DEF p
    <2>4. d \in Downloads /\ d.status = "list" /\ d.ptr = p
        BY <2>3, BoundsAre DEF Downloads
    <2> HIDE DEF i, d
    <2>5. /\ Agree(t) /\ t.index = index \cup {[path |-> i.path, ptr |-> p]} /\ t.qht = qht
          /\ t.info[p] = i /\ \A q \in DOMAIN info : t.info[q] = info[q]
      <3>1. Now.info = info /\ Now.index = index /\ Now.qht = qht
          BY NowIs
      <3> QED
          BY <1>1, <1>4, <2>1, <2>3, <3>1, PutKeeps
    <2>6. Now' = t
      <3>1. t \in Index /\ Become(t)
          BY <1>4, <2>5 DEF Agree
      <3> HIDE DEF t
      <3> QED
          BY <3>1, BecomesIs
    <2> HIDE DEF t
    <2>7. Passes(t)
        BY <1>1, <2>1, <2>5, NowIs DEF Passes, Agree
    <2>8. Serves(t, d)
        BY <2>1, <2>4, <2>5 DEF Serves
    <2>9. Indexes'
        BY <1>4, <2>5, <2>6, <2>7, <2>8 DEF Indexes, Agree, Passes, Serves
    <2>10. Typed'
        BY <1>1, <1>2, <1>3, <1>4, <2>4 DEF Typed
    <2>11. Scanned' /\ Resting'
      <3>1. work.kind = "scan" => Inc \notin work.validate
          BY <1>1, <2>2 DEF Scanned
      <3> QED
          BY <1>1, <1>2, <3>1 DEF Scanned, Resting
    <2> QED
        BY <2>9, <2>10, <2>11 DEF ShareInv
  <1>5. CASE ~CanPut(Now, i) /\ Become(Now) /\ dl' = dl
    <2>1. UNCHANGED <<info, index, kw, qht>>
        BY <1>5, NowIs DEF Become
    <2>2. Indexes' /\ PathsOf(Now)' = PathsOf(Now)
        BY <1>5, <2>1, IndexStays
    <2>3. Typed' /\ Scanned' /\ Resting'
        BY <1>1, <1>2, <1>3, <1>5, <2>2 DEF Typed, Scanned, Resting
    <2> QED
        BY <2>2, <2>3 DEF ShareInv
  <1> QED
      BY <1>2, <1>4, <1>5

\* When there is no download any more, and the index is a good one.
LEMMA DownloadLeaves ==
  ASSUME ShareInv, dl.status # "none", dl' = NoDownload, NEW t, Agree(t), Passes(t), Become(t),
         disk' \in [SharePath -> Content], UNCHANGED <<work, saved, up, changes, moves, restarts>>
  PROVE  ShareInv'
  <1>1. Typed /\ Scanned /\ Resting
      BY DEF ShareInv
  <1>2. Now' = t
    <2>1. t \in Index
        BY DEF Agree
    <2> QED
        BY <2>1, BecomesIs
  <1>3. dl'.status = "none" /\ dl' \in Downloads
      BY BoundsAre
  <1>4. Agree(Now)' /\ Passes(Now)'
      BY <1>2 DEF Agree, Passes
  <1>5. Indexes'
      BY <1>3, <1>4 DEF Indexes, Serves
  <1>6. Typed'
      BY <1>1, <1>3 DEF Typed
  <1>7. Scanned' /\ Resting'
      BY <1>1 DEF Scanned, Resting
  <1> QED
      BY <1>5, <1>6, <1>7 DEF ShareInv

\* The object of a download gets another path, unless there is one; then it is gone.
LEMMA RenameKeeps ==
  ASSUME NEW s, Agree(s), Passes(s), NEW p \in DOMAIN s.info, NEW to \in SharePath
  PROVE  Agree(Rename(s, p, to)) /\ Passes(Rename(s, p, to))
  <1> DEFINE i == [s.info[p] EXCEPT !.path = to]
             rest == Drop(s, {p})
             t == Put(rest, p, i)
             u == UpdateQHT(t, p)
  <1>1. p \in Ptr /\ s.info[p] \in FileInfo
      BY IndexIs DEF Agree
  <1>2. i \in FileInfo
      BY <1>1 DEF FileInfo
  <1>3. /\ Agree(rest) /\ Passes(rest) /\ p \notin DOMAIN rest.info
      BY DropKeeps
  <1>4. Rename(s, p, to) = IF CanPut(rest, i) THEN u ELSE rest
      BY DEF Rename
  <1> HIDE DEF i, rest
  <1>5. CASE CanPut(rest, i)
    <2>1. /\ Agree(t) /\ t.index = rest.index \cup {[path |-> i.path, ptr |-> p]} /\ t.qht = rest.qht
          /\ DOMAIN t.info = DOMAIN rest.info \cup {p}
          /\ t.info[p] = i /\ \A q \in DOMAIN rest.info : t.info[q] = rest.info[q]
        BY <1>1, <1>2, <1>3, <1>5, PutKeeps
    <2> HIDE DEF t
    <2>2. p \in DOMAIN t.info
        BY <2>1
    <2>3. Agree(u) /\ u.info = t.info /\ u.index = t.index /\ u.qht = t.qht \cup {t.info[p].hash}
        BY <2>1, <2>2, QueriesKeep
    <2> HIDE DEF u
    <2>4. Passes(u)
        BY <1>3, <2>1, <2>3 DEF Passes, Agree
    <2> QED
        BY <1>4, <1>5, <2>3, <2>4
  <1> QED
      BY <1>3, <1>4, <1>5

\* A download that is cancelled or copied.
LEMMA DownloadEnds ==
  ASSUME ShareInv, Cancel \/ Copied
  PROVE  ShareInv'
  <1>1. /\ Typed /\ Agree(Now) /\ Passes(Now) /\ Serves(Now, dl)
      BY DEF ShareInv, Indexes
  <1>2. /\ dl.status # "none" /\ dl' = NoDownload
        /\ UNCHANGED <<work, saved, up, changes, moves, restarts>>
      BY DEF Cancel, Copied
  <1>3. disk' \in [SharePath -> Content]
    <2>1. disk \in [SharePath -> Content] /\ Empty \in Content
        BY <1>1, BoundsAre DEF Typed
    <2> QED
        BY <2>1 DEF Cancel, Copied
  <1>4. \E t : Agree(t) /\ Passes(t) /\ Become(t)
    <2>1. CASE Cancel
      <3>1. Agree(Drop(Now, {dl.ptr})) /\ Passes(Drop(Now, {dl.ptr}))
          BY <1>1, DropKeeps
      <3> QED
          BY <2>1, <3>1 DEF Cancel
    <2>2. CASE Copied
      <3> DEFINE e == [path |-> Inc, ptr |-> dl.ptr]
      <3>1. e \in index /\ e.ptr = dl.ptr
          BY <1>1, <1>2, NowIs DEF Serves
      <3> HIDE DEF e
      <3>2. dl.ptr \in DOMAIN Now.info /\ dl.to \in SharePath
          BY <1>1, <3>1, NowIs DEF Agree, Typed, Downloads
      <3>3. Agree(Rename(Now, dl.ptr, dl.to)) /\ Passes(Rename(Now, dl.ptr, dl.to))
          BY <1>1, <3>2, RenameKeeps
      <3>4. Become(Rename(Now, dl.ptr, dl.to)) \/ Become(Now)
          BY <2>2 DEF Copied
      <3> QED
          BY <1>1, <3>3, <3>4
    <2> QED
        BY <2>1, <2>2
  <1> QED
      BY <1>2, <1>3, <1>4, DownloadLeaves

\* There are so many different entries of share.dat, and no more.
LEMMA RecordsAreFinite == IsFiniteSet(Records)
  <1> DEFINE A == SharePath \X BOOLEAN
             T == A \X Content
             f == [x \in T |-> [path |-> x[1][1], due |-> x[1][2], hash |-> x[2]]]
  <1>1. IsFiniteSet(SharePath)
    <2>1. SharePath = 0 .. Paths /\ 0 \in Int /\ Paths \in Int
        BY BoundsAre DEF SharePath, Shared, Inc
    <2> QED
        BY <2>1, FS_Interval
  <1>2. IsFiniteSet(BOOLEAN)
    <2>1. BOOLEAN = {TRUE} \cup {FALSE}
        OBVIOUS
    <2>2. IsFiniteSet({TRUE} \cup {FALSE})
        BY FS_Singleton, FS_Union
    <2> QED
        BY <2>1, <2>2
  <1>3. IsFiniteSet(Content)
    <2>1. Content = 0 .. 3 /\ 0 \in Int /\ 3 \in Int
        BY DEF Content, Empty, Own, Loaded, Part
    <2> QED
        BY <2>1, FS_Interval
  <1>4. IsFiniteSet(T)
    <2>1. IsFiniteSet(A)
        BY <1>1, <1>2, FS_Product
    <2> HIDE DEF A
    <2> QED
        BY <1>3, <2>1, FS_Product
  <1>5. f \in Surjection(T, Records)
    <2>1. \A x \in T : x[1][1] \in SharePath /\ x[1][2] \in BOOLEAN /\ x[2] \in Content
        OBVIOUS
    <2>2. f \in [T -> Records]
        BY <2>1 DEF Records
    <2>3. ASSUME NEW r \in Records
          PROVE  \E x \in T : f[x] = r
      <3> DEFINE x == <<<<r.path, r.due>>, r.hash>>
      <3>1. x \in T /\ x[1][1] = r.path /\ x[1][2] = r.due /\ x[2] = r.hash
          BY DEF Records
      <3>2. r = [path |-> r.path, due |-> r.due, hash |-> r.hash]
          BY DEF Records
      <3> HIDE DEF x, T
      <3> QED
          BY <3>1, <3>2
    <2> HIDE DEF f, T
    <2> QED
        BY <2>2, <2>3 DEF Surjection
  <1> HIDE DEF f, T
  <1> QED
      BY <1>4, <1>5, FS_Surjection

\* The program ends, in order or not.
LEMMA DownKeeps ==
  ASSUME ShareInv, Shutdown \/ Crash
  PROVE  ShareInv'
  <1>1. Typed /\ Agree(Now)
      BY DEF ShareInv, Indexes
  <1>2. /\ up' = FALSE /\ info' = <<>> /\ index' = {} /\ kw' = {} /\ qht' = {}
        /\ work' = NoWork /\ dl' = NoDownload
        /\ UNCHANGED <<disk, changes, moves, restarts>>
      BY DEF Shutdown, Crash, Down
  <1>3. saved' \subseteq Records
    <2>1. SaveOf(Now) \subseteq Records /\ saved \subseteq Records
        BY <1>1, SaveIs DEF Typed
    <2>2. ASSUME NEW r \in Records, NEW h \in Content
          PROVE  [r EXCEPT !.due = TRUE, !.hash = h] \in Records
        BY DEF Records
    <2>3. CASE Torn
      <3> DEFINE S == SaveOf(Now)
                 cut(r, h) == [r EXCEPT !.due = TRUE, !.hash = h]
      <3>1. PICK T \in SUBSET S : \/ saved' = T
                                  \/ \E r \in S \ T, h \in Content : saved' = T \cup {cut(r, h)}
          BY <2>3 DEF Torn
      <3>2. \A r \in S, h \in Content : cut(r, h) \in Records
          BY <2>1, <2>2
      <3> HIDE DEF S, cut
      <3>3. S \subseteq Records
          BY <2>1 DEF S
      <3> QED
          BY <3>1, <3>2, <3>3
    <2>4. CASE saved' = saved \/ saved' = SaveOf(Now)
        BY <2>1, <2>4
    <2> QED
        BY <2>3, <2>4 DEF Shutdown, Crash
  <1>4. Now' = Blank
      BY <1>2 DEF Now, Blank
  <1>5. Agree(Now)' /\ Passes(Now)'
      BY <1>4, BlankAgrees DEF Agree, Passes
  <1>6. Indexes'
      BY <1>2, <1>5, BoundsAre DEF Indexes, Serves
  <1>7. Typed'
      BY <1>1, <1>2, <1>3, BoundsAre DEF Typed
  <1>8. Scanned' /\ Resting'
      BY <1>2, BoundsAre DEF Scanned, Resting
  <1> QED
      BY <1>6, <1>7, <1>8 DEF ShareInv

\* What was saved is known again, and a file that is in the folder of the incomplete
\* files is a download again, whether it was saved or not.
LEMMA StartKeeps ==
  ASSUME ShareInv, Start
  PROVE  ShareInv'
  <1> DEFINE loaded == {[path |-> r.path, partial |-> FALSE, due |-> r.due, hash |-> r.hash] : r \in saved}
             s == Requery(AddAll(Now, loaded))
             p == IF Inc \in PathsOf(s) THEN At(s, Inc) ELSE Fresh(s)
             i == [NewInfo(Inc) EXCEPT !.hash = Loaded]
             t == Put(s, p, i)
             j == [t.info[p] EXCEPT !.partial = TRUE]
             u == [t EXCEPT !.info = With(t.info, p, j)]
             d == [NoDownload EXCEPT !.status = "list", !.ptr = p]
  <1>1. Typed /\ Agree(Now) /\ Resting
      BY DEF ShareInv, Indexes
  <1>2. /\ ~up /\ up' = TRUE /\ restarts < MaxRestarts /\ restarts' = restarts + 1
        /\ \/ Become(s) /\ dl' = NoDownload
           \/ dl' = d /\ Become(u)
        /\ saved' \subseteq saved
        /\ UNCHANGED <<disk, work, changes, moves>>
      BY DEF Start
  <1>3. loaded \in SUBSET FileInfo
    <2>1. ASSUME NEW r \in saved
          PROVE  [path |-> r.path, partial |-> FALSE, due |-> r.due, hash |-> r.hash] \in FileInfo
      <3>1. r \in Records
          BY <1>1 DEF Typed
      <3> QED
          BY <3>1 DEF Records, FileInfo
    <2> QED
        BY <2>1
  <1>4. IsFiniteSet(loaded)
    <2> DEFINE f == [r \in saved |-> [path |-> r.path, partial |-> FALSE, due |-> r.due, hash |-> r.hash]]
    <2>1. f \in [saved -> loaded] /\ \A x \in loaded : \E r \in saved : f[r] = x
        OBVIOUS
    <2>2. IsFiniteSet(saved)
        BY <1>1, RecordsAreFinite, FS_Subset DEF Typed
    <2> HIDE DEF f, loaded
    <2>3. f \in Surjection(saved, loaded)
        BY <2>1 DEF Surjection
    <2> QED
        BY <2>2, <2>3, FS_Surjection
  <1> HIDE DEF loaded
  <1>5. Agree(s) /\ Passes(s)
    <2> DEFINE a == AddAll(Now, loaded)
    <2>1. Grown(Now, a, loaded)
        BY <1>1, <1>3, <1>4, AddAllKeeps
    <2> HIDE DEF a
    <2>2. Agree(a)
        BY <2>1 DEF Grown
    <2>3. Agree(Requery(a)) /\ Passes(Requery(a))
        BY <2>2, QueriesKeep
    <2> QED
        BY <2>3 DEF a
  <1> HIDE DEF s
  <1>6. i \in FileInfo /\ i.path = Inc
      BY BoundsAre DEF NewInfo, FileInfo
  <1> HIDE DEF i
  <1>7. /\ Agree(t) /\ Passes(t) /\ [path |-> Inc, ptr |-> p] \in t.index
        /\ p \in Ptr /\ p \in DOMAIN t.info /\ t.info[p].path = Inc
    <2>1. CASE Inc \in PathsOf(s)
      <3>1. t = s /\ p = At(s, Inc)
          BY <1>6, <2>1 DEF Put, CanPut
      <3> QED
          BY <1>5, <2>1, <3>1, AtIs
    <2>2. CASE Inc \notin PathsOf(s)
      <3>1. p = Fresh(s)
          BY <2>2
      <3>2. p \in Ptr /\ p \notin DOMAIN s.info
          BY <1>5, <2>2, <3>1, FreshIs, BoundsAre
      <3>3. CanPut(s, i)
          BY <1>6, <2>2 DEF CanPut
      <3> HIDE DEF p
      <3>4. /\ Agree(t) /\ t.index = s.index \cup {[path |-> i.path, ptr |-> p]} /\ t.qht = s.qht
            /\ DOMAIN t.info = DOMAIN s.info \cup {p} /\ t.info[p] = i
            /\ \A q \in DOMAIN s.info : t.info[q] = s.info[q]
          BY <1>5, <1>6, <3>2, <3>3, PutKeeps
      <3> HIDE DEF t
      <3>5. Passes(t)
        <4>1. \A e \in s.index : e.ptr \in DOMAIN s.info
            BY <1>5 DEF Agree
        <4> QED
            BY <1>5, <1>6, <3>4, <4>1 DEF Passes
      <3> QED
          BY <1>6, <3>2, <3>4, <3>5
    <2> QED
        BY <2>1, <2>2
  <1> HIDE DEF p, t
  <1>8. j \in FileInfo /\ j.path = t.info[p].path /\ j.partial /\ j.hash = t.info[p].hash
    <2>1. t.info[p] \in FileInfo
        BY <1>7, IndexIs DEF Agree
    <2> QED
        BY <2>1 DEF FileInfo
  <1> HIDE DEF j
  <1>9. /\ Agree(u) /\ u.index = t.index /\ u.qht = t.qht /\ u.info[p] = j
        /\ \A q \in DOMAIN t.info : q # p => u.info[q] = t.info[q]
      BY <1>7, <1>8, SetKeeps
  <1> HIDE DEF u
  <1>10. Passes(u)
    <2>1. \A e \in t.index : u.info[e.ptr].hash = t.info[e.ptr].hash
        BY <1>7, <1>8, <1>9 DEF Agree
    <2> QED
        BY <1>7, <1>9, <2>1 DEF Passes
  <1>11. d \in Downloads /\ d.status = "list" /\ d.ptr = p
      BY <1>7, BoundsAre DEF Downloads
  <1> HIDE DEF d
  <1>12. Serves(u, d)
      BY <1>7, <1>8, <1>9, <1>11 DEF Serves
  <1>13. Indexes'
    <2>1. CASE Become(s) /\ dl' = NoDownload
      <3>1. Now' = s
          BY <1>5, <2>1, BecomesIs DEF Agree
      <3> QED
          BY <1>5, <2>1, <3>1, BoundsAre DEF Indexes, Agree, Passes, Serves
    <2>2. CASE dl' = d /\ Become(u)
      <3>1. Now' = u
          BY <1>9, <2>2, BecomesIs DEF Agree
      <3> QED
          BY <1>9, <1>10, <1>12, <2>2, <3>1 DEF Indexes, Agree, Passes, Serves
    <2> QED
        BY <1>2, <2>1, <2>2
  <1>14. Typed'
    <2>1. dl' \in Downloads /\ (dl'.status = "none" => dl' = NoDownload)
        BY <1>2, <1>11, BoundsAre
    <2>2. restarts' \in 0 .. MaxRestarts
        BY <1>1, <1>2, BoundsAre DEF Typed
    <2> QED
        BY <1>1, <1>2, <2>1, <2>2 DEF Typed
  <1>15. Scanned' /\ Resting'
      BY <1>1, <1>2, BoundsAre DEF Scanned, Resting
  <1> QED
      BY <1>13, <1>14, <1>15 DEF ShareInv

\* Every step keeps the invariant.
LEMMA ShareStep ==
  ASSUME ShareInv, [ShareNext]_shareVars
  PROVE  ShareInv'
  <1>1. CASE \/ Sync \/ HashReads \/ Save \/ FileComplete \/ CopyOpens \/ CopyEnds \/ CopyFailed
             \/ UNCHANGED shareVars
             \/ \E p \in Shared : ScanPath(p) \/ UserWrites(p) \/ UserDeletes(p)
      BY <1>1, QuietKeeps
  <1>2. CASE OnPathsSynced \/ OnHashed
      BY <1>2, ResultsKeep
  <1>3. CASE HashesExpire
      BY <1>3, ExpireKeeps
  <1>4. CASE Create
      BY <1>4, CreateKeeps
  <1>5. CASE Cancel \/ Copied
      BY <1>5, DownloadEnds
  <1>6. CASE Shutdown \/ Crash
      BY <1>6, DownKeeps
  <1>7. CASE Start
      BY <1>7, StartKeeps
  <1> QED
      BY <1>1, <1>2, <1>3, <1>4, <1>5, <1>6, <1>7 DEF ShareNext, Worker

\* What the invariant says of the properties.
LEMMA ShareInvImplies == ShareInv => ShareTypeOK /\ IndicesAgree /\ DownloadsKeepInfo /\ QhtCovers
  <1> SUFFICES ASSUME ShareInv PROVE ShareTypeOK /\ IndicesAgree /\ DownloadsKeepInfo /\ QhtCovers
      OBVIOUS
  <1>1. Typed /\ Agree(Now) /\ Passes(Now) /\ Serves(Now, dl)
      BY DEF ShareInv, Indexes
  <1>2. /\ DOMAIN info \subseteq Ptr /\ \A p \in DOMAIN info : info[p] \in FileInfo
        /\ index \subseteq [path : SharePath, ptr : Ptr] /\ kw \subseteq Ptr /\ qht \subseteq Content
      BY <1>1, IndexIs, NowIs DEF Agree
  <1>3. ShareTypeOK
    <2>1. Range(info) \subseteq FileInfo
        BY <1>2 DEF Range
    <2> QED
        BY <1>1, <1>2, <2>1 DEF ShareTypeOK, Typed, Scan, Hashing, Downloads, Records
  <1>4. IndicesAgree
      BY <1>1, NowIs DEF IndicesAgree, Agree
  <1>5. DownloadsKeepInfo
    <2>1. SUFFICES ASSUME dl # NoDownload
                   PROVE  /\ [path |-> Inc, ptr |-> dl.ptr] \in index
                          /\ info[dl.ptr].path = Inc /\ info[dl.ptr].partial
        BY DEF DownloadsKeepInfo
    <2> DEFINE e == [path |-> Inc, ptr |-> dl.ptr]
    <2>2. e \in index /\ info[dl.ptr].partial /\ e.path = Inc /\ e.ptr = dl.ptr
        BY <1>1, <2>1, NowIs DEF Typed, Serves
    <2> HIDE DEF e
    <2>3. info[dl.ptr].path = Inc
        BY <1>4, <2>2 DEF IndicesAgree
    <2> QED
        BY <2>2, <2>3 DEF e
  <1>6. QhtCovers
      BY <1>1, NowIs DEF QhtCovers, Passes
  <1> QED
      BY <1>3, <1>4, <1>5, <1>6

\* The index is as it should be in every state, whatever ran between a scan, or a hash, and
\* its result.
THEOREM ShareInvariance == ShareSpec => []ShareInv
  BY ShareInitIsFine, ShareStep, PTL DEF ShareSpec

\* The variables have their types: share.dat holds entries that can be loaded, and no
\* address is used for two objects.
THEOREM ShareTypes == ShareSpec => []ShareTypeOK
  BY ShareInvariance, ShareInvImplies, PTL

\* For any number of names, of users of the disk and of restarts: an object is found under
\* its own path, no two have the same, and queries are answered by exactly the objects
\* that are in the cache, also after Manager::Rename or Manager::Add threw AlreadyShared.
THEOREM IndexIsConsistent == ShareSpec => []IndicesAgree
  BY ShareInvariance, ShareInvImplies, PTL

\* A download in the list keeps its FileInfo: neither Manager::OnPathsSynced, with the
\* differences to an older index, nor HashSomething removes it, and a restart finds it again.
THEOREM DownloadsAreNotForgotten == ShareSpec => []DownloadsKeepInfo
  BY ShareInvariance, ShareInvImplies, PTL

\* Every hash of a shared file is in the query hash table, also of one that got its name
\* while other files are still to be hashed.
THEOREM SharedFilesAreFound == ShareSpec => []QhtCovers
  BY ShareInvariance, ShareInvImplies, PTL
==============================================================================
