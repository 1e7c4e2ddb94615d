--------------------------- MODULE CollectionFacts ---------------------------
(***************************************************************************)
(* What pushing, popping and erasing do to the queues and lists of the     *)
(* program that hold each of their elements once, and what is needed of    *)
(* finite sets, of counting up to a number, of folds over a finite set and *)
(* of the sums of what is there for each of its elements.                  *)
(***************************************************************************)
EXTENDS Naturals, Sequences, SequencesExt, SequenceTheorems, FiniteSetTheorems, TLAPS

\* Appending an element adds it to the range.
LEMMA PushFacts ==
  ASSUME NEW S, NEW s \in Seq(S), NEW x \in S
  PROVE  /\ Append(s, x) \in Seq(S)
         /\ Append(s, x) # <<>>
         /\ Range(Append(s, x)) = Range(s) \cup {x}
         /\ IsInjective(s) /\ x \notin Range(s) => IsInjective(Append(s, x))
         /\ Tail(Append(s, x)) # <<>> => s # <<>>
         /\ Head(Append(s, x)) = IF s = <<>> THEN x ELSE Head(s)
<1> DEFINE t == Append(s, x)
<1>1. /\ t \in Seq(S) /\ t # <<>> /\ Len(t) = Len(s) + 1
      /\ \A i \in 1..Len(s) : t[i] = s[i]
      /\ t[Len(s) + 1] = x
  BY AppendProperties
<1>2. DOMAIN s = 1..Len(s) /\ DOMAIN t = 1..(Len(s) + 1) /\ Len(s) \in Nat
  BY <1>1, LenProperties
<1>3. Range(t) = Range(s) \cup {x}
  <2>1. ASSUME NEW y \in Range(t) PROVE y \in Range(s) \cup {x}
    BY <1>1, <1>2 DEF Range
  <2>2. ASSUME NEW y \in Range(s) \cup {x} PROVE y \in Range(t)
    BY <1>1, <1>2 DEF Range
  <2> QED BY <2>1, <2>2
<1>4. IsInjective(s) /\ x \notin Range(s) => IsInjective(t)
  BY <1>1, <1>2 DEF IsInjective, Range
<1>5. /\ Head(t) = IF s = <<>> THEN x ELSE Head(s)
      /\ Tail(t) # <<>> => s # <<>>
  BY HeadTailAppend
<1> QED BY <1>1, <1>3, <1>4, <1>5

\* Removing the first element takes exactly that element out of the range.
LEMMA PopFacts ==
  ASSUME NEW S, NEW s \in Seq(S), s # <<>>, IsInjective(s)
  PROVE  /\ Tail(s) \in Seq(S)
         /\ Head(s) \in S
         /\ Range(s) = Range(Tail(s)) \cup {Head(s)}
         /\ Head(s) \notin Range(Tail(s))
         /\ IsInjective(Tail(s))
<1> DEFINE t == Tail(s)
<1>1. /\ Head(s) \in S /\ t \in Seq(S) /\ Len(t) = Len(s) - 1
      /\ \A i \in 1..Len(t) : t[i] = s[i + 1]
  BY HeadTailProperties
<1>2. DOMAIN s = 1..Len(s) /\ DOMAIN t = 1..Len(t) /\ Len(s) \in Nat \ {0} /\ Head(s) = s[1]
  BY <1>1, LenProperties, EmptySeq
<1>3. Range(s) = Range(t) \cup {Head(s)}
  <2>1. ASSUME NEW y \in Range(s) PROVE y \in Range(t) \cup {Head(s)}
    <3>1. PICK i \in 1..Len(s) : s[i] = y  BY <1>2 DEF Range
    <3>2. CASE i = 1  BY <3>1, <3>2, <1>2
    <3>3. CASE i # 1
      <4>1. i - 1 \in 1..Len(t)  BY <3>3, <1>1, <1>2
      <4>2. t[i - 1] = y  BY <4>1, <3>1, <1>1
      <4> QED BY <4>1, <4>2, <1>2 DEF Range
    <3> QED BY <3>2, <3>3
  <2>2. ASSUME NEW y \in Range(t) \cup {Head(s)} PROVE y \in Range(s)
    BY <1>1, <1>2 DEF Range
  <2> QED BY <2>1, <2>2
<1>4. Head(s) \notin Range(t)
  BY <1>1, <1>2 DEF IsInjective, Range
<1>5. IsInjective(t)
  <2> SUFFICES ASSUME NEW i \in 1..Len(t), NEW j \in 1..Len(t), t[i] = t[j]
               PROVE  i = j
    BY <1>2 DEF IsInjective
  <2>1. s[i + 1] = s[j + 1] /\ i + 1 \in 1..Len(s) /\ j + 1 \in 1..Len(s)
    BY <1>1, <1>2
  <2>2. i + 1 = j + 1  BY <2>1, <1>2 DEF IsInjective
  <2> QED BY <2>2
<1> QED BY <1>1, <1>3, <1>4, <1>5

\* Erasing the element at i moves those behind it one place to the front.
LEMMA RemoveAtIs ==
  ASSUME NEW S, NEW s \in Seq(S), NEW i \in DOMAIN s
  PROVE  /\ RemoveAt(s, i) \in Seq(S)
         /\ Len(s) \in Nat \ {0} /\ DOMAIN s = 1..Len(s) /\ DOMAIN RemoveAt(s, i) = 1..(Len(s) - 1)
         /\ \A j \in 1..(Len(s) - 1) : RemoveAt(s, i)[j] = IF j < i THEN s[j] ELSE s[j + 1]
<1> DEFINE a == SubSeq(s, 1, i - 1)
           b == SubSeq(s, i + 1, Len(s))
           t == RemoveAt(s, i)
           n == Len(s)
<1>1. n \in Nat /\ DOMAIN s = 1..n /\ i \in 1..n /\ \A j \in 1..n : s[j] \in S
  BY LenProperties, ElementOfSeq
<1>2. /\ a \in Seq(S) /\ Len(a) = i - 1 /\ \A j \in 1..(i - 1) : a[j] = s[j]
  <2>1. \A j \in 1..(i - 1) : s[j] \in S  BY <1>1
  <2> QED BY <2>1, <1>1, SubSeqProperties
<1>3. /\ b \in Seq(S) /\ Len(b) = n - i /\ \A j \in 1..(n - i) : b[j] = s[i + j]
  <2>1. \A j \in (i + 1)..n : s[j] \in S  BY <1>1
  <2>2. /\ b \in Seq(S) /\ Len(b) = (IF i + 1 <= n THEN n - (i + 1) + 1 ELSE 0)
        /\ \A j \in 1..(n - (i + 1) + 1) : b[j] = s[(i + 1) + j - 1]
    BY <2>1, <1>1, SubSeqProperties
  <2> QED BY <2>2, <1>1
<1>4. t = a \o b  BY DEF RemoveAt
<1>5. /\ t \in Seq(S) /\ Len(t) = n - 1
      /\ \A j \in 1..(n - 1) : t[j] = IF j < i THEN s[j] ELSE s[j + 1]
  <2>1. /\ t \in Seq(S) /\ Len(t) = Len(a) + Len(b)
        /\ \A j \in 1..(Len(a) + Len(b)) : t[j] = IF j <= Len(a) THEN a[j] ELSE b[j - Len(a)]
    <3>1. a \in Seq(S) /\ b \in Seq(S)  BY <1>2, <1>3
    <3> HIDE DEF a, b, t
    <3> QED BY <3>1, <1>4, ConcatProperties
  <2>2. ASSUME NEW j \in 1..(n - 1) PROVE t[j] = IF j < i THEN s[j] ELSE s[j + 1]
    <3>0. n \in Nat /\ i \in 1..n /\ Len(a) = i - 1 /\ Len(b) = n - i
      BY <1>1, <1>2, <1>3
    <3> HIDE DEF a, b, t, n
    <3>1. CASE j < i
      <4>1. j \in 1..(i - 1) /\ j <= Len(a) /\ j \in 1..(Len(a) + Len(b))
        BY <3>1, <3>0
      <4>2. t[j] = a[j]  BY <4>1, <2>1
      <4> QED BY <4>1, <4>2, <3>1, <1>2
    <3>2. CASE ~(j < i)
      <4>1. /\ j - (i - 1) \in 1..(n - i) /\ ~(j <= Len(a)) /\ j \in 1..(Len(a) + Len(b))
            /\ i + (j - (i - 1)) = j + 1
        BY <3>2, <3>0
      <4>2. t[j] = b[j - (i - 1)]  BY <4>1, <2>1, <1>2
      <4> QED BY <4>1, <4>2, <3>2, <1>3
    <3> QED BY <3>1, <3>2
  <2> QED BY <2>1, <2>2, <1>1, <1>2, <1>3
<1>6. DOMAIN t = 1..(n - 1)  BY <1>5, <1>1, LenProperties
<1> QED BY <1>1, <1>5, <1>6

\* Erasing the element at i takes exactly that element out of the range.
LEMMA RemoveAtFacts ==
  ASSUME NEW S, NEW s \in Seq(S), IsInjective(s), NEW i \in DOMAIN s
  PROVE  /\ RemoveAt(s, i) \in Seq(S)
         /\ Range(RemoveAt(s, i)) = Range(s) \ {s[i]}
         /\ IsInjective(RemoveAt(s, i))
         /\ RemoveAt(s, i) # <<>> => s # <<>>
<1> DEFINE t == RemoveAt(s, i)
           n == Len(s)
<1>1. n \in Nat /\ DOMAIN s = 1..n /\ i \in 1..n /\ \A j \in 1..n : s[j] \in S
  BY LenProperties, ElementOfSeq
<1>2. t \in Seq(S) /\ \A j \in 1..(n - 1) : t[j] = IF j < i THEN s[j] ELSE s[j + 1]
  BY RemoveAtIs
<1>3. DOMAIN t = 1..(n - 1)  BY RemoveAtIs
<1> HIDE DEF t, n
<1>4. Range(t) = Range(s) \ {s[i]}
  <2>1. ASSUME NEW j \in 1..(n - 1) PROVE t[j] \in Range(s) \ {s[i]}
    <3> DEFINE J == IF j < i THEN j ELSE j + 1
    <3>1. J \in 1..n /\ J # i  BY <1>1
    <3>2. t[j] = s[J]  BY <1>2
    <3> HIDE DEF J
    <3>3. s[J] # s[i]  BY <3>1, <1>1 DEF IsInjective
    <3> QED BY <3>1, <3>2, <3>3, <1>1 DEF Range
  <2>2. ASSUME NEW y \in Range(s) \ {s[i]} PROVE y \in Range(t)
    <3>1. PICK j \in 1..n : s[j] = y /\ j # i  BY <1>1 DEF Range
    <3>2. CASE j < i
      <4>1. j \in 1..(n - 1) /\ t[j] = y  BY <3>1, <3>2, <1>1, <1>2
      <4> QED BY <4>1, <1>3 DEF Range
    <3>3. CASE j > i
      <4>1. j - 1 \in 1..(n - 1) /\ t[j - 1] = y  BY <3>1, <3>3, <1>1, <1>2
      <4> QED BY <4>1, <1>3 DEF Range
    <3> QED BY <3>1, <3>2, <3>3, <1>1
  <2> QED BY <2>1, <2>2, <1>3 DEF Range
<1>5. IsInjective(t)
  <2> SUFFICES ASSUME NEW j \in 1..(n - 1), NEW k \in 1..(n - 1), t[j] = t[k]
               PROVE  j = k
    BY <1>3 DEF IsInjective
  <2> DEFINE J == IF j < i THEN j ELSE j + 1
             K == IF k < i THEN k ELSE k + 1
  <2>1. J \in 1..n /\ K \in 1..n  BY <1>1
  <2>2. t[j] = s[J] /\ t[k] = s[K]  BY <1>2
  <2>3. J = K
    <3> HIDE DEF J, K
    <3> QED BY <2>1, <2>2, <1>1 DEF IsInjective
  <2> QED BY <2>3, <1>1
<1>6. s # <<>>  BY <1>1, EmptySeq
<1> QED BY <1>2, <1>4, <1>5, <1>6 DEF t

\* A subset with an element less has fewer elements.
LEMMA FewerIn ==
  ASSUME NEW S, NEW T, IsFiniteSet(T), S \subseteq T, NEW x \in T, x \notin S
  PROVE  /\ IsFiniteSet(S) /\ Cardinality(S) \in Nat /\ Cardinality(T) \in Nat
         /\ Cardinality(S) < Cardinality(T)
  <1>1. IsFiniteSet(S) /\ Cardinality(S) <= Cardinality(T) /\ (Cardinality(S) = Cardinality(T) => S = T)
      BY FS_Subset
  <1>2. Cardinality(S) \in Nat /\ Cardinality(T) \in Nat
      BY <1>1, FS_CardinalityType
  <1> QED
      BY <1>1, <1>2

\* A finite set of numbers that is not empty has a least element, and Min is that: the
\* numbers of elements below each element are all the numbers from 0.
LEMMA MinIs ==
  ASSUME NEW S \in SUBSET Nat, IsFiniteSet(S), S # {}
  PROVE  Min(S) \in S /\ \A x \in S : Min(S) <= x
  <1> DEFINE below(x) == {y \in S : y < x}
             n == Cardinality(S)
             f == [x \in S |-> Cardinality(below(x))]
  <1>1. n \in Nat \ {0}
      BY FS_CardinalityType, FS_EmptySet
  <1>2. ASSUME NEW x \in S PROVE Cardinality(below(x)) \in 0 .. n - 1
    <2>1. below(x) \subseteq S /\ x \notin below(x)
        OBVIOUS
    <2> HIDE DEF below
    <2>2. /\ Cardinality(below(x)) \in Nat
          /\ Cardinality(below(x)) < n
        BY <2>1, FewerIn
    <2> QED
        BY <2>2, <1>1
  <1>3. ASSUME NEW x \in S, NEW y \in S, x < y
        PROVE  Cardinality(below(x)) < Cardinality(below(y))
    <2>1. below(x) \subseteq below(y) /\ x \in below(y) /\ x \notin below(x)
      <3>1. S \subseteq Int
          OBVIOUS
      <3>2. \A z \in S : z < x => z < y
          BY <3>1, <1>3
      <3>3. ~(x < x)
          BY <3>1
      <3> QED
          BY <3>2, <3>3, <1>3
    <2>2. IsFiniteSet(below(y))
        BY FS_Subset
    <2> HIDE DEF below
    <2> QED
        BY <2>1, <2>2, FewerIn
  <1> HIDE DEF below
  <1>4. \A x, y \in S : Cardinality(below(x)) = Cardinality(below(y)) => x = y
      BY <1>2, <1>3
  <1>5. f \in Injection(S, 0 .. n - 1)
      BY <1>2, <1>4 DEF Injection, IsInjective
  <1>6. IsFiniteSet(0 .. n - 1) /\ Cardinality(0 .. n - 1) = n
      BY <1>1, FS_Interval
  <1>7. f \in Surjection(S, 0 .. n - 1)
      BY <1>5, <1>6, FS_Injection
  <1>8. PICK x \in S : Cardinality(below(x)) = 0
    <2>1. 0 \in 0 .. n - 1
        BY <1>1
    <2>2. PICK x \in S : f[x] = 0
        BY <2>1, <1>7 DEF Surjection
    <2> QED
        BY <2>2
  <1>9. below(x) = {}
    <2>1. IsFiniteSet(below(x))
        BY FS_Subset DEF below
    <2> QED
        BY <2>1, <1>8, FS_EmptySet
  <1>10. \A y \in S : x <= y
      BY <1>9 DEF below
  <1> QED
      BY <1>10 DEF Min

\* What holds of 0, and of i + 1 when it holds of i, holds up to n.
LEMMA UpTo ==
  ASSUME NEW n \in Nat, NEW S, 0 \in S, \A i \in 0 .. n - 1 : i \in S => i + 1 \in S
  PROVE  \A i \in 0 .. n : i \in S
  <1> DEFINE out == {i \in 0 .. n : i \notin S}
  <1> SUFFICES ASSUME out # {} PROVE FALSE
      OBVIOUS
  <1>1. out \in SUBSET Nat /\ IsFiniteSet(out)
    <2>1. IsFiniteSet(0 .. n) /\ out \subseteq 0 .. n
        BY FS_Interval
    <2> HIDE DEF out
    <2>2. out \subseteq Nat
        BY <2>1
    <2>3. IsFiniteSet(out)
        BY <2>1, FS_Subset
    <2> QED
        BY <2>2, <2>3
  <1> DEFINE m == Min(out)
  <1>2. m \in out /\ \A i \in out : m <= i
      BY <1>1, MinIs
  <1> HIDE DEF m
  <1>3. m \in Nat /\ m # 0 /\ m - 1 \in 0 .. n - 1
      BY <1>2
  <1>4. m - 1 \in S
      BY <1>2, <1>3
  <1>5. m - 1 + 1 \in S
      BY <1>3, <1>4
  <1> QED
      BY <1>2, <1>3, <1>5

-----------------------------------------------------------------------------
\* What holds of a set when it holds of the set without any one of its elements, holds of
\* every subset of a finite set.
LEMMA SubsetsOf ==
  ASSUME NEW S, IsFiniteSet(S), NEW G,
         \A T \in SUBSET S : (\A x \in T : T \ {x} \in G) => T \in G
  PROVE  \A T \in SUBSET S : T \in G
  <1> DEFINE n == Cardinality(S)
             H == {i \in Nat : \A T \in SUBSET S : Cardinality(T) = i => T \in G}
  <1>1. n \in Nat /\ \A T \in SUBSET S : IsFiniteSet(T) /\ Cardinality(T) \in 0 .. n
    <2>1. n \in Nat
        BY FS_CardinalityType
    <2>2. ASSUME NEW T \in SUBSET S
          PROVE  IsFiniteSet(T) /\ Cardinality(T) \in 0 .. n
      <3>1. IsFiniteSet(T) /\ Cardinality(T) <= n
          BY FS_Subset
      <3>2. Cardinality(T) \in Nat
          BY <3>1, FS_CardinalityType
      <3> QED
          BY <2>1, <3>1, <3>2
    <2> QED
        BY <2>1, <2>2
  <1>2. 0 \in H
    <2>1. ASSUME NEW T \in SUBSET S, Cardinality(T) = 0
          PROVE  T \in G
      <3>1. T = {}
          BY <1>1, <2>1, FS_EmptySet
      <3> QED
          BY <3>1
    <2> QED
        BY <2>1
  <1>3. ASSUME NEW i \in 0 .. n - 1, i \in H
        PROVE  i + 1 \in H
    <2>1. ASSUME NEW T \in SUBSET S, Cardinality(T) = i + 1
          PROVE  T \in G
      <3>1. ASSUME NEW x \in T
            PROVE  T \ {x} \in G
        <4>1. IsFiniteSet(T)
            BY <1>1
        <4>3. Cardinality(T \ {x}) = i + 1 - 1
          <5>1. Cardinality(T \ {x}) = Cardinality(T) - 1
              BY <4>1, FS_RemoveElement
          <5> QED
              BY <2>1, <5>1
        <4>2. i + 1 - 1 = i
            OBVIOUS
        <4> QED
            BY <1>3, <4>2, <4>3
      <3> QED
          BY <3>1
    <2> QED
        BY <1>1, <2>1
  <1> HIDE DEF n, H
  <1>4. \A i \in 0 .. n : i \in H
      BY <1>1, <1>2, <1>3, UpTo
  <1> QED
      BY <1>1, <1>4 DEF H

\* The element that the folds of the community modules take first.
AnyOf(s) == CHOOSE x \in s : TRUE

\* f folds the subsets of S, from base on, with a step for each element.
IsFold(f, S, base, step) ==
  /\ f = [s \in SUBSET S |-> f[s]]
  /\ f[{}] = base
  /\ \A s \in SUBSET S : s # {} => f[s] = step[AnyOf(s)][f[s \ {AnyOf(s)}]]

\* A recursive function on the subsets of a finite set, which takes out the element that
\* CHOOSE finds, exists: so does the function that a fold of the community modules is.
LEMMA FoldExists ==
  ASSUME NEW S, IsFiniteSet(S), NEW base, NEW step
  PROVE  \E f : IsFold(f, S, base, step)
  <1> DEFINE n == Cardinality(S)
             To(k) == {s \in SUBSET S : Cardinality(s) <= k}
                          Is(f, k) == f = [s \in To(k) |-> IF s = {} THEN base
                                              ELSE step[AnyOf(s)][f[s \ {AnyOf(s)}]]]
             H == {k \in Nat : \E f : Is(f, k)}
  <1>1. n \in Nat /\ \A s \in SUBSET S : Cardinality(s) \in 0 .. n
    <2>1. n \in Nat
        BY FS_CardinalityType
    <2>2. ASSUME NEW s \in SUBSET S
          PROVE  Cardinality(s) \in 0 .. n
      <3>1. IsFiniteSet(s) /\ Cardinality(s) <= n
          BY FS_Subset
      <3>2. Cardinality(s) \in Nat
          BY <3>1, FS_CardinalityType
      <3> QED
          BY <2>1, <3>1, <3>2
    <2> QED
        BY <2>1, <2>2
  <1>2. ASSUME NEW k \in Nat, NEW s \in To(k), s # {}
        PROVE  s \ {AnyOf(s)} \in To(k) /\ (k > 0 => s \ {AnyOf(s)} \in To(k - 1))
    <2>1. AnyOf(s) \in s
        BY <1>2 DEF AnyOf
    <2>2. IsFiniteSet(s)
        BY FS_Subset
    <2>3. Cardinality(s \ {AnyOf(s)}) = Cardinality(s) - 1 /\ Cardinality(s) \in Nat
        BY <2>1, <2>2, FS_RemoveElement, FS_CardinalityType
    <2> QED
        BY <2>3
  <1>3. 0 \in H
    <2> DEFINE f == [s \in To(0) |-> base]
    <2>1. \A s \in To(0) : s = {}
      <3>1. ASSUME NEW s \in To(0)
            PROVE  s = {}
        <4>1. Cardinality(s) = 0
            BY <1>1
        <4>2. IsFiniteSet(s)
            BY FS_Subset
        <4> QED
            BY <4>1, <4>2, FS_EmptySet
      <3> QED
          BY <3>1
    <2>2. Is(f, 0)
      <3> HIDE DEF To
      <3> QED
          BY <2>1
    <2> HIDE DEF Is, f
    <2> QED
        BY <2>2
  <1>4. ASSUME NEW k \in 0 .. n - 1, k \in H
        PROVE  k + 1 \in H
    <2>1. PICK f : Is(f, k)
        BY <1>4
    <2> DEFINE g == [s \in To(k + 1) |-> IF s = {} THEN base
                                         ELSE step[AnyOf(s)][f[s \ {AnyOf(s)}]]]
    <2>2. \A s \in To(k) : s \in To(k + 1) /\ g[s] = f[s]
      <3>1. \A s \in To(k) : s \in To(k + 1)
          BY <1>1
      <3> HIDE DEF To
      <3> QED
          BY <2>1, <3>1
    <2>3. \A s \in To(k + 1) : s # {} => s \ {AnyOf(s)} \in To(k)
      <3>1. ASSUME NEW s \in To(k + 1), s # {}
            PROVE  s \ {AnyOf(s)} \in To(k)
        <4>1. k + 1 \in Nat /\ k + 1 > 0 /\ k + 1 - 1 = k
            BY <1>1
        <4> HIDE DEF To
        <4> QED
            BY <1>2, <3>1, <4>1
      <3> QED
          BY <3>1
    <2>4. Is(g, k + 1)
      <3> HIDE DEF To
      <3> QED
          BY <2>2, <2>3
    <2> HIDE DEF Is, g
    <2> QED
        BY <1>1, <2>4
  <1>5. n \in H
    <2> HIDE DEF H, n
    <2> QED
        BY <1>1, <1>3, <1>4, UpTo
  <1>6. To(n) = SUBSET S
      BY <1>1
  <1>7. PICK f : Is(f, n)
      BY <1>5
  <1>8. f = [s \in SUBSET S |-> IF s = {} THEN base ELSE step[AnyOf(s)][f[s \ {AnyOf(s)}]]]
    <2> HIDE DEF To, n
    <2> QED
        BY <1>6, <1>7
  <1>9. IsFold(f, S, base, step)
      BY <1>8 DEF IsFold
  <1> QED
      BY <1>9, Zenon

\* f sums fun over the subsets of S: any element can be taken out first.
IsSum(f, fun, S) ==
  /\ f \in [SUBSET S -> Nat]
  /\ f[S] = SumFunctionOnSet(fun, S)
  /\ f[{}] = 0
  /\ \A s \in SUBSET S : \A x \in s : f[s] = fun[x] + f[s \ {x}]

\* The recursive function that a sum over a finite set is, and what it is without any one
\* of the elements, whichever of them CHOOSE takes out first.
LEMMA SumIs ==
  ASSUME NEW S, IsFiniteSet(S), NEW fun, \A x \in S : fun[x] \in Nat
  PROVE  \E f : IsSum(f, fun, S)
  <1> DEFINE Is(f) == f = [s \in SUBSET S |-> IF s = {} THEN 0 ELSE fun[AnyOf(s)] + f[s \ {AnyOf(s)}]]
             iter == CHOOSE f : Is(f)
             step == [x \in S |-> [v \in Nat |-> fun[x] + v]]
  <1>1. SumFunctionOnSet(fun, S) = iter[S]
      BY DEF SumFunctionOnSet, FoldFunctionOnSet, MapThenFoldSet, AnyOf
  <1>2. PICK g : IsFold(g, S, 0, step)
    <2> HIDE DEF step
    <2> QED
        BY FoldExists, Zenon
  <1>3. /\ g = [s \in SUBSET S |-> g[s]]
        /\ g[{}] = 0
        /\ \A s \in SUBSET S : s # {} => g[s] = step[AnyOf(s)][g[s \ {AnyOf(s)}]]
      BY <1>2, Zenon DEF IsFold
  <1>4. \A s \in SUBSET S : s # {} => AnyOf(s) \in s
      BY Zenon DEF AnyOf
  <1>5. \A s \in SUBSET S : g[s] \in Nat
    <2> DEFINE G == {s \in SUBSET S : g[s] \in Nat}
    <2>1. ASSUME NEW s \in SUBSET S, \A x \in s : s \ {x} \in G
          PROVE  s \in G
      <3>1. CASE s = {}
          BY <1>3, <3>1
      <3>2. CASE s # {}
        <4>1. AnyOf(s) \in s /\ AnyOf(s) \in S /\ g[s \ {AnyOf(s)}] \in Nat
            BY <1>4, <2>1, <3>2
        <4>2. g[s] = step[AnyOf(s)][g[s \ {AnyOf(s)}]]
          <5> HIDE DEF step
          <5> QED
              BY <1>3, <3>2
        <4> QED
            BY <4>1, <4>2
      <3> QED
          BY <3>1, <3>2
    <2> HIDE DEF G
    <2>2. \A s \in SUBSET S : s \in G
        BY <2>1, SubsetsOf
    <2> QED
        BY <2>2 DEF G
  <1>6. Is(g)
    <2>1. \A s \in SUBSET S : s # {} => step[AnyOf(s)][g[s \ {AnyOf(s)}]] = fun[AnyOf(s)] + g[s \ {AnyOf(s)}]
        BY <1>4, <1>5
    <2> HIDE DEF step
    <2> QED
        BY <1>3, <2>1
  <1>7. Is(iter)
      BY <1>6
  <1> HIDE DEF Is, iter, step
  <1>8. \A s \in SUBSET S : iter[s] = IF s = {} THEN 0 ELSE fun[AnyOf(s)] + iter[s \ {AnyOf(s)}]
      BY <1>7 DEF Is
  <1>9. \A s \in SUBSET S : iter[s] \in Nat
    <2> DEFINE G == {s \in SUBSET S : iter[s] \in Nat}
    <2>1. ASSUME NEW s \in SUBSET S, \A x \in s : s \ {x} \in G
          PROVE  s \in G
      <3>1. CASE s = {}
        <4>1. iter[s] = 0
            BY <1>8, <3>1
        <4> QED
            BY <4>1
      <3>2. CASE s # {}
        <4>1. AnyOf(s) \in S /\ iter[s \ {AnyOf(s)}] \in Nat
            BY <1>4, <2>1, <3>2
        <4>2. iter[s] = fun[AnyOf(s)] + iter[s \ {AnyOf(s)}]
            BY <1>8, <3>2
        <4> QED
            BY <4>1, <4>2
      <3> QED
          BY <3>1, <3>2
    <2> HIDE DEF G
    <2>2. \A s \in SUBSET S : s \in G
        BY <2>1, SubsetsOf
    <2> QED
        BY <2>2 DEF G
  <1>10. iter \in [SUBSET S -> Nat]
      BY <1>7, <1>9 DEF Is
  <1>11. \A s \in SUBSET S : \A x \in s : iter[s] = fun[x] + iter[s \ {x}]
    <2> DEFINE G == {s \in SUBSET S : \A x \in s : iter[s] = fun[x] + iter[s \ {x}]}
    <2>1. ASSUME NEW s \in SUBSET S, \A x \in s : s \ {x} \in G
          PROVE  s \in G
      <3>1. ASSUME NEW x \in s
            PROVE  iter[s] = fun[x] + iter[s \ {x}]
        <4> DEFINE a == AnyOf(s)
                   rest == (s \ {a}) \ {x}
        <4>1. a \in s /\ iter[s] = fun[a] + iter[s \ {a}]
            BY <1>4, <1>8
        <4>2. CASE x = a
            BY <4>1, <4>2
        <4>3. CASE x # a
          <5> HIDE DEF a
          <5>1. iter[s \ {a}] = fun[x] + iter[rest]
              BY <2>1, <4>1, <4>3
          <5>2. iter[s \ {x}] = fun[a] + iter[(s \ {x}) \ {a}]
              BY <2>1, <4>1, <4>3
          <5>3. (s \ {x}) \ {a} = rest
              OBVIOUS
          <5>4. fun[x] \in Nat /\ fun[a] \in Nat /\ iter[rest] \in Nat
              BY <1>9, <4>1
          <5> HIDE DEF rest
          <5>5. iter[s \ {x}] = fun[a] + iter[rest]
              BY <5>2, <5>3
          <5> QED
              BY <4>1, <5>1, <5>4, <5>5
        <4> QED
            BY <4>2, <4>3
      <3> QED
          BY <3>1
    <2> HIDE DEF G
    <2>2. \A s \in SUBSET S : s \in G
        BY <2>1, SubsetsOf
    <2> QED
        BY <2>2 DEF G
  <1>12. IsSum(iter, fun, S)
      BY <1>1, <1>8, <1>10, <1>11 DEF IsSum
  <1> QED
      BY <1>12, Zenon

\* A sum is a number; it is 0 of nothing, and any element can be taken out of it.
LEMMA SumFacts ==
  ASSUME NEW S, IsFiniteSet(S), NEW fun, \A x \in S : fun[x] \in Nat
  PROVE  /\ SumFunctionOnSet(fun, S) \in Nat
         /\ S = {} => SumFunctionOnSet(fun, S) = 0
         /\ \A x \in S : SumFunctionOnSet(fun, S) = fun[x] + SumFunctionOnSet(fun, S \ {x})
  <1>1. ASSUME NEW T \in SUBSET S
        PROVE  \E f : IsSum(f, fun, T)
    <2>1. IsFiniteSet(T) /\ \A x \in T : fun[x] \in Nat
        BY FS_Subset
    <2> QED
        BY <2>1, SumIs, Zenon
  <1>2. PICK f : IsSum(f, fun, S)
      BY <1>1
  <1>3. ASSUME NEW x \in S
        PROVE  SumFunctionOnSet(fun, S \ {x}) = f[S \ {x}]
    <2> DEFINE R == S \ {x}
    <2>1. PICK g : IsSum(g, fun, R)
        BY <1>1
    <2> DEFINE G == {s \in SUBSET R : g[s] = f[s]}
    <2>2. IsFiniteSet(R)
        BY FS_RemoveElement
    <2>3. ASSUME NEW s \in SUBSET R, \A y \in s : s \ {y} \in G
          PROVE  s \in G
      <3>1. CASE s = {}
          BY <1>2, <2>1, <3>1 DEF IsSum
      <3>2. CASE s # {}
        <4>1. PICK y \in s : TRUE
            BY <3>2
        <4>2. f[s] = fun[y] + f[s \ {y}] /\ g[s] = fun[y] + g[s \ {y}]
            BY <1>2, <2>1 DEF IsSum
        <4>3. g[s \ {y}] = f[s \ {y}]
            BY <2>3
        <4> QED
            BY <4>2, <4>3
      <3> QED
          BY <3>1, <3>2
    <2> HIDE DEF G
    <2>4. \A s \in SUBSET R : s \in G
      <3> HIDE DEF R
      <3> QED
          BY <2>2, <2>3, SubsetsOf
    <2>5. R \in G
        BY <2>4
    <2> QED
        BY <2>1, <2>5 DEF G, IsSum
  <1> QED
      BY <1>2, <1>3 DEF IsSum

\* Only the values at its elements matter to a sum.
LEMMA SumSame ==
  ASSUME NEW S, IsFiniteSet(S), NEW fun, NEW gun,
         \A x \in S : fun[x] \in Nat /\ gun[x] = fun[x]
  PROVE  SumFunctionOnSet(gun, S) = SumFunctionOnSet(fun, S)
  <1> DEFINE G == {T \in SUBSET S : SumFunctionOnSet(gun, T) = SumFunctionOnSet(fun, T)}
  <1>1. ASSUME NEW T \in SUBSET S, \A x \in T : T \ {x} \in G
        PROVE  T \in G
    <2>1. IsFiniteSet(T) /\ (\A x \in T : fun[x] \in Nat) /\ (\A x \in T : gun[x] \in Nat)
        BY FS_Subset
    <2>2. CASE T = {}
        BY <2>1, <2>2, SumFacts
    <2>3. CASE T # {}
      <3>1. PICK x \in T : TRUE
          BY <2>3
      <3>2. SumFunctionOnSet(fun, T) = fun[x] + SumFunctionOnSet(fun, T \ {x})
          BY <2>1, SumFacts
      <3>3. SumFunctionOnSet(gun, T) = gun[x] + SumFunctionOnSet(gun, T \ {x})
          BY <2>1, SumFacts
      <3> QED
          BY <1>1, <3>2, <3>3
    <2> QED
        BY <2>2, <2>3
  <1> HIDE DEF G
  <1>2. \A T \in SUBSET S : T \in G
      BY <1>1, SubsetsOf
  <1> QED
      BY <1>2 DEF G

\* A sum is that of a part and that of the rest.
LEMMA SumSplits ==
  ASSUME NEW S, IsFiniteSet(S), NEW fun, \A x \in S : fun[x] \in Nat, NEW T \in SUBSET S
  PROVE  SumFunctionOnSet(fun, S) = SumFunctionOnSet(fun, T) + SumFunctionOnSet(fun, S \ T)
  <1> DEFINE sum(U) == SumFunctionOnSet(fun, U)
             G == {U \in SUBSET S : sum(S) = sum(U) + sum(S \ U)}
  <1>1. ASSUME NEW U \in SUBSET S
        PROVE  sum(U) \in Nat /\ (U = {} => sum(U) = 0) /\ \A x \in U : sum(U) = fun[x] + sum(U \ {x})
    <2>1. IsFiniteSet(U) /\ \A x \in U : fun[x] \in Nat
        BY FS_Subset
    <2> QED
        BY <2>1, SumFacts
  <1> HIDE DEF sum
  <1>2. ASSUME NEW U \in SUBSET S, \A x \in U : U \ {x} \in G
        PROVE  U \in G
    <2>1. CASE U = {}
      <3>1. sum(U) = 0 /\ S \ U = S /\ sum(S) \in Nat
          BY <1>1, <2>1
      <3>2. sum(S) = sum(U) + sum(S \ U)
          BY <3>1
      <3> QED
          BY <3>2
    <2>2. CASE U # {}
      <3>1. PICK x \in U : TRUE
          BY <2>2
      <3>2. sum(S) = sum(U \ {x}) + sum(S \ (U \ {x}))
          BY <1>2
      <3>3. sum(U) = fun[x] + sum(U \ {x})
          BY <1>1
      <3>4. (S \ (U \ {x})) \ {x} = S \ U /\ S \ (U \ {x}) \in SUBSET S /\ x \in S \ (U \ {x})
          OBVIOUS
      <3>5. sum(S \ (U \ {x})) = fun[x] + sum(S \ U)
          BY <1>1, <3>4
      <3>6. fun[x] \in Nat /\ sum(U \ {x}) \in Nat /\ sum(S \ U) \in Nat
          BY <1>1
      <3>7. sum(S) = sum(U) + sum(S \ U)
          BY <3>2, <3>3, <3>5, <3>6
      <3> QED
          BY <3>7
    <2> QED
        BY <2>1, <2>2
  <1> HIDE DEF G
  <1>3. \A U \in SUBSET S : U \in G
      BY <1>2, SubsetsOf
  <1> QED
      BY <1>3 DEF G, sum

\* A sum of equal values is the value times their number.
LEMMA SumOfEqual ==
  ASSUME NEW S, IsFiniteSet(S), NEW a \in Nat, NEW fun, \A x \in S : fun[x] = a
  PROVE  SumFunctionOnSet(fun, S) = Cardinality(S) * a
  <1> DEFINE G == {T \in SUBSET S : SumFunctionOnSet(fun, T) = Cardinality(T) * a}
  <1>1. ASSUME NEW T \in SUBSET S, \A x \in T : T \ {x} \in G
        PROVE  T \in G
    <2>1. IsFiniteSet(T) /\ (\A x \in T : fun[x] \in Nat)
        BY FS_Subset
    <2>2. CASE T = {}
        BY <2>1, <2>2, SumFacts, FS_EmptySet
    <2>3. CASE T # {}
      <3>1. PICK x \in T : TRUE
          BY <2>3
      <3>2. SumFunctionOnSet(fun, T) = a + SumFunctionOnSet(fun, T \ {x})
          BY <2>1, SumFacts
      <3> DEFINE c == Cardinality(T \ {x})
      <3>3. c \in Nat /\ Cardinality(T) = c + 1
        <4>1. c = Cardinality(T) - 1 /\ IsFiniteSet(T \ {x})
            BY <2>1, FS_RemoveElement
        <4>2. Cardinality(T) \in Nat
            BY <2>1, FS_CardinalityType
        <4>3. c \in Nat
            BY <4>1, FS_CardinalityType
        <4> HIDE DEF c
        <4> QED
            BY <4>1, <4>2, <4>3
      <3>4. SumFunctionOnSet(fun, T \ {x}) = c * a
          BY <1>1
      <3> HIDE DEF c
      <3>5. a + c * a = (c + 1) * a
          BY <3>3
      <3> QED
          BY <3>2, <3>3, <3>4, <3>5
    <2> QED
        BY <2>2, <2>3
  <1> HIDE DEF G
  <1>2. \A T \in SUBSET S : T \in G
      BY <1>1, SubsetsOf
  <1> QED
      BY <1>2 DEF G
===============================================================================
