------------------------ MODULE DownloadManager_proofs ------------------------
(***************************************************************************)
(* Proofs about DownloadManager.tla for any downloads, priorities and      *)
(* net.maxFiles.                                                           *)
(***************************************************************************)
EXTENDS DownloadManager, CollectionFacts, FiniteSetTheorems, TLAPS

AnyStatus == StatusType \cup {"absent", "gone"}

\* What Update is called with: the list, and a status and a priority for each download.
Listed(list, st, pr) ==
  /\ list \in Seq(Id) /\ IsInjective(list)
  /\ st \in [Id -> AnyStatus] /\ pr \in [Id -> Priorities]
  /\ Range(list) = {d \in Id : st[d] \in StatusType}

\* Weights are numbers, and those of waiting and transferring downloads are in the
\* order of their priorities.
LEMMA WeightIs ==
  ASSUME NEW a \in StatusType, NEW p \in Priorities
  PROVE  Weight(a, p) \in Nat /\ (a \in {"stop", "transfer"} => Weight(a, p) = 1 + p) /\ p \in Nat
  <1>1. p \in Nat
      BY PrioritiesAssumption
  <1>2. CASE a \in {"hash", "unhashed", "move", "error"}
      BY <1>1, <1>2 DEF Weight, High
  <1>3. CASE a \in {"stop", "transfer"}
      BY <1>1, <1>3 DEF Weight
  <1>4. CASE a = "pause"
      BY <1>1, <1>4 DEF Weight
  <1> QED
      BY <1>1, <1>2, <1>3, <1>4 DEF StatusType

\* Sorting keeps the downloads and puts the heavy ones first.
LEMMA SortedIs ==
  ASSUME NEW list, NEW st, NEW pr, Listed(list, st, pr)
  PROVE  LET s == Sorted(list, st, pr)
         IN /\ s \in Seq(Id) /\ IsInjective(s) /\ Range(s) = Range(list)
            /\ \A i, j \in DOMAIN s : i <= j =>
                 Weight(st[s[i]], pr[s[i]]) >= Weight(st[s[j]], pr[s[j]])
  <1> DEFINE n == Len(list)
             D == 1 .. n
             w(i) == Weight(st[list[i]], pr[list[i]])
             upTo(i) == {k \in D : w(k) > w(i) \/ (w(k) = w(i) /\ k <= i)}
             rank(i) == Cardinality(upTo(i))
             pos(m) == CHOOSE i \in D : rank(i) = m
  <1>1. /\ n \in Nat /\ DOMAIN list = D /\ \A i \in D : list[i] \in Id
        /\ \A i, j \in D : list[i] = list[j] => i = j
      BY LenProperties, ElementOfSeq DEF Listed, IsInjective
  <1>2. ASSUME NEW i \in D PROVE w(i) \in Nat
    <2>1. list[i] \in Range(list)
        BY <1>1 DEF Range
    <2>2. st[list[i]] \in StatusType /\ pr[list[i]] \in Priorities
        BY <2>1, <1>1 DEF Listed
    <2> QED
        BY <2>2, WeightIs
  <1> HIDE DEF n, w
  <1>3. IsFiniteSet(D) /\ Cardinality(D) = n
      BY <1>1, FS_Interval
  <1>4. ASSUME NEW i \in D PROVE rank(i) \in D
    <2>1. upTo(i) \subseteq D /\ i \in upTo(i)
        BY <1>2, <1>1
    <2>2. IsFiniteSet(upTo(i)) /\ rank(i) <= n /\ rank(i) \in Nat
        BY <2>1, <1>3, FS_Subset, FS_CardinalityType
    <2>3. rank(i) # 0
        BY <2>1, <2>2, FS_EmptySet
    <2> QED
        BY <2>2, <2>3, <1>1
  <1>5. ASSUME NEW i \in D, NEW k \in D, i # k, k \in upTo(i)
        PROVE  rank(k) < rank(i)
    <2>1. i \notin upTo(k) /\ i \in upTo(i)
        BY <1>1, <1>2, <1>5
    <2>2. upTo(k) \subseteq upTo(i)
        BY <1>1, <1>2, <1>5
    <2>3. IsFiniteSet(upTo(i))
        BY <1>3, FS_Subset
    <2> HIDE DEF upTo
    <2> QED
        BY <2>1, <2>2, <2>3, FewerIn
  <1>6. \A i, k \in D : k \in upTo(i) \/ i \in upTo(k)
      BY <1>1, <1>2
  <1> HIDE DEF upTo
  <1>7. \A i, k \in D : rank(i) = rank(k) => i = k
      BY <1>1, <1>4, <1>5, <1>6
  <1>8. \A m \in D : \E i \in D : rank(i) = m
    <2> DEFINE f == [i \in D |-> rank(i)]
    <2>1. f \in Injection(D, D)
        BY <1>4, <1>7 DEF Injection, IsInjective
    <2>2. f \in Surjection(D, D)
        BY <2>1, <1>3, FS_Injection
    <2> QED
        BY <2>2 DEF Surjection
  <1>9. \A m \in D : pos(m) \in D /\ rank(pos(m)) = m
      BY <1>8
  <1>10. \A i \in D : pos(rank(i)) = i
      BY <1>4, <1>7, <1>9
  <1> DEFINE s == Sorted(list, st, pr)
  <1>11. s = [m \in D |-> list[pos(m)]]
      BY <1>1 DEF Sorted, upTo, w
  <1> HIDE DEF s, rank, pos
  <1>12. s \in Seq(Id) /\ DOMAIN s = D
    <2>1. \A m \in D : list[pos(m)] \in Id
        BY <1>1, <1>9
    <2> QED
        BY <2>1, <1>1, <1>11, SeqDef
  <1>13. IsInjective(s)
      BY <1>1, <1>9, <1>11, <1>12 DEF IsInjective
  <1>14. Range(s) = Range(list)
    <2>1. ASSUME NEW x \in Range(list) PROVE x \in Range(s)
      <3>1. PICK i \in D : x = list[i]
          BY <1>1 DEF Range
      <3>2. rank(i) \in D /\ s[rank(i)] = x
          BY <3>1, <1>4, <1>10, <1>11
      <3> QED
          BY <3>2, <1>12 DEF Range
    <2>2. ASSUME NEW x \in Range(s) PROVE x \in Range(list)
        BY <1>1, <1>9, <1>11, <1>12 DEF Range
    <2> QED
        BY <2>1, <2>2
  <1>15. ASSUME NEW i \in D, NEW j \in D, i <= j PROVE w(pos(i)) >= w(pos(j))
    <2>1. SUFFICES ASSUME w(pos(i)) < w(pos(j)) PROVE FALSE
        BY <1>2, <1>9
    <2>2. pos(j) \in upTo(pos(i)) /\ pos(j) # pos(i)
        BY <2>1, <1>2, <1>9 DEF upTo
    <2>3. rank(pos(j)) < rank(pos(i))
        BY <2>2, <1>5, <1>9
    <2> QED
        BY <2>3, <1>9, <1>15, <1>1
  <1>16. \A i \in D : Weight(st[s[i]], pr[s[i]]) = w(pos(i))
      BY <1>11 DEF w
  <1> QED
      BY <1>12, <1>13, <1>14, <1>15, <1>16 DEF s

\* A download that is looked at stands before one that is not, for the first loop
\* counts upwards.
LEMMA VisitedIs ==
  ASSUME NEW s \in Seq(Id), IsInjective(s), NEW st, NEW failing,
         NEW started, started = {d \in Range(s) : d \in Visited(s, st, failing) /\
                                   (st[d] = "transfer" \/ (st[d] = "stop" /\ d \notin failing))}
  PROVE  /\ Visited(s, st, failing) \subseteq Range(s)
         /\ \A i, j \in DOMAIN s : s[i] \in Visited(s, st, failing) /\ s[j] \notin Visited(s, st, failing)
              => i <= j
         /\ Cardinality(started) <= MaxFiles
  <1> DEFINE n == Len(s)
             D == 1 .. n
             starts(d) == st[d] = "transfer" \/ (st[d] = "stop" /\ d \notin failing)
             before(i) == {k \in 1 .. i - 1 : starts(s[k])}
             count(i) == Cardinality(before(i))
             V == Visited(s, st, failing)
  <1>1. n \in Nat /\ DOMAIN s = D /\ \A i, j \in D : s[i] = s[j] => i = j
      BY LenProperties DEF IsInjective
  <1>2. V = {s[i] : i \in {i \in D : count(i) < MaxFiles}}
      BY <1>1 DEF Visited
  <1> HIDE DEF n, V
  <1>3. ASSUME NEW i \in D
        PROVE  IsFiniteSet(before(i)) /\ count(i) \in Nat
    <2>1. IsFiniteSet(1 .. i - 1)
        BY <1>1, FS_Interval
    <2> QED
        BY <2>1, FS_Subset, FS_CardinalityType
  <1>4. ASSUME NEW i \in D, NEW j \in D, i <= j PROVE count(i) <= count(j)
    <2>1. before(i) \subseteq before(j)
        BY <1>1, <1>4
    <2> QED
        BY <2>1, <1>3, FS_Subset
  <1>5. ASSUME NEW i \in D, NEW j \in D, i < j, starts(s[i]) PROVE count(i) < count(j)
    <2>1. before(i) \subseteq before(j) /\ i \in before(j) /\ i \notin before(i)
        BY <1>1, <1>5
    <2> HIDE DEF before
    <2> QED
        BY <2>1, <1>3, FewerIn
  <1> HIDE DEF before
  <1>6. \A i \in D : s[i] \in V <=> count(i) < MaxFiles
      BY <1>1, <1>2
  <1>7. V \subseteq Range(s)
      BY <1>1, <1>2 DEF Range
  <1>8. ASSUME NEW i \in D, NEW j \in D, s[i] \in V, s[j] \notin V PROVE i <= j
      BY <1>1, <1>3, <1>4, <1>6, <1>8, MaxFilesAssumption
  <1>9. Cardinality(started) <= MaxFiles
    <2> DEFINE at(d) == CHOOSE i \in D : s[i] = d
               f == [d \in started |-> count(at(d))]
    <2>1. ASSUME NEW d \in started PROVE at(d) \in D /\ s[at(d)] = d
        BY <1>1 DEF Range
    <2>2. ASSUME NEW d \in started
          PROVE  count(at(d)) \in 0 .. MaxFiles - 1 /\ starts(s[at(d)])
        BY <2>1, <1>3, <1>6, MaxFilesAssumption DEF V
    <2> HIDE DEF at, starts
    <2>3. ASSUME NEW d \in started, NEW e \in started, count(at(d)) = count(at(e)) PROVE d = e
        BY <2>1, <2>2, <2>3, <1>1, <1>3, <1>5
    <2> HIDE DEF count
    <2>4. f \in Injection(started, 0 .. MaxFiles - 1)
        BY <2>2, <2>3 DEF Injection, IsInjective
    <2>5. IsFiniteSet(0 .. MaxFiles - 1) /\ Cardinality(0 .. MaxFiles - 1) = MaxFiles
        BY MaxFilesAssumption, FS_Interval
    <2> HIDE DEF f
    <2> QED
        BY <2>4, <2>5, FS_Injection
  <1> QED
      BY <1>1, <1>7, <1>8, <1>9 DEF V

\* What SlotsRespected says of a status and a priority for each download.
Within(st)        == Cardinality({d \in Id : st[d] = "transfer"}) <= MaxFiles
Respected(st, pr) == \A d \in {x \in Id : st[x] = "stop"}, e \in {x \in Id : st[x] = "transfer"} :
                       pr[d] <= pr[e]

\* Whatever it is called with, Update leaves a list of the same downloads in which no
\* more than MaxFiles transfer, none of them less urgent than one that waits.
LEMMA UpdateIs ==
  ASSUME NEW list, NEW st, NEW pr, Listed(list, st, pr), Update(list, st, pr)
  PROVE  Listed(downloads_', status', priority') /\ SlotsRespected'
  <1>1. PICK failing \in SUBSET {d \in Id : st[d] = "stop" /\ MayFail} :
          \E sorted \in {Sorted(list, st, pr)} : \E visited \in {Visited(sorted, st, failing)} :
            /\ downloads_' = sorted
            /\ status' = [d \in Id |->
                            IF d \in visited /\ st[d] = "stop"
                            THEN IF d \in failing THEN "error" ELSE "transfer"
                            ELSE IF d \in Range(sorted) \ visited /\ st[d] = "transfer" THEN "stop"
                            ELSE st[d]]
            /\ priority' = pr
      BY DEF Update
  <1> DEFINE s == Sorted(list, st, pr)
             V == Visited(s, st, failing)
             new == status'
             started == {d \in Range(s) : d \in V /\
                           (st[d] = "transfer" \/ (st[d] = "stop" /\ d \notin failing))}
  <1>2. /\ downloads_' = s /\ priority' = pr
        /\ new = [d \in Id |->
                    IF d \in V /\ st[d] = "stop"
                    THEN IF d \in failing THEN "error" ELSE "transfer"
                    ELSE IF d \in Range(s) \ V /\ st[d] = "transfer" THEN "stop"
                    ELSE st[d]]
      BY <1>1
  <1>3. /\ s \in Seq(Id) /\ IsInjective(s) /\ Range(s) = Range(list)
        /\ \A i, j \in DOMAIN s : i <= j =>
             Weight(st[s[i]], pr[s[i]]) >= Weight(st[s[j]], pr[s[j]])
      BY SortedIs
  <1>4. st \in [Id -> AnyStatus] /\ pr \in [Id -> Priorities]
        /\ Range(list) = {d \in Id : st[d] \in StatusType}
      BY DEF Listed
  <1> HIDE DEF s
  <1>5. /\ V \subseteq Range(s)
        /\ \A i, j \in DOMAIN s : s[i] \in V /\ s[j] \notin V => i <= j
        /\ Cardinality(started) <= MaxFiles
      BY <1>3, VisitedIs
  <1> HIDE DEF V, new
  <1>6. new \in [Id -> AnyStatus] /\ \A d \in Id : new[d] \in StatusType <=> st[d] \in StatusType
      BY <1>2, <1>4 DEF AnyStatus, StatusType
  <1>7. Range(s) = {d \in Id : new[d] \in StatusType}
      BY <1>3, <1>4, <1>6
  <1>8. Listed(downloads_', status', priority')
      BY <1>2, <1>3, <1>4, <1>6, <1>7 DEF Listed, new
  <1>9. {d \in Id : new[d] = "transfer"} = started
      BY <1>2, <1>3, <1>4, <1>5 DEF StatusType
  <1>10. Within(new)
      BY <1>5, <1>9 DEF Within
  <1>11. ASSUME NEW d \in Id, NEW e \in Id, new[d] = "stop", new[e] = "transfer"
         PROVE  pr[d] <= pr[e]
    <2>1. d \in Range(s) /\ d \notin V /\ st[d] \in {"stop", "transfer"}
        BY <1>2, <1>7, <1>11 DEF StatusType
    <2>2. e \in V /\ st[e] \in {"stop", "transfer"} /\ e \in Range(s)
        BY <1>5, <1>9, <1>11
    <2>3. PICK i \in DOMAIN s : s[i] = e
        BY <2>2 DEF Range
    <2>4. PICK j \in DOMAIN s : s[j] = d
        BY <2>1 DEF Range
    <2>5. i <= j
        BY <1>5, <2>1, <2>2, <2>3, <2>4
    <2>6. Weight(st[e], pr[e]) >= Weight(st[d], pr[d])
        BY <1>3, <2>3, <2>4, <2>5
    <2>7. pr[d] \in Priorities /\ pr[e] \in Priorities
        BY <1>4
    <2>8. Weight(st[d], pr[d]) = 1 + pr[d] /\ pr[d] \in Nat
        BY <2>1, <2>7, WeightIs DEF StatusType
    <2>9. Weight(st[e], pr[e]) = 1 + pr[e] /\ pr[e] \in Nat
        BY <2>2, <2>7, WeightIs DEF StatusType
    <2> QED
        BY <2>6, <2>8, <2>9
  <1>12. Respected(new, pr)
      BY <1>11 DEF Respected
  <1>13. SlotsRespected'
    <2>1. WithinLimit'
        BY <1>10 DEF WithinLimit, Transferring, Within, new
    <2>2. PriorityRespected'
        BY <1>12, <1>2 DEF PriorityRespected, Waiting, Transferring, Respected, new
    <2> QED
        BY <2>1, <2>2 DEF SlotsRespected
  <1> QED
      BY <1>8, <1>13

-----------------------------------------------------------------------------
IInv == TypeOK /\ SlotsRespected

\* TypeOK is what Update needs and what it leaves, and a bound on the orders.
LEMMA TypeIsListed ==
  TypeOK <=> Listed(downloads_, status, priority) /\ orders \in 0 .. MaxOrders
  BY DEF TypeOK, Listed, InList, AnyStatus

\* An operation that ends with Update establishes the invariant, whatever the other
\* handlers have done to the statuses before.
LEMMA UpdateRestores ==
  ASSUME NEW list, NEW st, NEW pr, Listed(list, st, pr), Update(list, st, pr),
         orders' \in 0 .. MaxOrders
  PROVE  IInv'
  <1>1. Listed(downloads_', status', priority') /\ SlotsRespected'
      BY UpdateIs
  <1>2. TypeOK'
      BY <1>1 DEF TypeOK, Listed, InList, AnyStatus
  <1> QED
      BY <1>1, <1>2 DEF IInv

\* A handler that only takes a download out of the transfer keeps the invariant: it
\* may leave a slot free, and makes nobody wait.
LEMMA LeavesTransfer ==
  ASSUME IInv, NEW d \in Id, status[d] \in StatusType,
         NEW st \in {"hash", "unhashed", "move", "error"},
         status' = [status EXCEPT ![d] = st], UNCHANGED <<downloads_, priority, orders>>
  PROVE  IInv'
  <1>1. /\ status \in [Id -> AnyStatus] /\ st # "stop" /\ st # "transfer" /\ st \in StatusType
      BY DEF IInv, TypeOK, AnyStatus, StatusType
  <1>2. TypeOK'
      BY <1>1 DEF IInv, TypeOK, InList, StatusType
  <1>3. Transferring' \subseteq Transferring /\ Waiting' \subseteq Waiting
      BY <1>1 DEF Transferring, Waiting
  <1>4. IsFiniteSet(Transferring)
      BY IdAssumption, FS_Subset DEF Transferring
  <1>5. Cardinality(Transferring') <= Cardinality(Transferring)
        /\ Cardinality(Transferring) \in Nat /\ Cardinality(Transferring') \in Nat
      BY <1>3, <1>4, FS_Subset, FS_CardinalityType
  <1>6. WithinLimit'
      BY <1>5, MaxFilesAssumption DEF IInv, SlotsRespected, WithinLimit
  <1>7. PriorityRespected'
      BY <1>3 DEF IInv, SlotsRespected, PriorityRespected
  <1> QED
      BY <1>2, <1>6, <1>7 DEF IInv, SlotsRespected

\* Taking a download out of the list leaves the others in it.
LEMMA WithoutIs ==
  ASSUME NEW list \in Seq(Id), IsInjective(list), NEW d \in Range(list)
  PROVE  /\ Without(list, d) \in Seq(Id) /\ IsInjective(Without(list, d))
         /\ Range(Without(list, d)) = Range(list) \ {d}
  <1> DEFINE i == CHOOSE i \in DOMAIN list : list[i] = d
  <1>1. i \in DOMAIN list /\ list[i] = d
      BY DEF Range
  <1> HIDE DEF i
  <1> QED
      BY <1>1, RemoveAtFacts DEF Without, i

\* The directory gives each download that is found once.
LEMMA FoundIs ==
  ASSUME NEW found \in SUBSET Id, NEW list \in SetToSeqs(found)
  PROVE  list \in Seq(Id) /\ IsInjective(list) /\ Range(list) = found
  <1> DEFINE D == 1 .. Cardinality(found)
  <1>1. IsFiniteSet(found) /\ Cardinality(found) \in Nat
      BY IdAssumption, FS_Subset, FS_CardinalityType
  <1>2. list \in [D -> found] /\ IsInjective(list)
      BY DEF SetToSeqs, IsInjective
  <1>3. IsFiniteSet(D) /\ Cardinality(D) = Cardinality(found)
      BY <1>1, FS_Interval
  <1>4. list \in Injection(D, found)
      BY <1>2 DEF Injection
  <1>5. list \in Surjection(D, found)
      BY <1>1, <1>3, <1>4, FS_Injection
  <1>6. Range(list) = found
      BY <1>2, <1>5 DEF Range, Surjection
  <1>7. list \in Seq(Id)
      BY <1>1, <1>2, SeqDef
  <1> QED
      BY <1>2, <1>6, <1>7

-----------------------------------------------------------------------------
\* The incomplete folder and the files of the parameters give Update its first list.
LEMMA StartKeeps ==
  ASSUME IInv, Start PROVE IInv'
  <1>0. PICK found \in SUBSET Id :
          \E list \in SetToSeqs(found) :
            \E st \in [found -> {"stop", "pause"} \cup {e \in {"error"} : MayFail}] :
              Update(list, [d \in Id |-> IF d \in found THEN st[d] ELSE status[d]], priority)
      BY DEF Start
  <1>1. PICK list \in SetToSeqs(found), st \in [found -> {"stop", "pause", "error"}] :
          Update(list, [d \in Id |-> IF d \in found THEN st[d] ELSE status[d]], priority)
    <2>1. {"stop", "pause"} \cup {e \in {"error"} : MayFail} \subseteq {"stop", "pause", "error"}
        OBVIOUS
    <2> QED
        BY <1>0, <2>1
  <1> DEFINE start == [d \in Id |-> IF d \in found THEN st[d] ELSE status[d]]
  <1>2. list \in Seq(Id) /\ IsInjective(list) /\ Range(list) = found
      BY FoundIs
  <1>3. \A d \in Id : status[d] = "absent"
      BY DEF Start
  <1>4. start \in [Id -> AnyStatus] /\ found = {d \in Id : start[d] \in StatusType}
      BY <1>3 DEF AnyStatus, StatusType
  <1>5. Listed(list, start, priority)
      BY <1>2, <1>4 DEF Listed, IInv, TypeOK
  <1>6. orders' \in 0 .. MaxOrders
      BY DEF Start, IInv, TypeOK
  <1> HIDE DEF start
  <1>7. Update(list, start, priority)
      BY <1>1 DEF start
  <1> QED
      BY <1>5, <1>6, <1>7, UpdateRestores

\* A new download comes last, in STOP or in ERROR.
LEMMA CreateKeeps ==
  ASSUME IInv, NEW d \in Id, Create(d) PROVE IInv'
  <1>1. PICK st \in {"stop", "error"} :
          Update(Append(downloads_, d), [status EXCEPT ![d] = st], priority)
      BY DEF Create
  <1>2. /\ downloads_ \in Seq(Id) /\ IsInjective(downloads_) /\ priority \in [Id -> Priorities]
        /\ status \in [Id -> AnyStatus]
        /\ Range(downloads_) = {x \in Id : status[x] \in StatusType} /\ status[d] = "absent"
      BY DEF IInv, TypeOK, InList, AnyStatus, Create
  <1>3. d \notin Range(downloads_)
      BY <1>2 DEF StatusType
  <1>4. /\ Append(downloads_, d) \in Seq(Id) /\ IsInjective(Append(downloads_, d))
        /\ Range(Append(downloads_, d)) = Range(downloads_) \cup {d}
      BY <1>2, <1>3, PushFacts
  <1>5. /\ [status EXCEPT ![d] = st] \in [Id -> AnyStatus]
        /\ {x \in Id : [status EXCEPT ![d] = st][x] \in StatusType}
             = {x \in Id : status[x] \in StatusType} \cup {d}
      BY <1>2 DEF AnyStatus, StatusType
  <1>6. Listed(Append(downloads_, d), [status EXCEPT ![d] = st], priority)
      BY <1>2, <1>4, <1>5 DEF Listed
  <1>7. orders' \in 0 .. MaxOrders
      BY OrdersAssumption DEF Create, IInv, TypeOK
  <1> QED
      BY <1>1, <1>6, <1>7, UpdateRestores

\* A download that ends, or is cancelled, leaves the list.
LEMMA DetachKeeps ==
  ASSUME IInv, NEW d \in InList, Detach(d), orders' \in 0 .. MaxOrders PROVE IInv'
  <1> DEFINE gone == [status EXCEPT ![d] = "gone"]
  <1>1. /\ downloads_ \in Seq(Id) /\ IsInjective(downloads_) /\ priority \in [Id -> Priorities]
        /\ status \in [Id -> AnyStatus] /\ d \in Range(downloads_) /\ d \in Id
        /\ Range(downloads_) = {x \in Id : status[x] \in StatusType}
      BY DEF IInv, TypeOK, InList, AnyStatus
  <1>2. /\ Without(downloads_, d) \in Seq(Id) /\ IsInjective(Without(downloads_, d))
        /\ Range(Without(downloads_, d)) = Range(downloads_) \ {d}
      BY <1>1, WithoutIs
  <1>3. /\ gone \in [Id -> AnyStatus]
        /\ {x \in Id : gone[x] \in StatusType} = {x \in Id : status[x] \in StatusType} \ {d}
      BY <1>1 DEF AnyStatus, StatusType
  <1> HIDE DEF gone
  <1>4. Listed(Without(downloads_, d), gone, priority)
      BY <1>1, <1>2, <1>3 DEF Listed
  <1>5. Update(Without(downloads_, d), gone, priority)
      BY DEF Detach, gone
  <1> QED
      BY <1>4, <1>5, UpdateRestores

\* A user who changes the statuses or the priorities of listed downloads takes none
\* out of the list.
LEMMA OrderKeeps ==
  ASSUME IInv, NEW st \in [Id -> AnyStatus], NEW pr \in [Id -> Priorities],
         \A d \in Id : st[d] \in StatusType <=> status[d] \in StatusType,
         Update(downloads_, st, pr), orders < MaxOrders, orders' = orders + 1
  PROVE  IInv'
  <1>1. Listed(downloads_, st, pr)
      BY DEF Listed, IInv, TypeOK, InList
  <1>2. orders' \in 0 .. MaxOrders
      BY OrdersAssumption DEF IInv, TypeOK
  <1> QED
      BY <1>1, <1>2, UpdateRestores

\* Pausing, resuming and a new priority are such changes.
LEMMA OrdersKeep ==
  ASSUME IInv, NEW selected \in SUBSET Id,
         Pause(selected) \/ Resume(selected) \/ \E p \in Priorities : SetPriority(selected, p)
  PROVE  IInv'
  <1>1. status \in [Id -> AnyStatus] /\ priority \in [Id -> Priorities]
      BY DEF IInv, TypeOK, AnyStatus
  <1>2. CASE Pause(selected)
    <2> DEFINE st == [d \in Id |-> IF d \in selected THEN "pause" ELSE status[d]]
    <2>1. st \in [Id -> AnyStatus] /\ \A d \in Id : st[d] \in StatusType <=> status[d] \in StatusType
        BY <1>1, <1>2 DEF Pause, InList, AnyStatus, StatusType
    <2>2. Update(downloads_, st, priority) /\ orders < MaxOrders /\ orders' = orders + 1
        BY <1>2 DEF Pause
    <2> HIDE DEF st
    <2> QED
        BY <1>1, <2>1, <2>2, OrderKeeps
  <1>3. CASE Resume(selected)
    <2>1. PICK failing \in SUBSET selected :
            Update(downloads_,
                   [d \in Id |-> IF d \in failing THEN "error"
                                 ELSE IF d \in selected THEN "transfer" ELSE status[d]],
                   priority)
        BY <1>3 DEF Resume
    <2> DEFINE st == [d \in Id |-> IF d \in failing THEN "error"
                                  ELSE IF d \in selected THEN "transfer" ELSE status[d]]
    <2>2. st \in [Id -> AnyStatus] /\ \A d \in Id : st[d] \in StatusType <=> status[d] \in StatusType
        BY <1>1, <1>3 DEF Resume, AnyStatus, StatusType
    <2> HIDE DEF st
    <2>3. Update(downloads_, st, priority)
        BY <2>1 DEF st
    <2>4. orders < MaxOrders /\ orders' = orders + 1
        BY <1>3 DEF Resume
    <2> QED
        BY <1>1, <2>2, <2>3, <2>4, OrderKeeps
  <1>4. CASE \E p \in Priorities : SetPriority(selected, p)
    <2>1. PICK p \in Priorities : SetPriority(selected, p)
        BY <1>4
    <2> DEFINE pr == [d \in Id |-> IF d \in selected THEN p ELSE priority[d]]
    <2>2. pr \in [Id -> Priorities]
        BY <1>1
    <2>3. Update(downloads_, status, pr) /\ orders < MaxOrders /\ orders' = orders + 1
        BY <2>1 DEF SetPriority
    <2> HIDE DEF pr
    <2> QED
        BY <1>1, <2>2, <2>3, OrderKeeps
  <1> QED
      BY <1>2, <1>3, <1>4

\* No download transfers before the list is loaded.
LEMMA InitHolds == Init => IInv
  <1> SUFFICES ASSUME Init PROVE IInv
      OBVIOUS
  <1>1. TypeOK
    <2>1. downloads_ \in Seq(Id) /\ Range(downloads_) = {} /\ IsInjective(downloads_)
        BY EmptySeq DEF Init, Range, IsInjective
    <2> QED
        BY <2>1, OrdersAssumption DEF Init, TypeOK, InList, StatusType
  <1>2. Transferring = {} /\ Waiting = {}
      BY DEF Init, Transferring, Waiting
  <1> QED
      BY <1>1, <1>2, FS_EmptySet, MaxFilesAssumption
      DEF IInv, SlotsRespected, WithinLimit, PriorityRespected

\* Every action keeps the invariant.
LEMMA StepKeeps == IInv /\ [Next]_vars => IInv'
  <1> SUFFICES ASSUME IInv, [Next]_vars PROVE IInv'
      OBVIOUS
  <1>1. CASE Start
      BY <1>1, StartKeeps
  <1>2. CASE \E d \in Id : Create(d)
      BY <1>2, CreateKeeps
  <1>3. CASE \E d \in Id : Arrives(d) \/ Hashed(d) \/ CopyFails(d)
    <2>1. PICK d \in Id : Arrives(d) \/ Hashed(d) \/ CopyFails(d)
        BY <1>3
    <2>2. PICK st \in {"hash", "unhashed", "move", "error"} : status' = [status EXCEPT ![d] = st]
        BY <2>1 DEF Arrives, Hashed, CopyFails
    <2>3. status[d] \in StatusType /\ UNCHANGED <<downloads_, priority, orders>>
        BY <2>1 DEF Arrives, Hashed, CopyFails, StatusType
    <2> QED
        BY <2>2, <2>3, LeavesTransfer
  <1>4. CASE \E d \in Id : Copied(d) \/ Cancel(d)
    <2>1. PICK d \in Id : Copied(d) \/ Cancel(d)
        BY <1>4
    <2>2. d \in InList /\ Detach(d)
        BY <2>1 DEF Copied, Cancel, InList, StatusType
    <2>3. orders' \in 0 .. MaxOrders
        BY <2>1, OrdersAssumption DEF Copied, Cancel, IInv, TypeOK
    <2> QED
        BY <2>2, <2>3, DetachKeeps
  <1>5. CASE \E selected \in SUBSET Id :
               \/ Pause(selected) \/ Resume(selected)
               \/ \E p \in Priorities : SetPriority(selected, p)
      BY <1>5, OrdersKeep
  <1>6. CASE UNCHANGED vars
      BY <1>6 DEF vars, IInv, TypeOK, InList, SlotsRespected, WithinLimit, PriorityRespected,
                  Transferring, Waiting
  <1> QED
      BY <1>1, <1>2, <1>3, <1>4, <1>5, <1>6 DEF Next

\* The list of the manager holds every live download once, and nothing else.
THEOREM ListIsComplete == Spec => []TypeOK
  <1>1. IInv => TypeOK
      BY DEF IInv
  <1> QED
      BY <1>1, InitHolds, StepKeeps, PTL DEF Spec

\* Whatever users order and in whatever order downloads end, no more than net.maxFiles
\* transfer, and none that waits has a higher priority than one of those.
THEOREM SlotsAreRespected == Spec => []SlotsRespected
  <1>1. IInv => SlotsRespected
      BY DEF IInv
  <1> QED
      BY <1>1, InitHolds, StepKeeps, PTL DEF Spec
===============================================================================
