--------------------------- MODULE DownloadManager ---------------------------
(***************************************************************************)
(* DownloadManager (downloadmanager.cpp): which downloads transfer, which  *)
(* wait, and whose timers run.  A Download is seen through its status and  *)
(* its priority; Download.tla has the rest of it.  The manager is told of  *)
(* the end of a download and of what a user does, not of any other change  *)
(* of a status.                                                            *)
(***************************************************************************)
EXTENDS Integers, Sequences, FiniteSets, SequencesExt

CONSTANTS Id,          \* the downloads
          MaxFiles,    \* net.maxFiles
          Priorities,  \* the priorities a user may give
          MayFail,     \* may a file be unreadable, or a copy fail?
          MaxOrders    \* bound on what the users order

ASSUME IdAssumption         == IsFiniteSet(Id)
ASSUME MaxFilesAssumption   == MaxFiles \in Nat
ASSUME PrioritiesAssumption == Priorities \subseteq 0 .. 4 /\ Priorities # {}
ASSUME FailAssumption       == MayFail \in BOOLEAN
ASSUME OrdersAssumption     == MaxOrders \in Nat

VARIABLES downloads_,  \* DownloadManager::downloads_
          status,      \* Download::status_; "absent" before and "gone" after, and
                       \* "unhashed" for HASH without a task, after an error
          priority,    \* Download::priority_
          orders       \* how often a user has ordered something

vars == <<downloads_, status, priority, orders>>

StatusType == {"transfer", "hash", "unhashed", "move", "pause", "stop", "error"}
InList == {d \in Id : status[d] \in StatusType}

TypeOK == /\ downloads_ \in Seq(Id) /\ IsInjective(downloads_)
          /\ status \in [Id -> StatusType \cup {"absent", "gone"}]
          /\ priority \in [Id -> Priorities]
          /\ Range(downloads_) = InList
          /\ orders \in 0 .. MaxOrders

-----------------------------------------------------------------------------
\* GetWeight with the numbers made small: LOW, AVERAGE + Priority(), HIGH
High == 6
WeightFlatFault(st, p) == CASE st \in {"hash", "unhashed", "move", "error"} -> High
                            [] st \in {"stop", "transfer"} -> 1
                            [] st = "pause" -> 0
WeightPauseFault(st, p) == CASE st \in {"hash", "unhashed", "move", "error", "pause"} -> High
                             [] st \in {"stop", "transfer"} -> 1 + p
Weight(st, p) == CASE st \in {"hash", "unhashed", "move", "error"} -> High
                   [] st \in {"stop", "transfer"} -> 1 + p
                   [] st = "pause" -> 0

\* std::stable_sort with CompareDownloads
Sorted(list, st, pr) ==
  LET weight(i) == Weight(st[list[i]], pr[list[i]])
      upTo(i)   == {k \in DOMAIN list : weight(k) > weight(i) \/ (weight(k) = weight(i) /\ k <= i)}
  IN [n \in DOMAIN list |-> list[CHOOSE i \in DOMAIN list : Cardinality(upTo(i)) = n]]

\* The first loop of Update goes on until MaxFiles downloads transfer, those in
\* STOP being resumed unless that fails: the downloads that it looks at.
Visited(sorted, st, failing) ==
  LET starts(d) == st[d] = "transfer" \/ (st[d] = "stop" /\ d \notin failing)
  IN {sorted[i] : i \in {i \in DOMAIN sorted :
        Cardinality({k \in 1 .. i - 1 : starts(sorted[k])}) < MaxFiles}}

\* The second loop of Update is missing.
UpdateFault(list, st, pr) ==
  \E failing \in SUBSET {d \in Id : st[d] = "stop" /\ MayFail} :
    \E sorted \in {Sorted(list, st, pr)} : \E visited \in {Visited(sorted, st, failing)} :
       /\ downloads_' = sorted
       /\ status' = [d \in Id |->
                       IF d \in visited /\ st[d] = "stop"
                       THEN IF d \in failing THEN "error" ELSE "transfer"
                       ELSE st[d]]
       /\ priority' = pr

\* DownloadManager::Update with the statuses and priorities it finds; the second
\* loop stops what transfers behind those that the first has looked at.
Update(list, st, pr) ==
  \E failing \in SUBSET {d \in Id : st[d] = "stop" /\ MayFail} :
    \E sorted \in {Sorted(list, st, pr)} : \E visited \in {Visited(sorted, st, failing)} :
       /\ downloads_' = sorted
       /\ status' = [d \in Id |->
                       IF d \in visited /\ st[d] = "stop"
                       THEN IF d \in failing THEN "error" ELSE "transfer"
                       ELSE IF d \in Range(sorted) \ visited /\ st[d] = "transfer" THEN "stop"
                       ELSE st[d]]
       /\ priority' = pr

\* DownloadManager::Start: what was found in the incomplete folder, in the order
\* of the directory, and what LoadParams has read about it; a file that cannot be
\* written is left in ERROR.
Init == /\ downloads_ = <<>>
        /\ status = [d \in Id |-> "absent"]
        /\ priority \in [Id -> Priorities]
        /\ orders = 0

Start == /\ orders = 0 /\ downloads_ = <<>> /\ \A d \in Id : status[d] = "absent"
         /\ \E found \in SUBSET Id : \E list \in SetToSeqs(found) :
              \E st \in [found -> {"stop", "pause"} \cup {e \in {"error"} : MayFail}] :
                 Update(list, [d \in Id |-> IF d \in found THEN st[d] ELSE status[d]], priority)
         /\ orders' = orders

\* DownloadManager::Create; the file may not get its size, which leaves ERROR.
Create(d) ==
  /\ status[d] = "absent" /\ orders < MaxOrders
  /\ \E st \in {"stop"} \cup {e \in {"error"} : MayFail} :
        Update(Append(downloads_, d), [status EXCEPT ![d] = st], priority)
  /\ orders' = orders + 1

Without(list, d) == RemoveAt(list, CHOOSE i \in DOMAIN list : list[i] = d)

\* The list is not looked at again.
DetachFault(d) == /\ downloads_' = Without(downloads_, d)
                  /\ status' = [status EXCEPT ![d] = "gone"]
                  /\ UNCHANGED priority

\* DownloadManager::Detach, from Download::DetachMe
Detach(d) == Update(Without(downloads_, d), [status EXCEPT ![d] = "gone"], priority)

-----------------------------------------------------------------------------
(* What a download does by itself.  The manager learns of the last only.       *)

\* Download::FileUpdated: everything has arrived, or has its verdict.
Arrives(d) == /\ status[d] = "transfer"
              /\ \E st \in {"hash", "move"} : status' = [status EXCEPT ![d] = st]
              /\ UNCHANGED <<downloads_, priority, orders>>

\* Download::Hashed and the FileComplete that follows; after an error the download
\* stays in HASH, and nothing looks at it again.
Hashed(d) == /\ status[d] = "hash"
             /\ \E st \in {"move"} \cup {e \in {"unhashed"} : MayFail} :
                   status' = [status EXCEPT ![d] = st]
             /\ UNCHANGED <<downloads_, priority, orders>>

\* Download::Copied; what fails after a copy that is good changes nothing here.
Copied(d) == /\ status[d] = "move"
             /\ Detach(d)
             /\ UNCHANGED orders

CopyFails(d) == /\ MayFail /\ status[d] = "move"
                /\ status' = [status EXCEPT ![d] = "error"]
                /\ UNCHANGED <<downloads_, priority, orders>>

-----------------------------------------------------------------------------
(* What a user does: an order goes to the selected downloads, and the          *)
(* interfaces call Update after it.                                            *)

\* Download::Pause
Pause(selected) ==
  /\ selected # {} /\ selected \subseteq InList /\ orders < MaxOrders
  /\ Update(downloads_, [d \in Id |-> IF d \in selected THEN "pause" ELSE status[d]], priority)
  /\ orders' = orders + 1

\* Download::Resume of downloads that may be resumed
Resume(selected) ==
  /\ selected # {} /\ \A d \in selected : status[d] \in {"pause", "stop"}
  /\ orders < MaxOrders
  /\ \E failing \in SUBSET {d \in selected : MayFail} :
       Update(downloads_,
              [d \in Id |-> IF d \in failing THEN "error"
                            ELSE IF d \in selected THEN "transfer" ELSE status[d]],
              priority)
  /\ orders' = orders + 1

\* Download::Priority
SetPriority(selected, p) ==
  /\ selected # {} /\ selected \subseteq InList /\ orders < MaxOrders
  /\ Update(downloads_, status, [d \in Id |-> IF d \in selected THEN p ELSE priority[d]])
  /\ orders' = orders + 1

\* Download::Cancel
Cancel(d) == /\ d \in InList /\ orders < MaxOrders
             /\ Detach(d)
             /\ orders' = orders + 1

Next == \/ Start
        \/ \E d \in Id : \/ Create(d) \/ Arrives(d) \/ Hashed(d) \/ Copied(d) \/ CopyFails(d)
                         \/ Cancel(d)
        \/ \E selected \in SUBSET Id : \/ Pause(selected) \/ Resume(selected)
                                       \/ \E p \in Priorities : SetPriority(selected, p)

Spec == Init /\ [][Next]_vars

\* The worker ends the task that each of the two statuses has, well or with an error;
\* nothing is assumed of the hosts that send the files or of the users.
FairSpec == Spec /\ \A d \in Id : WF_vars(Hashed(d)) /\ WF_vars(Copied(d))

-----------------------------------------------------------------------------
Transferring == {d \in Id : status[d] = "transfer"}
Waiting      == {d \in Id : status[d] = "stop"}

\* DownloadManager::OnTimer runs the timers of the downloads before the first one
\* that does not transfer.
Served == {downloads_[i] : i \in {i \in DOMAIN downloads_ :
                                    \A k \in 1 .. i : status[downloads_[k]] = "transfer"}}

\* A download that failed, in ERROR or in HASH, stays first in the list until a user
\* pauses or cancels it.
Stuck == \E d \in Id : status[d] \in {"error", "unhashed"}

\* No more than net.maxFiles downloads transfer, whatever users resume.
WithinLimit == Cardinality(Transferring) <= MaxFiles

\* No download waits while one of a lower priority transfers.
PriorityRespected == \A d \in Waiting, e \in Transferring : priority[d] <= priority[e]

\* The list of transfers after any order of the users and any end of a download.
SlotsRespected == WithinLimit /\ PriorityRespected

\* A download in HASH or MOVE keeps the timers behind it from running, until it is
\* gone: no download that transfers is left without a timer for ever, unless one that
\* has failed is kept, which has the same effect.
NobodyStarves == \A d \in Id : []<>((d \in Transferring => d \in Served) \/ Stuck)

\* A slot that is free when a download leaves TRANSFER is not filled at once, but
\* it is filled when that download is gone, unless it fails and is kept.
SlotsAreUsed == []<>(Waiting = {} \/ Cardinality(Transferring) = MaxFiles \/ Stuck)
=============================================================================
