---------------------------- MODULE UploadManager ----------------------------
(***************************************************************************)
(* UploadManager with its UploaderImps, which take their sockets from      *)
(* Gatekeepers and their bytes from the TrafManager of the uploads.  The   *)
(* place in a list decides who may send.  An uploader answers requests one *)
(* after the other on the same connection; when it gets no bytes it waits  *)
(* for its timer.                                                          *)
(*                                                                         *)
(* An operation on the socket is in ops from its beginning until its       *)
(* handler runs.  When the socket is closed it comes as operation_aborted, *)
(* which every handler ignores: it is taken out.                           *)
(***************************************************************************)
EXTENDS TrafManager, Sequences, SequencesExt

CONSTANTS Uploader,      \* UploaderImp objects: numbers
          Host,          \* addresses of peers
          MaxUploads, QueueSize, UploadsPerHost,  \* settings
          Length,        \* of the range that is asked for, in pieces
          BulkSize       \* pieces sent at once

ASSUME UploaderAssumption == Uploader \subseteq Nat
ASSUME SettingAssumption  == MaxUploads \in Nat /\ QueueSize \in Nat /\ UploadsPerHost \in Nat
ASSUME LengthAssumption   == Length \in Nat \ {0} /\ BulkSize \in Nat \ {0}

VARIABLES ups,       \* the uploaders
          uploaders, \* uploaders_
          traf,      \* pUploadTraf
          spent,     \* history: bytes taken from it in this second
          running    \* no exception has left the io_service

vars == <<ups, uploaders, traf, spent, running>>

\* timestamp_: less than pollMin ago, more than the timeout ago, or neither.
Age == {"recent", "old", "stale"}
Op  == {"response", "data", "request"}

TypeOK ==
  /\ ups \in [Uploader -> [host : Host, status : {"idle", "queued", "transfer", "closing", "closed"},
                           pos : Nat,          \* queuePos_
                           offset : 0 .. Length,
                           bwlimit : BOOLEAN,
                           age : Age,
                           open : BOOLEAN,     \* pSock_
                           late : BOOLEAN,     \* the Timeout of the gatekeeper is in the queue
                           done : BOOLEAN,     \* and it found a completion behind it
                           ops : Seq(Op)]]
  /\ uploaders \in Seq(Uploader)
  /\ traf.share \in 0 .. MaxShare /\ DOMAIN traf.clients \subseteq Host
  /\ spent \in Nat /\ running \in BOOLEAN

Closed == [host |-> CHOOSE h \in Host : TRUE, status |-> "closed", pos |-> 0, offset |-> 0, bwlimit |-> FALSE,
           age |-> "recent", open |-> FALSE, late |-> FALSE, done |-> FALSE, ops |-> <<>>]

Init == /\ ups = [u \in Uploader |-> Closed]
        /\ uploaders = <<>>
        /\ traf = NoTraffic /\ spent = 0
        /\ running = TRUE

-----------------------------------------------------------------------------
(* What handlers do, on a record of the state.                               *)

Now == [ups |-> ups, uploaders |-> uploaders, traf |-> traf, spent |-> spent, running |-> running]

\* An object that is closed and has nothing under way is gone.
Become(state) ==
  \E s \in {state} :
    /\ ups' = [u \in Uploader |-> IF s.ups[u].status = "closed" /\ ~s.ups[u].late THEN Closed ELSE s.ups[u]]
    /\ uploaders' = s.uploaders /\ traf' = s.traf /\ spent' = s.spent /\ running' = s.running

\* An operation on a closed socket fails, but that comes later, too.
Begin(s, u, op) == [s EXCEPT !.ups[u].ops = Append(@, op)]

-----------------------------------------------------------------------------
(* UploadManager.                                                            *)

\* The first one after the uploads that may be sent is not in the queue, either.
PlaceFault(i) == IF i <= MaxUploads + 1 THEN 0 ELSE i - MaxUploads

\* The place in the queue of the i-th of the list: the first MaxUploads are not in it.
Place(i) == IF i <= MaxUploads THEN 0 ELSE i - MaxUploads

PlaceOf(s, u) == CHOOSE i \in DOMAIN s.uploaders : s.uploaders[i] = u

UpdateQueue(s) ==
  [s EXCEPT !.ups = [u \in Uploader |->
     IF u \in Range(s.uploaders) THEN [s.ups[u] EXCEPT !.pos = Place(PlaceOf(s, u))] ELSE s.ups[u]]]

Detach(s, u) == UpdateQueue(IF u \in Range(s.uploaders)
                            THEN [s EXCEPT !.uploaders = RemoveAt(@, PlaceOf(s, u))] ELSE s)

\* Accept: the second comparison lets one more in than there are places.
MayAccept(h) == /\ Cardinality({u \in Range(uploaders) : ups[u].host = h}) < UploadsPerHost
                /\ Len(uploaders) <= QueueSize + MaxUploads

-----------------------------------------------------------------------------
(* UploaderImp.                                                              *)

Close(s, u) == [s EXCEPT !.ups[u] = [@ EXCEPT !.status = "closed", !.open = FALSE, !.done = FALSE,
                                              !.ops = <<>>]]
DetachMe(s, u) == Detach(Close(s, u), u)

\* Transfer, up to the reading of the file, which may throw when there is anything to
\* read: bytes are taken from the TrafManager, as many as it gives.
Taken(s, u) ==
  LET g == Use(s.traf, s.ups[u].host, Min({Length - s.ups[u].offset, BulkSize}))
  IN [s EXCEPT !.traf = g.left, !.spent = @ + g.given, !.ups[u].age = "recent"]
Given(s, u) == Taken(s, u).spent - s.spent

\* bwlimit_ stays set when there are bytes again.
TransferFault(s, u) ==
  IF Given(s, u) = 0 THEN [Taken(s, u) EXCEPT !.ups[u].bwlimit = TRUE]
  ELSE Begin([Taken(s, u) EXCEPT !.ups[u].offset = @ + Given(s, u)], u, "data")

\* The rest of it: they are sent, or the uploader waits for its timer.
Transfer(s, u) ==
  IF Given(s, u) = 0 THEN [Taken(s, u) EXCEPT !.ups[u].bwlimit = TRUE]
  ELSE Begin([Taken(s, u) EXCEPT !.ups[u] = [@ EXCEPT !.bwlimit = FALSE,
                                                      !.offset = s.ups[u].offset + Given(s, u)]], u, "data")

\* HandleRequest: one that comes too early, or that cannot be served, is the last; one
\* that is not among the first is told its place.
HandleRequest(s, u, good) ==
  LET v == s.ups[u]
      status == IF ~good \/ (v.status = "queued" /\ v.age = "recent") THEN "closing"
                ELSE IF v.pos > 0 THEN "queued" ELSE "transfer"
  IN Begin([s EXCEPT !.ups[u] = [@ EXCEPT !.status = status, !.offset = 0, !.age = "recent"]], u, "response")

\* Accept of a gatekeeper whose request is complete, and Start.  Its timer may have
\* fired already: Timeout is in the queue, behind this handler.
Accept(h, good, late) ==
  /\ running /\ MayAccept(h)
  /\ \E u \in Uploader :
       /\ ups[u] = Closed /\ \A v \in Uploader : ups[v] = Closed => u <= v
       /\ LET s == [Now EXCEPT !.ups[u] = [Closed EXCEPT !.host = h, !.status = "idle", !.open = TRUE, !.late = late],
                               !.uploaders = Append(@, u)]
          IN Become(HandleRequest(UpdateQueue(s), u, good))

\* The completion of the first operation of u.  It waits behind a Timeout in the queue.
\* It is ok when there was no error, and the file is still in the index of the share
\* manager: on a closed socket it is not, unless it was done before.
Completes(u, op, ok) == /\ running
                        /\ ups[u].ops # <<>> /\ Head(ups[u].ops) = op
                        /\ ~ups[u].late
                        /\ ok => ups[u].open \/ ups[u].done
Completed(u) == [Now EXCEPT !.ups[u] = [@ EXCEPT !.done = FALSE, !.ops = Tail(ups[u].ops)]]

\* Nothing catches what Transfer throws here: the io_service ends.
OnResponseSent(u, ok, throws) ==
  /\ Completes(u, "response", ok)
  /\ LET s == Completed(u)
     IN IF ~ok \/ ups[u].status = "closing"
        THEN ~throws /\ Become(DetachMe(s, u))
        ELSE \/ /\ ups[u].status = "transfer" /\ (throws => Given(s, u) > 0)
                /\ Become(IF throws THEN [Taken(s, u) EXCEPT !.running = FALSE] ELSE Transfer(s, u))
             \/ /\ ups[u].status = "queued" /\ ~throws
                /\ Become(Begin(s, u, "request"))

\* OnTransfer: at the end of the range the next request is read, or there is none.
OnTransfer(u, ok, throws, keepAlive) ==
  /\ Completes(u, "data", ok)
  /\ LET s == Completed(u)
     IN \/ /\ ~ok
           /\ Become(DetachMe(s, u))
        \/ /\ ok /\ ups[u].offset = Length
           /\ Become(IF keepAlive THEN Begin([s EXCEPT !.ups[u] = [@ EXCEPT !.status = "idle", !.age = "recent"]], u, "request")
                     ELSE DetachMe(s, u))
        \/ /\ ok /\ ups[u].offset < Length
           /\ throws => Given(s, u) > 0
           /\ Become(IF throws THEN DetachMe(Taken(s, u), u) ELSE Transfer(s, u))

OnRequest(u, ok, good) ==
  /\ Completes(u, "request", ok)
  /\ Become(IF ok THEN HandleRequest(Completed(u), u, good) ELSE DetachMe(Completed(u), u))

\* Only those in the queue time out.
UploaderOnTimerFault(s, u) ==
  IF s.ups[u].age = "stale" /\ s.ups[u].status = "queued" THEN {DetachMe(s, u)}
  ELSE IF s.ups[u].bwlimit /\ s.ups[u].status = "transfer"
  THEN {Transfer(s, u)} \cup (IF Given(s, u) > 0 THEN {DetachMe(Taken(s, u), u)} ELSE {})
  ELSE {s}

\* UploaderImp::OnTimer: the file may be read, or the reading throws.
UploaderOnTimer(s, u) ==
  IF s.ups[u].age = "stale" THEN {DetachMe(s, u)}
  ELSE IF s.ups[u].bwlimit /\ s.ups[u].status = "transfer"
  THEN {Transfer(s, u)} \cup (IF Given(s, u) > 0 THEN {DetachMe(Taken(s, u), u)} ELSE {})
  ELSE {s}

\* UploadManager::OnTimer: the timer of each uploader in a copy of the list.
Turns(s) ==
  LET turn[i \in 0 .. Len(s.uploaders)] ==
        IF i = 0 THEN {s} ELSE UNION {UploaderOnTimer(t, s.uploaders[i]) : t \in turn[i - 1]}
  IN turn[Len(s.uploaders)]

\* System::OnTimer: the TrafManager's, then that of the uploads.
OnTimer(second) ==
  /\ running
  /\ \E s \in {[Now EXCEPT !.traf = OnSecond(@, second), !.spent = IF second THEN 0 ELSE @]} :
        \E t \in Turns(s) : Become(t)

-----------------------------------------------------------------------------
(* Around it.                                                                *)

\* Gatekeeper::Timeout: its closed_ was not set when the socket was handed over.  What
\* is under way is aborted, but a completion that is in the queue already.
GatekeeperTimeout(u) ==
  /\ running /\ ups[u].late
  /\ \E done \in BOOLEAN :
       /\ done => ups[u].ops # <<>>
       /\ ups' = [ups EXCEPT ![u] = IF @.status = "closed" THEN Closed
                      ELSE [@ EXCEPT !.late = FALSE, !.open = FALSE, !.done = done,
                                     !.ops = IF done THEN ups[u].ops ELSE <<>>]]
  /\ UNCHANGED <<uploaders, traf, spent, running>>

\* pollMin goes by, then the timeout.  An uploader that waits for bytes asks for them,
\* and is young again, ten times a second.
Grow(u) == /\ running /\ u \in Range(uploaders)
           /\ ~(ups[u].bwlimit /\ ups[u].status = "transfer")
           /\ ups[u].age # "stale"
           /\ ups' = [ups EXCEPT ![u].age = IF @ = "recent" THEN "old" ELSE "stale"]
           /\ UNCHANGED <<uploaders, traf, spent, running>>

Next == \/ \E h \in Host, good, late \in BOOLEAN : Accept(h, good, late)
        \/ \E u \in Uploader, ok, throws \in BOOLEAN : OnResponseSent(u, ok, throws)
        \/ \E u \in Uploader, ok, throws, keepAlive \in BOOLEAN : OnTransfer(u, ok, throws, keepAlive)
        \/ \E u \in Uploader, ok, good \in BOOLEAN : OnRequest(u, ok, good)
        \/ \E second \in BOOLEAN : OnTimer(second)
        \/ \E u \in Uploader : GatekeeperTimeout(u) \/ Grow(u)

Spec == Init /\ [][Next]_vars

\* The queue of the io_service is worked off, time passes, and the timer of the program
\* goes.  A write to a closed socket fails at once; nothing else is asked of the peers.
Fairness ==
  /\ WF_vars(OnTimer(TRUE))
  /\ \A u \in Uploader : /\ WF_vars(GatekeeperTimeout(u)) /\ WF_vars(Grow(u))
                         /\ WF_vars(~ups[u].open /\ OnTransfer(u, FALSE, FALSE, FALSE))
FairSpec == Spec /\ Fairness

-----------------------------------------------------------------------------
(* Properties.                                                               *)

\* No more uploads are sent at a time than the setting says, whoever leaves the list
\* while others are sending: nobody who sends is ever put back into the queue.
TransfersWithinLimit == Cardinality({u \in Uploader : ups[u].status = "transfer"}) <= MaxUploads

\* An uploader has one operation under way: the timer that goes on with a transfer never
\* meets a write that is not done, though both follow from the same transfer.
OneOperation == \A u \in Uploader : Len(ups[u].ops) <= 1

\* No more bytes are given away in a second than the setting says, with the reserved ones
\* and those that clients did not use, however often the timer goes.
WithinShare == spent <= MaxShare

\* An uploader whose socket was closed under it, by the late timeout of its gatekeeper,
\* does not keep its place for ever: its handlers ignore what was aborted.
DeadLeaves == \A u \in Uploader :
  u \in Range(uploaders) /\ ~ups[u].open ~> u \notin Range(uploaders) \/ ~running
=============================================================================
