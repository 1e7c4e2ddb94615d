------------------------------ MODULE AsyncWork ------------------------------
(***************************************************************************)
(* What async_task promises to the owner of a Work (a download, the share  *)
(* manager), whatever the pool does inside.  An owner has at most one      *)
(* request at a time.  A request that is not aborted is delivered exactly  *)
(* once, and only after its task has stopped running; a request that was   *)
(* aborted is never delivered, but keeps its owner busy until the pool has *)
(* drained it.                                                             *)
(*                                                                         *)
(* AsyncTask.tla, the translation of asynctaskserver.cpp and asynctask.cpp,*)
(* is shown to implement this module.                                      *)
(***************************************************************************)
CONSTANTS Owner,   \* the Work objects of the program
          NoOwner

VARIABLES phase,       \* phase of the request of each owner
          delivering   \* the owner whose completion handler is on the stack

vars == <<phase, delivering>>

Phase == {"idle", "queued", "running", "returned", "aborting", "drained"}

Init == /\ phase = [o \in Owner |-> "idle"]
        /\ delivering = NoOwner

\* The life of one request.  From "returned" the only way back to "idle" is
\* the delivery; from "aborting" and "drained" there is no delivery.
Moves == { <<"idle", "queued">>,      <<"idle", "running">>,
           <<"queued", "running">>,   <<"queued", "idle">>,
           <<"running", "returned">>, <<"running", "aborting">>,
           <<"returned", "idle">>,    <<"returned", "drained">>,
           <<"aborting", "drained">>, <<"drained", "idle">> }

\* One owner's request is delivered: its task has returned, was not aborted,
\* and the owner is idle again when the handler is entered.
Delivered(o) == phase[o] = "returned" /\ phase'[o] = "idle"

\* A step moves any number of requests along (finishing one request starts a
\* queued one), and enters at most one handler, that of the delivered owner.
Step == /\ phase' \in [Owner -> Phase]
        /\ \A o \in Owner : phase'[o] # phase[o] => <<phase[o], phase'[o]>> \in Moves
        /\ \A o \in Owner : Delivered(o) => delivering' = o
        /\ delivering' \in {delivering, NoOwner} \/ Delivered(delivering')

Next == Step

Spec == Init /\ [][Next]_vars
=============================================================================
