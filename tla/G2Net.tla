-------------------------------- MODULE G2Net --------------------------------
(***************************************************************************)
(* G2Net with its G2Handshakes and G2Nodes: connections to hubs are begun, *)
(* greeted and kept.  A handshake and the node that it turns into share a  *)
(* socket, each has a flag of its own that it is closed, and the net knows *)
(* both by the address of the hub only.                                    *)
(*                                                                         *)
(* Completions of timers and sockets wait in the queue of the io_service   *)
(* in the order in which they came, and stay there when the timer is       *)
(* cancelled or the socket closed.  What had not completed by then comes   *)
(* as operation_aborted, which every handler ignores: it is left out.      *)
(***************************************************************************)
EXTENDS Naturals, Sequences, FiniteSets, FiniteSetsExt, Functions

CONSTANTS Addr,          \* addresses of hubs
          Conn,          \* G2Handshake objects
          MaxHubs,       \* settings: net.maxHubs
          MaxHandshakes  \* 15

ASSUME BoundAssumption == MaxHubs \in Nat /\ MaxHandshakes \in Nat
ASSUME AddrAssumption == Addr # {}

VARIABLES conn,       \* the handshake objects, each with its node
          hubs,       \* hubs_
          handshakes, \* handshakes_
          ready       \* completions in the queue of the io_service

vars == <<conn, hubs, handshakes, ready>>

\* No object; connected, greeted and answered; confirmed; a node.
Phase  == {"free", "greet", "final", "hub"}
Op     == {"timer", "io", "write"}
Result == {"ok", "error"}

TypeOK ==
  /\ conn \in [Conn -> [addr : Addr,          \* endpoint_
                        phase : Phase,        \* what the io operation is for
                        closed : BOOLEAN,     \* G2Handshake::closed_
                        nodeClosed : BOOLEAN, \* G2Node::closed_
                        open : BOOLEAN,       \* pSocket_
                        busy : BOOLEAN,       \* ~packetBuf_.empty()
                        quiet : BOOLEAN,      \* timestamp_ is older than ALIVE_TIMEOUT
                        pending : SUBSET Op]] \* operations begun
  /\ DOMAIN hubs \subseteq Addr /\ Range(hubs) \subseteq Conn
  /\ DOMAIN handshakes \subseteq Addr /\ Range(handshakes) \subseteq Conn
  /\ ready \in Seq([c : Conn, op : Op, res : Result])

Free == [addr |-> CHOOSE a \in Addr : TRUE, phase |-> "free", closed |-> TRUE, nodeClosed |-> TRUE,
         open |-> FALSE, busy |-> FALSE, quiet |-> FALSE, pending |-> {}]

Init == /\ conn = [c \in Conn |-> Free]
        /\ hubs = <<>> /\ handshakes = <<>> /\ ready = <<>>

-----------------------------------------------------------------------------
(* What handlers do, on a record of the four parts of the state.             *)

Now == [conn |-> conn, hubs |-> hubs, handshakes |-> handshakes, ready |-> ready]

\* Shared pointers: an object goes with the last map entry or handler that has it.
Held(s) == Range(s.hubs) \cup Range(s.handshakes) \cup {e.c : e \in Range(s.ready)}
           \cup {c \in Conn : s.conn[c].pending # {}}
Become(state) == \E s \in {state} :
                   /\ conn' = [c \in Conn |-> IF c \in Held(s) THEN s.conn[c] ELSE Free]
                   /\ hubs' = s.hubs /\ handshakes' = s.handshakes /\ ready' = s.ready

\* An operation is begun: on a closed socket it fails at once.
Begin(s, c, op) ==
  IF s.conn[c].open \/ op = "timer" THEN [s EXCEPT !.conn[c].pending = @ \cup {op}]
                                    ELSE [s EXCEPT !.ready = Append(@, [c |-> c, op |-> op, res |-> "error"])]

Cancel(s, c, ops) == [s EXCEPT !.conn[c].pending = @ \ ops]
CloseSocket(s, c) == [Cancel(s, c, {"io", "write"}) EXCEPT !.conn[c].open = FALSE]

Enter(m, a, c) == [x \in DOMAIN m \cup {a} |-> IF x = a THEN c ELSE m[x]]

\* The entry of the address goes, whatever handshake or node it has.
Erase(m, c) == Restrict(m, DOMAIN m \ {conn[c].addr})

-----------------------------------------------------------------------------
(* G2Handshake.                                                              *)

CloseHandshake(s, c) ==
  IF s.conn[c].closed THEN s
  ELSE [Cancel(CloseSocket(s, c), c, {"timer"}) EXCEPT !.conn[c].closed = TRUE]

\* DetachMe, with G2Net::Detach.  What the HubCache knows is not modelled.
DetachHandshake(s, c) == LET t == CloseHandshake(s, c)
                         IN [t EXCEPT !.handshakes = Erase(@, c)]

\* OnTimeout of a timer that OnConnected cancels: it does not guard what comes later.
OnTimeoutFault(s, c, res) ==
  IF ~s.conn[c].closed /\ res = "ok" /\ s.conn[c].phase = "greet" THEN DetachHandshake(s, c) ELSE s

\* OnTimeout: the timer was not cancelled before it fired.
OnTimeout(s, c, res) == IF ~s.conn[c].closed /\ res = "ok" THEN DetachHandshake(s, c) ELSE s

-----------------------------------------------------------------------------
(* G2Node.                                                                   *)

CloseNode(s, c) == IF s.conn[c].nodeClosed THEN s
                   ELSE [CloseSocket(s, c) EXCEPT !.conn[c].nodeClosed = TRUE]

DetachNode(s, c) == LET t == CloseNode(s, c) IN [t EXCEPT !.hubs = Erase(@, c)]

\* Send: the packet waits when there is one on its way.
Send(s, c) == IF s.conn[c].busy THEN s
              ELSE [Begin(s, c, "write") EXCEPT !.conn[c].busy = TRUE]

\* OnPacketSent: other packets were queued meanwhile, or not.
OnPacketSent(s, c, res) ==
  IF s.conn[c].nodeClosed THEN {s}
  ELSE IF res = "error" THEN {DetachNode(s, c)}
  ELSE LET t == [s EXCEPT !.conn[c].busy = FALSE] IN {t, Send(t, c)}

\* OnControlByte, OnPacketHeader and OnPayload: a packet that is whole and not
\* corrupted is a sign of life.
OnPacketRead(s, c, res) ==
  IF s.conn[c].nodeClosed THEN {s}
  ELSE IF res = "error" THEN {DetachNode(s, c)}
  ELSE {Begin(s, c, "io"), Begin([s EXCEPT !.conn[c].quiet = FALSE], c, "io")}

\* A node that still has something to send is not taken for dead.
NodeOnTimerFault(s, c) == IF s.conn[c].quiet /\ ~s.conn[c].busy THEN DetachNode(s, c) ELSE Send(s, c)

\* OnTimer: LNI, QHT or a ping is sent.
NodeOnTimer(s, c) == IF s.conn[c].quiet THEN DetachNode(s, c) ELSE Send(s, c)

-----------------------------------------------------------------------------
(* G2Net.                                                                    *)

OnHubConnectedFault(s, c) ==
  LET t == Begin([s EXCEPT !.conn[c].phase = "hub", !.conn[c].nodeClosed = FALSE,
                           !.hubs = Enter(s.hubs, s.conn[c].addr, c)], c, "io")
  IN [Send(t, c) EXCEPT !.handshakes = Erase(@, c)]

\* OnHubConnected: the node starts with its query hash table and a firewall check, and
\* when it is the last that is wanted the other handshakes are closed.
OnHubConnected(s, c) ==
  LET t == Begin([s EXCEPT !.conn[c].phase = "hub", !.conn[c].nodeClosed = FALSE,
                           !.hubs = Enter(s.hubs, s.conn[c].addr, c)], c, "io")
      u == [Send(t, c) EXCEPT !.handshakes = Erase(@, c)]
  IN IF Cardinality(DOMAIN u.hubs) = MaxHubs
     THEN [FoldSet(LAMBDA h, v : CloseHandshake(v, h), u, Range(u.handshakes)) EXCEPT !.handshakes = <<>>]
     ELSE u

\* OnConnected, OnGreetingSent and OnGreetingResponse: an error ends the handshake, so
\* does a reply that is not one of a hub with a free place.  OnG2Connected leaves an
\* error to the timer.
OnHandshake(s, c, res) ==
  IF s.conn[c].closed THEN {s}
  ELSE IF s.conn[c].phase = "final"
  THEN {IF res = "ok" THEN OnHubConnected(Cancel(s, c, {"timer"}), c) ELSE s}
  ELSE {DetachHandshake(s, c)}
       \cup {Begin([s EXCEPT !.conn[c].phase = f], c, "io") : f \in IF res = "ok" THEN {"greet", "final"} ELSE {}}

\* The handler at the head of the queue runs.
Run == /\ ready # <<>>
       /\ LET e == Head(ready)
              s == [Now EXCEPT !.ready = Tail(@)]
          IN \E t \in CASE e.op = "timer" -> {OnTimeout(s, e.c, e.res)}
                        [] e.op = "write" -> OnPacketSent(s, e.c, e.res)
                        [] e.op = "io"    -> IF conn[e.c].phase = "hub" THEN OnPacketRead(s, e.c, e.res)
                                                                        ELSE OnHandshake(s, e.c, e.res) :
               Become(t)

\* ConnectRandomHub skips only what is a hub already.
ConnectRandomHubFault(s, a) ==
  LET c == CHOOSE d \in Conn : conn[d].phase = "free"
  IN IF a \in DOMAIN hubs THEN s
     ELSE Begin(Begin([s EXCEPT !.conn[c] = [Free EXCEPT !.addr = a, !.phase = "greet", !.closed = FALSE, !.open = TRUE],
                                !.handshakes = Enter(s.handshakes, a, c)], c, "timer"), c, "io")

\* ConnectRandomHub, with G2Handshake::Connect, to a hub that the cache gives.
ConnectRandomHub(s, a) ==
  LET c == CHOOSE d \in Conn : conn[d].phase = "free"
  IN IF a \in DOMAIN hubs \cup DOMAIN handshakes THEN s
     ELSE Begin(Begin([s EXCEPT !.conn[c] = [Free EXCEPT !.addr = a, !.phase = "greet", !.closed = FALSE, !.open = TRUE],
                                !.handshakes = Enter(s.handshakes, a, c)], c, "timer"), c, "io")

\* The part of OnTimer that has its turn when the period is over: a hub is looked for,
\* the nodes' timers run, or a random hub is asked whether it can reach us.
MayConnect == Cardinality(DOMAIN hubs) < MaxHubs /\ Cardinality(DOMAIN handshakes) < MaxHandshakes
OnConnectPeriod == /\ MayConnect
                   /\ \E c \in Conn : conn[c].phase = "free"
                   /\ \E a \in Addr : Become(ConnectRandomHub(Now, a))
OnNodesPeriod == /\ Become(FoldSet(LAMBDA c, s : NodeOnTimer(s, c), Now, Range(hubs)))
CheckFirewall == /\ \E c \in Range(hubs) : Become(Send(Now, c))

-----------------------------------------------------------------------------
(* The operating system and the hubs.                                        *)

\* A timer that runs fires; what was begun on a socket succeeds or fails.
Complete(c, op, res) ==
  /\ op \in conn[c].pending
  /\ op = "timer" => res = "ok"
  /\ Become([Now EXCEPT !.conn[c].pending = @ \ {op}, !.ready = Append(@, [c |-> c, op |-> op, res |-> res])])

\* No packet came for ALIVE_TIMEOUT.  The timer of System::OnTimer waits in the same
\* queue, ten times a second: what was in it when the node started has run by then.
Silence(c) == /\ c \in Range(hubs) /\ ~conn[c].quiet
              /\ ~\E e \in Range(ready) : e.c = c /\ e.op = "timer"
              /\ Become([Now EXCEPT !.conn[c].quiet = TRUE])

Next == \/ Run
        \/ OnConnectPeriod \/ OnNodesPeriod \/ CheckFirewall
        \/ \E c \in Conn, op \in Op, res \in {"ok", "error"} : Complete(c, op, res)
        \/ \E c \in Conn : Silence(c)

Spec == Init /\ [][Next]_vars

\* The io_service runs what is in its queue, time passes, and System::OnTimer is called
\* ten times a second.  Nothing is asked of the hubs, and no connection is ever begun for sure.
Fairness == /\ WF_vars(Run) /\ WF_vars(OnNodesPeriod)
            /\ \A c \in Conn : WF_vars(Complete(c, "timer", "ok")) /\ WF_vars(Silence(c))
FairSpec == Spec /\ Fairness

-----------------------------------------------------------------------------
(* Properties.                                                               *)

\* The assertions at the head of OnHubConnected, for every handshake that may get there:
\* it is the one that the net knows at its address, and there is no hub at that address.
\* The maps are kept by address, and handlers of an earlier handshake may still come.
AssertsHold ==
  \A c \in Conn : conn[c].phase \in {"greet", "final"} /\ ~conn[c].closed =>
    /\ conn[c].addr \in DOMAIN handshakes /\ handshakes[conn[c].addr] = c
    /\ conn[c].addr \notin DOMAIN hubs

\* Several handshakes may succeed one after the other, but there are never more hubs than
\* wanted: the last one that is closes the others, and what they have in the queue then
\* comes to nothing.
HubsWithinLimit == Cardinality(DOMAIN hubs) <= MaxHubs

\* A handshake ends in five seconds, wherever it is stuck: it is a hub or is forgotten.
HandshakeEnds == \A a \in Addr : a \in DOMAIN handshakes ~> a \notin DOMAIN handshakes

\* A hub whose socket was closed, by a late timeout of its handshake, is not kept: the
\* node does not see its reads aborted, and the place would be lost.
DeadHubLeaves == \A c \in Conn : c \in Range(hubs) /\ ~conn[c].open ~> c \notin Range(hubs)
=============================================================================
