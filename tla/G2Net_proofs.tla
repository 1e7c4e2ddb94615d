---------------------------- MODULE G2Net_proofs -----------------------------
(***************************************************************************)
(* Proofs about G2Net.tla for any addresses, connections and limit.  The   *)
(* invariant says that the two maps are those of the objects: a handshake  *)
(* is in handshakes_ for as long as it is under way (Known), a node is in  *)
(* hubs_ until it is closed (Kept), and no address is in both (Apart).     *)
(* There are not more hubs than wanted (Limited), and while a handshake is *)
(* under way there is a place for it (Roomy): the node that takes the last *)
(* one closes the others.  The rest is about what is posted: an object has *)
(* one timer and one read (Single), and its operations are those of the    *)
(* phase that it is in (Phased), so that what is still in the queue when   *)
(* it is closed is found to be of an earlier phase.                        *)
(* Every helper of the model first gets a lemma that says what it gives    *)
(* (FieldIs, EnterIs, CloseAllIs...), then one that says what it keeps.    *)
(***************************************************************************)
EXTENDS G2Net, CollectionFacts, TLAPS

Connection == [addr : Addr, phase : Phase, closed : BOOLEAN, nodeClosed : BOOLEAN, open : BOOLEAN,
               busy : BOOLEAN, quiet : BOOLEAN, pending : SUBSET Op]
Entry == [c : Conn, op : Op, res : Result]
Maps  == UNION {[S -> Conn] : S \in SUBSET Addr}
Net   == [conn : [Conn -> Connection], hubs : Maps, handshakes : Maps, ready : Seq(Entry)]

Is(e, c, op) == e.c = c /\ e.op = op
NoEntry(q, c, op) == \A i \in DOMAIN q : ~Is(q[i], c, op)

\* The handshakes that the net knows are those that are under way, each at its address.
Known(s) ==
  /\ \A a \in DOMAIN s.handshakes :
       LET x == s.conn[s.handshakes[a]] IN x.addr = a /\ x.phase \in {"greet", "final"} /\ ~x.closed
  /\ \A c \in Conn : LET x == s.conn[c] IN
       x.phase \in {"greet", "final"} /\ ~x.closed => x.addr \in DOMAIN s.handshakes /\ s.handshakes[x.addr] = c

\* The hubs are the nodes that are not closed, each at its address.
Kept(s) ==
  /\ \A a \in DOMAIN s.hubs :
       LET x == s.conn[s.hubs[a]] IN x.addr = a /\ x.phase = "hub" /\ ~x.nodeClosed
  /\ \A c \in Conn : LET x == s.conn[c] IN
       ~x.nodeClosed => x.addr \in DOMAIN s.hubs /\ s.hubs[x.addr] = c

\* No address has both.
Apart(s) == DOMAIN s.hubs \cap DOMAIN s.handshakes = {}

\* There are not more hubs than wanted.
Limited(s) == /\ IsFiniteSet(DOMAIN s.hubs) /\ IsFiniteSet(DOMAIN s.handshakes)
              /\ Cardinality(DOMAIN s.hubs) <= MaxHubs

\* There is a place for whatever is under way.
Roomy(s) == DOMAIN s.handshakes # {} => Cardinality(DOMAIN s.hubs) < MaxHubs

\* One timer and one read of an object at a time.
Single(s) == \A c \in Conn, op \in {"timer", "io"} :
  /\ \A i, j \in DOMAIN s.ready : Is(s.ready[i], c, op) /\ Is(s.ready[j], c, op) => i = j
  /\ op \in s.conn[c].pending => NoEntry(s.ready, c, op)

\* What waits for an object belongs to its phase; a timeout of a handshake that has become
\* a hub runs before anything else of the node.
Fits(x, c, q) ==
  /\ x.phase = "free" => x.closed /\ x.pending = {} /\ \A i \in DOMAIN q : q[i].c # c
  /\ x.phase # "hub" => ~x.quiet /\ "write" \notin x.pending /\ NoEntry(q, c, "write")
  /\ x.phase = "hub" => "timer" \notin x.pending
  /\ x.phase = "hub" /\ ~x.closed => \A i \in DOMAIN q : Is(q[i], c, "timer") =>
         ~x.nodeClosed /\ ~x.quiet /\ \A j \in 1 .. i - 1 : q[j].c # c
Phased(s) == \A c \in Conn : Fits(s.conn[c], c, s.ready)

Well(s) == s \in Net /\ Known(s) /\ Kept(s) /\ Apart(s) /\ Limited(s) /\ Single(s) /\ Phased(s)
Good(s) == Well(s) /\ Roomy(s)

\* The parts of a state, and what a handler may replace of them.
LEMMA NetIs ==
  ASSUME NEW s \in Net
  PROVE  /\ s = [conn |-> s.conn, hubs |-> s.hubs, handshakes |-> s.handshakes, ready |-> s.ready]
         /\ s.conn \in [Conn -> Connection] /\ s.hubs \in Maps /\ s.handshakes \in Maps
         /\ s.ready \in Seq(Entry)
  BY DEF Net

LEMMA MapIs ==
  ASSUME NEW m
  PROVE  m \in Maps <=> /\ m = [a \in DOMAIN m |-> m[a]] /\ DOMAIN m \subseteq Addr
                        /\ \A a \in DOMAIN m : m[a] \in Conn
  <1>1. ASSUME m \in Maps
        PROVE  /\ m = [a \in DOMAIN m |-> m[a]] /\ DOMAIN m \subseteq Addr
               /\ \A a \in DOMAIN m : m[a] \in Conn
    <2>1. PICK S \in SUBSET Addr : m \in [S -> Conn]
        BY <1>1 DEF Maps
    <2> QED
        BY <2>1
  <1>2. ASSUME m = [a \in DOMAIN m |-> m[a]], DOMAIN m \subseteq Addr,
               \A a \in DOMAIN m : m[a] \in Conn
        PROVE  m \in Maps
    <2>1. m \in [DOMAIN m -> Conn]
        BY <1>2
    <2> QED
        BY <1>2, <2>1 DEF Maps
  <1> QED
      BY <1>1, <1>2

\* One object becomes x.
Changed(s, c, x) == [conn |-> [s.conn EXCEPT ![c] = x], hubs |-> s.hubs,
                     handshakes |-> s.handshakes, ready |-> s.ready]

LEMMA ChangedIs ==
  ASSUME NEW s \in Net, NEW c \in Conn, NEW x \in Connection
  PROVE  /\ Changed(s, c, x) \in Net
         /\ [s EXCEPT !.conn[c] = x] = Changed(s, c, x)
         /\ Changed(s, c, x).conn[c] = x
         /\ \A d \in Conn \ {c} : Changed(s, c, x).conn[d] = s.conn[d]
         /\ Changed(s, c, x).hubs = s.hubs /\ Changed(s, c, x).handshakes = s.handshakes
         /\ Changed(s, c, x).ready = s.ready
         /\ Changed(s, c, s.conn[c]) = s
         /\ \A y : Changed(Changed(s, c, x), c, y) = Changed(s, c, y)
  BY NetIs DEF Changed, Net

\* An object changes in ways that do not concern what it is.
LEMMA TouchKeeps ==
  ASSUME NEW s, Well(s), NEW c \in Conn, NEW x \in Connection,
         x.addr = s.conn[c].addr, x.closed = s.conn[c].closed, x.nodeClosed = s.conn[c].nodeClosed,
         \/ x.phase = s.conn[c].phase
         \/ x.phase \in {"greet", "final"} /\ s.conn[c].phase \in {"greet", "final"},
         x.quiet => s.conn[c].quiet \/ (x.phase = "hub" /\ NoEntry(s.ready, c, "timer")),
         \A op \in x.pending \ s.conn[c].pending :
           /\ NoEntry(s.ready, c, op) \/ op = "write"
           /\ x.phase # "free"
           /\ op = "write" => x.phase = "hub"
           /\ op = "timer" => x.phase # "hub"
  PROVE  Well(Changed(s, c, x))
  <1> DEFINE cs == [s.conn EXCEPT ![c] = x]
             t  == [conn |-> cs, hubs |-> s.hubs, handshakes |-> s.handshakes, ready |-> s.ready]
             o  == s.conn[c]
  <1>1. s \in Net
      BY DEF Well
  <1>2. Changed(s, c, x) = t
      BY DEF Changed
  <1>3. cs \in [Conn -> Connection] /\ cs[c] = x /\ \A d \in Conn \ {c} : cs[d] = s.conn[d]
      BY <1>1, NetIs
  <1> HIDE DEF cs
  <1>4. t.conn = cs /\ t.hubs = s.hubs /\ t.handshakes = s.handshakes /\ t.ready = s.ready
      OBVIOUS
  <1>5. t \in Net
      BY <1>1, <1>3, NetIs DEF Net
  <1>6. o.pending \subseteq Op /\ o.phase \in Phase /\ x.pending \subseteq Op
      BY <1>1, NetIs DEF Connection
  <1> HIDE DEF t, o
  <1>7. /\ x.addr = o.addr /\ x.closed = o.closed /\ x.nodeClosed = o.nodeClosed
        /\ \/ x.phase = o.phase
           \/ x.phase \in {"greet", "final"} /\ o.phase \in {"greet", "final"}
        /\ x.quiet => o.quiet \/ (x.phase = "hub" /\ NoEntry(s.ready, c, "timer"))
        /\ \A op \in x.pending \ o.pending :
             /\ NoEntry(s.ready, c, op) \/ op = "write"
             /\ x.phase # "free"
             /\ op = "write" => x.phase = "hub"
             /\ op = "timer" => x.phase # "hub"
        /\ o = s.conn[c]
      BY DEF o
  <1>8. \A a \in DOMAIN s.handshakes : s.handshakes[a] \in Conn
      BY <1>1, NetIs, MapIs
  <1>9. \A a \in DOMAIN s.hubs : s.hubs[a] \in Conn
      BY <1>1, NetIs, MapIs
  <1>10. Known(t)
    <2>1. Known(s)
        BY DEF Well
    <2> QED
        BY <1>3, <1>4, <1>7, <1>8, <2>1 DEF Known
  <1>11. Kept(t)
    <2>1. Kept(s)
        BY DEF Well
    <2> QED
        BY <1>3, <1>4, <1>7, <1>9, <2>1 DEF Kept
  <1>12. Apart(t) /\ Limited(t)
      BY <1>4 DEF Well, Apart, Limited
  <1>13. Single(t)
    <2>1. Single(s)
        BY DEF Well
    <2> QED
        BY <1>3, <1>4, <1>7, <2>1 DEF Single, NoEntry
  <1>14. Phased(t)
    <2>1. Phased(s)
        BY DEF Well
    <2> SUFFICES ASSUME NEW d \in Conn PROVE Fits(t.conn[d], d, t.ready)
        BY DEF Phased
    <2>2. CASE d # c
        BY <1>3, <1>4, <2>1, <2>2 DEF Phased, Fits, NoEntry
    <2>3. CASE d = c
        BY <1>3, <1>4, <1>6, <1>7, <2>1, <2>3 DEF Phased, Fits, NoEntry
    <2> QED
        BY <2>2, <2>3
  <1>15. Well(t)
      BY <1>5, <1>10, <1>11, <1>12, <1>13, <1>14 DEF Well
  <1> QED
      BY <1>2, <1>15

\* A sequence that grows by one.
LEMMA AppendIs ==
  ASSUME NEW T, NEW q \in Seq(T), NEW e \in T
  PROVE  /\ Append(q, e) \in Seq(T)
         /\ DOMAIN Append(q, e) = 1 .. Len(q) + 1 /\ DOMAIN q = 1 .. Len(q) /\ Len(q) \in Nat
         /\ Append(q, e)[Len(q) + 1] = e
         /\ \A i \in DOMAIN q : Append(q, e)[i] = q[i]
  OBVIOUS

\* A completion joins the queue.
Queued(s, e) == [conn |-> s.conn, hubs |-> s.hubs, handshakes |-> s.handshakes,
                 ready |-> Append(s.ready, e)]

LEMMA QueueKeeps ==
  ASSUME NEW s, Well(s), NEW e \in Entry, s.conn[e.c].phase # "free",
         e.op = "write" => s.conn[e.c].phase = "hub",
         e.op = "timer" => s.conn[e.c].phase # "hub",
         e.op # "write" => NoEntry(s.ready, e.c, e.op) /\ e.op \notin s.conn[e.c].pending
  PROVE  Well(Queued(s, e))
  <1> DEFINE t == Queued(s, e)
             n == Len(s.ready) + 1
  <1>1. s \in Net
      BY DEF Well
  <1>2. /\ t.conn = s.conn /\ t.hubs = s.hubs /\ t.handshakes = s.handshakes
        /\ t.ready = Append(s.ready, e)
      BY DEF Queued
  <1>3. /\ t.ready \in Seq(Entry) /\ DOMAIN t.ready = 1 .. n /\ t.ready[n] = e
        /\ DOMAIN s.ready = 1 .. n - 1 /\ n \in Nat
        /\ \A i \in 1 .. n - 1 : t.ready[i] = s.ready[i]
    <2>1. s.ready \in Seq(Entry)
        BY <1>1, NetIs
    <2> QED
        BY <1>2, <2>1, AppendIs
  <1>4. t \in Net
      BY <1>1, <1>3, NetIs DEF Net, Queued
  <1>5. \A i \in DOMAIN t.ready : i = n \/ (i \in DOMAIN s.ready /\ t.ready[i] = s.ready[i])
      BY <1>3
  <1> HIDE DEF t, n
  <1>6. Known(t) /\ Kept(t) /\ Apart(t) /\ Limited(t)
      BY <1>2 DEF Well, Known, Kept, Apart, Limited
  <1>7. Single(t)
    <2>1. Single(s)
        BY DEF Well
    <2> SUFFICES ASSUME NEW c \in Conn, NEW op \in {"timer", "io"}
                 PROVE  /\ \A i, j \in DOMAIN t.ready : Is(t.ready[i], c, op) /\ Is(t.ready[j], c, op) => i = j
                        /\ op \in t.conn[c].pending => NoEntry(t.ready, c, op)
        BY DEF Single
    <2>2. CASE Is(e, c, op)
      <3>1. NoEntry(s.ready, c, op) /\ op \notin s.conn[c].pending
          BY <2>2 DEF Is
      <3> QED
          BY <1>2, <1>3, <1>5, <3>1 DEF NoEntry
    <2>3. CASE ~Is(e, c, op)
        BY <1>2, <1>3, <1>5, <2>1, <2>3 DEF Single, NoEntry
    <2> QED
        BY <2>2, <2>3
  <1>8. Phased(t)
    <2>1. Phased(s)
        BY DEF Well
    <2> SUFFICES ASSUME NEW d \in Conn PROVE Fits(t.conn[d], d, t.ready)
        BY DEF Phased
    <2>2. /\ t.conn[d].phase = "free" =>
                             /\ t.conn[d].closed /\ t.conn[d].pending = {}
                             /\ \A i \in DOMAIN t.ready : t.ready[i].c # d
          /\ t.conn[d].phase # "hub" => /\ ~t.conn[d].quiet /\ "write" \notin t.conn[d].pending
                                        /\ NoEntry(t.ready, d, "write")
          /\ t.conn[d].phase = "hub" => "timer" \notin t.conn[d].pending
        BY <1>2, <1>3, <1>5, <2>1 DEF Phased, Fits, NoEntry, Is
    <2>3. ASSUME t.conn[d].phase = "hub" /\ ~t.conn[d].closed,
                 NEW i \in DOMAIN t.ready, Is(t.ready[i], d, "timer")
          PROVE  /\ ~t.conn[d].nodeClosed /\ ~t.conn[d].quiet
                 /\ \A j \in 1 .. i - 1 : t.ready[j].c # d
      <3>1. i # n
          BY <1>2, <1>3, <2>3 DEF Is
      <3>2. i \in 1 .. n - 1 /\ Is(s.ready[i], d, "timer") /\ i \in DOMAIN s.ready
          BY <1>3, <1>5, <2>3, <3>1
      <3>3. /\ ~t.conn[d].nodeClosed /\ ~t.conn[d].quiet
            /\ \A j \in 1 .. i - 1 : s.ready[j].c # d
          BY <1>2, <2>1, <2>3, <3>2 DEF Phased, Fits
      <3>4. ASSUME NEW j \in 1 .. i - 1
            PROVE  t.ready[j].c # d
        <4>1. j \in 1 .. n - 1
            BY <1>3, <3>2
        <4> QED
            BY <1>3, <3>3, <4>1
      <3> QED
          BY <3>3, <3>4
    <2> QED
        BY <2>2, <2>3 DEF Fits
  <1> QED
      BY <1>4, <1>6, <1>7, <1>8 DEF Well, t

\* An operation is begun, or fails at once: nothing but the pending operations of the object or
\* the queue changes.
LEMMA BeginKeeps ==
  ASSUME NEW s, Well(s), NEW c \in Conn, NEW op \in Op, s.conn[c].phase # "free",
         op = "write" => s.conn[c].phase = "hub",
         op = "timer" => s.conn[c].phase # "hub",
         op # "write" => NoEntry(s.ready, c, op) /\ op \notin s.conn[c].pending
  PROVE  /\ Well(Begin(s, c, op))
         /\ Begin(s, c, op).hubs = s.hubs /\ Begin(s, c, op).handshakes = s.handshakes
         /\ \A d \in Conn :
              /\ d # c => Begin(s, c, op).conn[d] = s.conn[d]
              /\ Begin(s, c, op).conn[d] = [s.conn[d] EXCEPT !.pending = Begin(s, c, op).conn[d].pending]
         /\ \A o \in Op \ {op} :
              /\ NoEntry(s.ready, c, o) => NoEntry(Begin(s, c, op).ready, c, o)
              /\ o \in Begin(s, c, op).conn[c].pending => o \in s.conn[c].pending
  <1> DEFINE x == [s.conn[c] EXCEPT !.pending = s.conn[c].pending \cup {op}]
             e == [c |-> c, op |-> op, res |-> "error"]
  <1>1. s \in Net /\ s.conn[c] \in Connection
      BY DEF Well, Net
  <1>2. CASE s.conn[c].open \/ op = "timer"
    <2>1. x \in Connection /\ [s EXCEPT !.conn[c] = x] = Changed(s, c, x)
      <3>1. x \in Connection
          BY <1>1 DEF Connection
      <3> HIDE DEF x
      <3> QED
          BY <1>1, <3>1, ChangedIs
    <2>2. Begin(s, c, op) = Changed(s, c, x)
        BY <1>2, <2>1, Zenon DEF Begin
    <2>3. /\ x.addr = s.conn[c].addr /\ x.closed = s.conn[c].closed /\ x.nodeClosed = s.conn[c].nodeClosed
          /\ x.phase = s.conn[c].phase /\ x.quiet = s.conn[c].quiet
          /\ x.pending = s.conn[c].pending \cup {op}
          /\ x = [s.conn[c] EXCEPT !.pending = x.pending]
        BY <1>1 DEF Connection
    <2>4. \A d \in Conn : s.conn[d] = [s.conn[d] EXCEPT !.pending = s.conn[d].pending]
        BY <1>1 DEF Net, Connection
    <2> HIDE DEF x
    <2>5. Well(Changed(s, c, x))
        BY <2>1, <2>3, TouchKeeps
    <2> QED
        BY <1>1, <2>1, <2>2, <2>3, <2>4, <2>5, ChangedIs DEF NoEntry
  <1>3. CASE ~(s.conn[c].open \/ op = "timer")
    <2>1. e \in Entry /\ e.c = c /\ e.op = op
        BY DEF Entry, Result
    <2>2. Begin(s, c, op) = Queued(s, e)
      <3>1. Begin(s, c, op) = [s EXCEPT !.ready = Append(s.ready, e)]
          BY <1>3, Zenon DEF Begin
      <3> HIDE DEF e
      <3> QED
          BY <1>1, <3>1 DEF Queued, Net
    <2>3. \A d \in Conn : s.conn[d] = [s.conn[d] EXCEPT !.pending = s.conn[d].pending]
        BY <1>1 DEF Net, Connection
    <2> HIDE DEF e
    <2>4. Well(Queued(s, e))
        BY <2>1, QueueKeeps
    <2>5. \A o \in Op \ {op} : NoEntry(s.ready, c, o) => NoEntry(Queued(s, e).ready, c, o)
      <3>1. s.ready \in Seq(Entry)
          BY <1>1, NetIs
      <3> QED
          BY <2>1, <3>1, AppendIs DEF NoEntry, Queued, Is
    <2>6. Queued(s, e).conn = s.conn /\ Queued(s, e).hubs = s.hubs /\ Queued(s, e).handshakes = s.handshakes
        BY DEF Queued
    <2> QED
        BY <2>2, <2>3, <2>4, <2>5, <2>6
  <1> QED
      BY <1>2, <1>3

\* One field of an object changes.
LEMMA FieldIs ==
  ASSUME NEW s \in Net, NEW c \in Conn
  PROVE  /\ \A p \in SUBSET Op :
              /\ [s EXCEPT !.conn[c].pending = p] = Changed(s, c, [s.conn[c] EXCEPT !.pending = p])
              /\ [s.conn[c] EXCEPT !.pending = p] \in Connection
         /\ \A p \in Phase :
              /\ [s EXCEPT !.conn[c].phase = p] = Changed(s, c, [s.conn[c] EXCEPT !.phase = p])
              /\ [s.conn[c] EXCEPT !.phase = p] \in Connection
         /\ \A b \in BOOLEAN :
              /\ [s EXCEPT !.conn[c].open = b] = Changed(s, c, [s.conn[c] EXCEPT !.open = b])
              /\ [s.conn[c] EXCEPT !.open = b] \in Connection
              /\ [s EXCEPT !.conn[c].closed = b] = Changed(s, c, [s.conn[c] EXCEPT !.closed = b])
              /\ [s.conn[c] EXCEPT !.closed = b] \in Connection
              /\ [s EXCEPT !.conn[c].nodeClosed = b] = Changed(s, c, [s.conn[c] EXCEPT !.nodeClosed = b])
              /\ [s.conn[c] EXCEPT !.nodeClosed = b] \in Connection
              /\ [s EXCEPT !.conn[c].busy = b] = Changed(s, c, [s.conn[c] EXCEPT !.busy = b])
              /\ [s.conn[c] EXCEPT !.busy = b] \in Connection
              /\ [s EXCEPT !.conn[c].quiet = b] = Changed(s, c, [s.conn[c] EXCEPT !.quiet = b])
              /\ [s.conn[c] EXCEPT !.quiet = b] \in Connection
  <1>1. ASSUME NEW x
        PROVE  [s EXCEPT !.conn = [s.conn EXCEPT ![c] = x]] = Changed(s, c, x)
      BY DEF Net, Changed
  <1>2. s.conn[c] \in Connection
      BY NetIs
  <1> QED
      BY <1>1, <1>2 DEF Connection


\* A node sends, if nothing is on its way.
LEMMA SendKeeps ==
  ASSUME NEW s, Well(s), NEW c \in Conn, s.conn[c].phase = "hub"
  PROVE  /\ Well(Send(s, c))
         /\ Send(s, c).hubs = s.hubs /\ Send(s, c).handshakes = s.handshakes
         /\ \A d \in Conn \ {c} : Send(s, c).conn[d] = s.conn[d]
         /\ LET x == Send(s, c).conn[c] IN
              /\ x.addr = s.conn[c].addr /\ x.phase = "hub" /\ x.closed = s.conn[c].closed
              /\ x.nodeClosed = s.conn[c].nodeClosed
         /\ NoEntry(s.ready, c, "timer") => NoEntry(Send(s, c).ready, c, "timer")
  <1>1. s \in Net /\ s.conn[c] \in Connection
      BY DEF Well, Net
  <1>2. CASE s.conn[c].busy
    <2>1. Send(s, c) = s
        BY <1>2 DEF Send
    <2> QED
        BY <2>1
  <1>3. CASE ~s.conn[c].busy
    <2> DEFINE t == Begin(s, c, "write")
               x == [t.conn[c] EXCEPT !.busy = TRUE]
    <2>1. "write" \in Op /\ "timer" \in Op \ {"write"}
        BY DEF Op
    <2>2. /\ Well(t)
          /\ t.hubs = s.hubs /\ t.handshakes = s.handshakes
          /\ \A d \in Conn :
               /\ d # c => t.conn[d] = s.conn[d]
               /\ t.conn[d] = [s.conn[d] EXCEPT !.pending = t.conn[d].pending]
          /\ \A o \in Op \ {"write"} :
               /\ NoEntry(s.ready, c, o) => NoEntry(t.ready, c, o)
               /\ o \in t.conn[c].pending => o \in s.conn[c].pending
        BY <2>1, BeginKeeps
    <2> HIDE DEF t
    <2>4. t \in Net /\ t.conn[c] \in Connection
        BY <2>2 DEF Well, Net
    <2>5. /\ x \in Connection /\ x.addr = t.conn[c].addr /\ x.closed = t.conn[c].closed
          /\ x.nodeClosed = t.conn[c].nodeClosed /\ x.phase = t.conn[c].phase
          /\ x.quiet = t.conn[c].quiet /\ x.pending = t.conn[c].pending
        BY <2>4 DEF Connection
    <2> HIDE DEF x
    <2>6. Well(Changed(t, c, x))
        BY <2>2, <2>5, TouchKeeps
    <2>7. Send(s, c) = Changed(t, c, x)
      <3>1. Send(s, c) = [t EXCEPT !.conn[c].busy = TRUE]
          BY <1>3 DEF Send, t
      <3> QED
          BY <2>4, <3>1, FieldIs DEF x
    <2>8. /\ t.conn[c].addr = s.conn[c].addr /\ t.conn[c].phase = "hub"
          /\ t.conn[c].closed = s.conn[c].closed /\ t.conn[c].nodeClosed = s.conn[c].nodeClosed
      <3>1. t.conn[c] = [s.conn[c] EXCEPT !.pending = t.conn[c].pending]
          BY <2>2
      <3> QED
          BY <1>1, <3>1 DEF Connection
    <2>9. NoEntry(s.ready, c, "timer") => NoEntry(Changed(t, c, x).ready, c, "timer")
        BY <2>1, <2>2, <2>4, <2>5, ChangedIs DEF NoEntry
    <2>10. /\ Changed(t, c, x).hubs = s.hubs /\ Changed(t, c, x).handshakes = s.handshakes
           /\ \A d \in Conn \ {c} : Changed(t, c, x).conn[d] = s.conn[d]
           /\ Changed(t, c, x).conn[c] = x
      <3>1. /\ Changed(t, c, x).hubs = t.hubs /\ Changed(t, c, x).handshakes = t.handshakes
            /\ \A d \in Conn \ {c} : Changed(t, c, x).conn[d] = t.conn[d]
            /\ Changed(t, c, x).conn[c] = x
          BY <2>4, <2>5, ChangedIs
      <3> QED
          BY <2>2, <3>1
    <2> QED
        BY <2>5, <2>6, <2>7, <2>8, <2>9, <2>10
  <1> QED
      BY <1>2, <1>3

\* What is left of a map when an address goes, and what there is when one comes.
LEMMA EraseIs ==
  ASSUME NEW m \in Maps, NEW c
  PROVE  /\ Erase(m, c) \in Maps /\ DOMAIN Erase(m, c) = DOMAIN m \ {conn[c].addr}
         /\ \A a \in DOMAIN Erase(m, c) : Erase(m, c)[a] = m[a]
  <1>1. /\ DOMAIN Erase(m, c) = DOMAIN m \ {conn[c].addr}
        /\ \A a \in DOMAIN Erase(m, c) : Erase(m, c)[a] = m[a]
        /\ Erase(m, c) = [a \in DOMAIN Erase(m, c) |-> Erase(m, c)[a]]
      BY DEF Erase, Restrict
  <1> QED
      BY <1>1, MapIs

LEMMA EraseCounts ==
  ASSUME NEW m \in Maps, NEW c, IsFiniteSet(DOMAIN m)
  PROVE  /\ IsFiniteSet(DOMAIN Erase(m, c))
         /\ Cardinality(DOMAIN Erase(m, c)) <= Cardinality(DOMAIN m)
  <1>1. DOMAIN Erase(m, c) \subseteq DOMAIN m
      BY DEF Erase, Restrict
  <1> QED
      BY <1>1, FS_Subset

LEMMA EnterIs ==
  ASSUME NEW m \in Maps, NEW a \in Addr, NEW c \in Conn
  PROVE  /\ Enter(m, a, c) \in Maps /\ DOMAIN Enter(m, a, c) = DOMAIN m \cup {a}
         /\ Enter(m, a, c)[a] = c /\ \A b \in DOMAIN m \ {a} : Enter(m, a, c)[b] = m[b]
  <1>1. /\ DOMAIN Enter(m, a, c) = DOMAIN m \cup {a}
        /\ Enter(m, a, c)[a] = c /\ \A b \in DOMAIN m \ {a} : Enter(m, a, c)[b] = m[b]
        /\ Enter(m, a, c) = [b \in DOMAIN Enter(m, a, c) |-> Enter(m, a, c)[b]]
      BY DEF Enter
  <1> QED
      BY <1>1, MapIs

LEMMA EnterCounts ==
  ASSUME NEW m \in Maps, NEW a \in Addr, NEW c \in Conn, IsFiniteSet(DOMAIN m), a \notin DOMAIN m
  PROVE  /\ IsFiniteSet(DOMAIN Enter(m, a, c))
         /\ Cardinality(DOMAIN Enter(m, a, c)) = Cardinality(DOMAIN m) + 1
  <1>1. DOMAIN Enter(m, a, c) = DOMAIN m \cup {a}
      BY DEF Enter
  <1> QED
      BY <1>1, FS_AddElement

\* What closing does to an object.
Shut(x) == [[x EXCEPT !.pending = x.pending \ {"io", "write"}] EXCEPT !.open = FALSE]
Gone(x) == [[Shut(x) EXCEPT !.pending = Shut(x).pending \ {"timer"}] EXCEPT !.closed = TRUE]
Left(x) == [Shut(x) EXCEPT !.nodeClosed = TRUE]

LEMMA ShutIs ==
  ASSUME NEW x \in Connection
  PROVE  /\ Shut(x) \in Connection /\ Gone(x) \in Connection /\ Left(x) \in Connection
         /\ Shut(x).pending = x.pending \ {"io", "write"}
         /\ Gone(x).pending = {} /\ Gone(x).closed = TRUE
         /\ Gone(x).addr = x.addr /\ Gone(x).phase = x.phase /\ Gone(x).nodeClosed = x.nodeClosed
         /\ Gone(x).quiet = x.quiet
         /\ Left(x).pending = x.pending \ {"io", "write"} /\ Left(x).nodeClosed = TRUE
         /\ Left(x).addr = x.addr /\ Left(x).phase = x.phase /\ Left(x).closed = x.closed
         /\ Left(x).quiet = x.quiet
  BY DEF Shut, Gone, Left, Connection, Op

\* The socket is closed.
LEMMA CloseSocketIs ==
  ASSUME NEW s \in Net, NEW c \in Conn
  PROVE  CloseSocket(s, c) = Changed(s, c, Shut(s.conn[c]))
  <1> DEFINE x == [s.conn[c] EXCEPT !.pending = s.conn[c].pending \ {"io", "write"}]
             t == [s EXCEPT !.conn[c].pending = s.conn[c].pending \ {"io", "write"}]
  <1>1. s.conn[c].pending \ {"io", "write"} \in SUBSET Op
      BY NetIs DEF Connection
  <1>2. t = Changed(s, c, x) /\ x \in Connection
      BY <1>1, FieldIs
  <1>3. CloseSocket(s, c) = [t EXCEPT !.conn[c].open = FALSE]
      BY Zenon DEF CloseSocket, Cancel
  <1>4. Shut(s.conn[c]) = [x EXCEPT !.open = FALSE]
      BY DEF Shut
  <1> HIDE DEF t, x
  <1>5. t \in Net /\ t.conn[c] = x
      BY <1>2, ChangedIs
  <1>6. CloseSocket(s, c) = Changed(t, c, [x EXCEPT !.open = FALSE])
      BY <1>3, <1>5, FieldIs
  <1> QED
      BY <1>2, <1>4, <1>6, ChangedIs

\* The handshake is closed.
LEMMA CloseHandshakeIs ==
  ASSUME NEW s \in Net, NEW c \in Conn
  PROVE  CloseHandshake(s, c) = IF s.conn[c].closed THEN s ELSE Changed(s, c, Gone(s.conn[c]))
  <1>1. CASE s.conn[c].closed
      BY <1>1 DEF CloseHandshake
  <1>2. CASE ~s.conn[c].closed
    <2> DEFINE y == Shut(s.conn[c])
               t == Changed(s, c, y)
               z == [y EXCEPT !.pending = y.pending \ {"timer"}]
               u == [t EXCEPT !.conn[c].pending = t.conn[c].pending \ {"timer"}]
    <2>1. s.conn[c] \in Connection
        BY NetIs
    <2>2. y \in Connection
        BY <2>1, ShutIs
    <2>3. CloseHandshake(s, c) = [u EXCEPT !.conn[c].closed = TRUE]
      <3>1. CloseSocket(s, c) = t
          BY CloseSocketIs
      <3> HIDE DEF t
      <3> QED
          BY <1>2, <3>1, Zenon DEF CloseHandshake, Cancel
    <2>4. Gone(s.conn[c]) = [z EXCEPT !.closed = TRUE]
        BY DEF Gone
    <2> HIDE DEF y
    <2>5. t \in Net /\ t.conn[c] = y
        BY <2>2, ChangedIs
    <2>6. t.conn[c].pending \ {"timer"} \in SUBSET Op
      <3>1. y.pending \in SUBSET Op
          BY <2>2 DEF Connection
      <3> HIDE DEF t
      <3> QED
          BY <2>5, <3>1
    <2>7. u = Changed(t, c, z) /\ z \in Connection
      <3> HIDE DEF t
      <3>1. /\ u = Changed(t, c, [t.conn[c] EXCEPT !.pending = t.conn[c].pending \ {"timer"}])
            /\ [t.conn[c] EXCEPT !.pending = t.conn[c].pending \ {"timer"}] \in Connection
          BY <2>5, <2>6, FieldIs
      <3> QED
          BY <2>5, <3>1
    <2> HIDE DEF u, z
    <2>8. u = Changed(s, c, z)
        BY <2>2, <2>7, ChangedIs
    <2>9. u \in Net /\ u.conn[c] = z
        BY <2>7, <2>8, ChangedIs
    <2>10. CloseHandshake(s, c) = Changed(u, c, [z EXCEPT !.closed = TRUE])
        BY <2>3, <2>9, FieldIs
    <2>11. Changed(u, c, [z EXCEPT !.closed = TRUE]) = Changed(s, c, [z EXCEPT !.closed = TRUE])
        BY <2>7, <2>8, ChangedIs
    <2> QED
        BY <1>2, <2>4, <2>10, <2>11
  <1> QED
      BY <1>1, <1>2

\* The node is closed.
LEMMA CloseNodeIs ==
  ASSUME NEW s \in Net, NEW c \in Conn
  PROVE  CloseNode(s, c) = IF s.conn[c].nodeClosed THEN s ELSE Changed(s, c, Left(s.conn[c]))
  <1>1. CASE s.conn[c].nodeClosed
      BY <1>1 DEF CloseNode
  <1>2. CASE ~s.conn[c].nodeClosed
    <2> DEFINE y == Shut(s.conn[c])
               t == Changed(s, c, y)
    <2>1. s.conn[c] \in Connection
        BY NetIs
    <2>2. y \in Connection
        BY <2>1, ShutIs
    <2>3. CloseNode(s, c) = [t EXCEPT !.conn[c].nodeClosed = TRUE]
      <3>1. CloseSocket(s, c) = t
          BY CloseSocketIs
      <3> HIDE DEF t
      <3> QED
          BY <1>2, <3>1, Zenon DEF CloseNode
    <2>4. Left(s.conn[c]) = [y EXCEPT !.nodeClosed = TRUE]
        BY DEF Left
    <2> HIDE DEF y
    <2>5. t \in Net /\ t.conn[c] = y
        BY <2>2, ChangedIs
    <2>6. CloseNode(s, c) = Changed(t, c, [y EXCEPT !.nodeClosed = TRUE])
      <3> HIDE DEF t
      <3> QED
          BY <2>3, <2>5, FieldIs
    <2>7. Changed(t, c, [y EXCEPT !.nodeClosed = TRUE]) = Changed(s, c, [y EXCEPT !.nodeClosed = TRUE])
        BY <2>2, ChangedIs
    <2> QED
        BY <1>2, <2>4, <2>6, <2>7
  <1> QED
      BY <1>1, <1>2

\* A handshake is closed and forgotten, by its own error or by its timer.
LEMMA DetachHandshakeKeeps ==
  ASSUME NEW s, Good(s), NEW c \in Conn, ~s.conn[c].closed, conn[c].addr = s.conn[c].addr,
         s.conn[c].phase = "hub" => ~s.conn[c].nodeClosed /\ NoEntry(s.ready, c, "timer")
  PROVE  Good(DetachHandshake(s, c))
  <1> DEFINE o  == s.conn[c]
             x  == Gone(o)
             cs == [s.conn EXCEPT ![c] = x]
             ms == Erase(s.handshakes, c)
             t  == [conn |-> cs, hubs |-> s.hubs, handshakes |-> ms, ready |-> s.ready]
  <1>1. s \in Net /\ o \in Connection /\ s.handshakes \in Maps /\ s.hubs \in Maps
      BY DEF Good, Well, Net
  <1>2. DetachHandshake(s, c) = t
    <2>1. CloseHandshake(s, c) = Changed(s, c, x)
        BY <1>1, CloseHandshakeIs
    <2>2. DetachHandshake(s, c) = [Changed(s, c, x) EXCEPT !.handshakes = Erase(Changed(s, c, x).handshakes, c)]
        BY <2>1, Zenon DEF DetachHandshake
    <2> HIDE DEF x
    <2> QED
        BY <2>2 DEF Changed
  <1>3. /\ x \in Connection /\ x.pending = {} /\ x.closed = TRUE /\ x.addr = o.addr
        /\ x.phase = o.phase /\ x.nodeClosed = o.nodeClosed /\ x.quiet = o.quiet
      BY <1>1, ShutIs
  <1>4. /\ ms \in Maps /\ DOMAIN ms = DOMAIN s.handshakes \ {o.addr}
        /\ \A a \in DOMAIN ms : ms[a] = s.handshakes[a]
        /\ IsFiniteSet(DOMAIN s.handshakes) => IsFiniteSet(DOMAIN ms)
    <2>1. /\ ms \in Maps /\ DOMAIN ms = DOMAIN s.handshakes \ {conn[c].addr}
          /\ \A a \in DOMAIN ms : ms[a] = s.handshakes[a]
        BY <1>1, EraseIs, Zenon
    <2>2. IsFiniteSet(DOMAIN s.handshakes) => IsFiniteSet(DOMAIN ms)
        BY <1>1, EraseCounts, Zenon
    <2> HIDE DEF ms
    <2> QED
        BY <2>1, <2>2
  <1> HIDE DEF x
  <1>5. cs \in [Conn -> Connection] /\ cs[c] = x /\ \A d \in Conn \ {c} : cs[d] = s.conn[d]
      BY <1>1, <1>3, NetIs
  <1> HIDE DEF cs, ms
  <1>6. t.conn = cs /\ t.hubs = s.hubs /\ t.handshakes = ms /\ t.ready = s.ready
      OBVIOUS
  <1>7. t \in Net
      BY <1>1, <1>4, <1>5, NetIs DEF Net
  <1>8. (\A a \in DOMAIN s.handshakes : s.handshakes[a] \in Conn) /\ (\A a \in DOMAIN s.hubs : s.hubs[a] \in Conn)
      BY <1>1, MapIs
  <1> HIDE DEF t
  <1>9. ~o.closed /\ (o.phase = "hub" => ~o.nodeClosed /\ NoEntry(s.ready, c, "timer"))
      OBVIOUS
  <1>10. /\ Known(s) /\ Kept(s) /\ Apart(s) /\ Limited(s) /\ Roomy(s) /\ Single(s) /\ Phased(s)
      BY DEF Good, Well
  <1>11. o.phase # "free" /\ o.phase \in Phase
      BY <1>1, <1>9, <1>10 DEF Phased, Fits, Connection
  <1>12. o.phase \in {"greet", "final"} => o.addr \in DOMAIN s.handshakes /\ s.handshakes[o.addr] = c
      BY <1>9, <1>10 DEF Known
  <1>13. o.phase = "hub" => o.addr \in DOMAIN s.hubs /\ s.hubs[o.addr] = c /\ o.addr \notin DOMAIN s.handshakes
      BY <1>9, <1>10 DEF Kept, Apart
  <1>14. Known(t)
    <2>1. ASSUME NEW a \in DOMAIN ms
          PROVE  LET y == cs[ms[a]] IN y.addr = a /\ y.phase \in {"greet", "final"} /\ ~y.closed
      <3>1. a # o.addr /\ ms[a] = s.handshakes[a] /\ a \in DOMAIN s.handshakes
          BY <1>4
      <3>2. s.conn[ms[a]].addr = a /\ ms[a] \in Conn
          BY <1>8, <1>10, <3>1 DEF Known
      <3>3. cs[ms[a]] = s.conn[ms[a]]
          BY <1>5, <3>1, <3>2 DEF o
      <3> QED
          BY <1>10, <3>1, <3>3 DEF Known
    <2>2. ASSUME NEW d \in Conn, cs[d].phase \in {"greet", "final"}, ~cs[d].closed
          PROVE  cs[d].addr \in DOMAIN ms /\ ms[cs[d].addr] = d
      <3>1. d # c
          BY <1>3, <1>5, <2>2
      <3>2. cs[d] = s.conn[d]
          BY <1>5, <3>1
      <3>3. s.conn[d].addr \in DOMAIN s.handshakes /\ s.handshakes[s.conn[d].addr] = d
          BY <1>10, <2>2, <3>2 DEF Known
      <3>4. s.conn[d].addr # o.addr
          BY <1>11, <1>12, <1>13, <3>1, <3>3 DEF Phase
      <3> QED
          BY <1>4, <3>2, <3>3, <3>4
    <2> QED
        BY <1>6, <2>1, <2>2 DEF Known
  <1>15. Kept(t)
    <2>1. \A d \in Conn : /\ cs[d].addr = s.conn[d].addr /\ cs[d].phase = s.conn[d].phase
                          /\ cs[d].nodeClosed = s.conn[d].nodeClosed
        BY <1>3, <1>5 DEF o
    <2> QED
        BY <1>6, <1>8, <1>10, <2>1 DEF Kept
  <1>16. Apart(t)
      BY <1>4, <1>6, <1>10 DEF Apart
  <1>17. Limited(t) /\ Roomy(t)
      BY <1>4, <1>6, <1>10 DEF Limited, Roomy
  <1>18. Single(t)
      BY <1>3, <1>5, <1>6, <1>10 DEF Single, NoEntry
  <1>19. Phased(t)
    <2> SUFFICES ASSUME NEW d \in Conn PROVE Fits(cs[d], d, s.ready)
        BY <1>6 DEF Phased
    <2>1. CASE d # c
        BY <1>5, <1>10, <2>1 DEF Phased
    <2>2. CASE d = c
        BY <1>3, <1>5, <1>9, <1>10, <1>11, <2>2 DEF Phased, Fits, NoEntry, o
    <2> QED
        BY <2>1, <2>2
  <1> QED
      BY <1>2, <1>7, <1>14, <1>15, <1>16, <1>17, <1>18, <1>19 DEF Good, Well

\* A node is closed and forgotten.
LEMMA DetachNodeKeeps ==
  ASSUME NEW s, Good(s), NEW c \in Conn, ~s.conn[c].nodeClosed, conn[c].addr = s.conn[c].addr,
         s.conn[c].closed \/ NoEntry(s.ready, c, "timer")
  PROVE  /\ Good(DetachNode(s, c))
         /\ DetachNode(s, c).ready = s.ready
         /\ \A d \in Conn \ {c} : DetachNode(s, c).conn[d] = s.conn[d]
         /\ DetachNode(s, c).conn[c].addr = s.conn[c].addr
  <1> DEFINE o  == s.conn[c]
             x  == Left(o)
             cs == [s.conn EXCEPT ![c] = x]
             hs == Erase(s.hubs, c)
             t  == [conn |-> cs, hubs |-> hs, handshakes |-> s.handshakes, ready |-> s.ready]
  <1>1. s \in Net /\ o \in Connection /\ s.handshakes \in Maps /\ s.hubs \in Maps
      BY DEF Good, Well, Net
  <1>2. DetachNode(s, c) = t
    <2>1. CloseNode(s, c) = Changed(s, c, x)
        BY <1>1, CloseNodeIs
    <2>2. DetachNode(s, c) = [Changed(s, c, x) EXCEPT !.hubs = Erase(Changed(s, c, x).hubs, c)]
        BY <2>1, Zenon DEF DetachNode
    <2> HIDE DEF x
    <2> QED
        BY <2>2 DEF Changed
  <1>3. /\ x \in Connection /\ x.pending = o.pending \ {"io", "write"} /\ x.nodeClosed = TRUE
        /\ x.addr = o.addr /\ x.phase = o.phase /\ x.closed = o.closed /\ x.quiet = o.quiet
      BY <1>1, ShutIs
  <1>4. /\ hs \in Maps /\ DOMAIN hs = DOMAIN s.hubs \ {o.addr}
        /\ \A a \in DOMAIN hs : hs[a] = s.hubs[a]
    <2>1. conn[c].addr = o.addr
        OBVIOUS
    <2>2. /\ hs \in Maps /\ DOMAIN hs = DOMAIN s.hubs \ {conn[c].addr}
          /\ \A a \in DOMAIN Erase(s.hubs, c) : Erase(s.hubs, c)[a] = s.hubs[a]
        BY <1>1, EraseIs, Zenon
    <2> HIDE DEF o, hs
    <2> QED
        BY <2>1, <2>2 DEF hs
  <1>5. IsFiniteSet(DOMAIN s.hubs) => /\ IsFiniteSet(DOMAIN hs)
                                      /\ Cardinality(DOMAIN hs) <= Cardinality(DOMAIN s.hubs)
      BY <1>1, EraseCounts
  <1> HIDE DEF x
  <1>6. cs \in [Conn -> Connection] /\ cs[c] = x /\ \A d \in Conn \ {c} : cs[d] = s.conn[d]
      BY <1>1, <1>3, NetIs
  <1> HIDE DEF cs, hs
  <1>7. t.conn = cs /\ t.hubs = hs /\ t.handshakes = s.handshakes /\ t.ready = s.ready
      OBVIOUS
  <1>8. t \in Net
      BY <1>1, <1>4, <1>6, NetIs DEF Net
  <1>9. (\A a \in DOMAIN s.handshakes : s.handshakes[a] \in Conn) /\ (\A a \in DOMAIN s.hubs : s.hubs[a] \in Conn)
      BY <1>1, MapIs
  <1> HIDE DEF t
  <1>10. Known(s) /\ Kept(s) /\ Apart(s) /\ Limited(s) /\ Roomy(s) /\ Single(s) /\ Phased(s)
      BY DEF Good, Well
  <1>11. ~o.nodeClosed /\ (o.closed \/ NoEntry(s.ready, c, "timer"))
      OBVIOUS
  <1>12. o.addr \in DOMAIN s.hubs /\ s.hubs[o.addr] = c /\ o.phase = "hub"
      BY <1>10, <1>11 DEF Kept
  <1>13. Known(t)
    <2>1. \A d \in Conn : /\ cs[d].addr = s.conn[d].addr /\ cs[d].phase = s.conn[d].phase
                          /\ cs[d].closed = s.conn[d].closed
        BY <1>3, <1>6 DEF o
    <2> QED
        BY <1>7, <1>9, <1>10, <2>1 DEF Known
  <1>14. Kept(t)
    <2>1. ASSUME NEW a \in DOMAIN hs
          PROVE  LET y == cs[hs[a]] IN y.addr = a /\ y.phase = "hub" /\ ~y.nodeClosed
      <3>1. a # o.addr /\ hs[a] = s.hubs[a] /\ a \in DOMAIN s.hubs
          BY <1>4
      <3>2. s.conn[hs[a]].addr = a /\ hs[a] \in Conn
          BY <1>9, <1>10, <3>1 DEF Kept
      <3>3. cs[hs[a]] = s.conn[hs[a]]
          BY <1>6, <3>1, <3>2 DEF o
      <3> QED
          BY <1>10, <3>1, <3>3 DEF Kept
    <2>2. ASSUME NEW d \in Conn, ~cs[d].nodeClosed
          PROVE  cs[d].addr \in DOMAIN hs /\ hs[cs[d].addr] = d
      <3>1. d # c
          BY <1>3, <1>6, <2>2
      <3>2. cs[d] = s.conn[d]
          BY <1>6, <3>1
      <3>3. s.conn[d].addr \in DOMAIN s.hubs /\ s.hubs[s.conn[d].addr] = d
          BY <1>10, <2>2, <3>2 DEF Kept
      <3>4. s.conn[d].addr # o.addr
          BY <1>12, <3>1, <3>3
      <3> QED
          BY <1>4, <3>2, <3>3, <3>4
    <2> QED
        BY <1>7, <2>1, <2>2 DEF Kept
  <1>15. Apart(t)
      BY <1>4, <1>7, <1>10 DEF Apart
  <1>16. Limited(t) /\ Roomy(t)
    <2>1. /\ IsFiniteSet(DOMAIN hs) /\ Cardinality(DOMAIN hs) <= Cardinality(DOMAIN s.hubs)
          /\ Cardinality(DOMAIN hs) \in Nat /\ Cardinality(DOMAIN s.hubs) \in Nat
        BY <1>5, <1>10, FS_CardinalityType DEF Limited, Roomy
    <2> QED
        BY <1>7, <1>10, <2>1, BoundAssumption DEF Limited, Roomy
  <1>17. Single(t)
      BY <1>3, <1>6, <1>7, <1>10 DEF Single, NoEntry, o
  <1>18. Phased(t)
    <2> SUFFICES ASSUME NEW d \in Conn PROVE Fits(cs[d], d, s.ready)
        BY <1>7 DEF Phased
    <2>1. CASE d # c
        BY <1>6, <1>10, <2>1 DEF Phased
    <2>2. CASE d = c
        BY <1>3, <1>6, <1>10, <1>11, <1>12, <2>2 DEF Phased, Fits, NoEntry, o
    <2> QED
        BY <2>1, <2>2
  <1>19. Good(t)
      BY <1>8, <1>13, <1>14, <1>15, <1>16, <1>17, <1>18 DEF Good, Well
  <1> QED
      BY <1>2, <1>3, <1>6, <1>7, <1>19

\* The handler at the head of the queue is taken.
LEMMA HeadLeaves ==
  ASSUME NEW s, Good(s), s.ready # <<>>
  PROVE  LET e == Head(s.ready)
             q == Tail(s.ready)
             t == [s EXCEPT !.ready = q]
         IN /\ Good(t) /\ t.conn = s.conn /\ t.hubs = s.hubs /\ t.handshakes = s.handshakes /\ t.ready = q
            /\ e \in Entry /\ s.conn[e.c].phase # "free"
            /\ e.op # "write" => NoEntry(q, e.c, e.op) /\ e.op \notin s.conn[e.c].pending
            /\ e.op = "write" => s.conn[e.c].phase = "hub"
            /\ s.conn[e.c].phase = "hub" /\ ~s.conn[e.c].closed =>
                 NoEntry(q, e.c, "timer") /\ (e.op = "timer" => ~s.conn[e.c].nodeClosed)
  <1> DEFINE e == Head(s.ready)
             q == Tail(s.ready)
             t == [conn |-> s.conn, hubs |-> s.hubs, handshakes |-> s.handshakes, ready |-> q]
             n == Len(s.ready)
  <1>1. s \in Net
      BY DEF Good, Well
  <1>2. /\ q \in Seq(Entry) /\ e \in Entry /\ e = s.ready[1] /\ n \in Nat \ {0}
        /\ DOMAIN q = 1 .. n - 1 /\ DOMAIN s.ready = 1 .. n
        /\ \A i \in 1 .. n - 1 : q[i] = s.ready[i + 1]
      BY <1>1, NetIs
  <1>3. [s EXCEPT !.ready = q] = t
    <2> HIDE DEF q
    <2> QED
        BY <1>1 DEF Net
  <1> HIDE DEF q, e, n
  <1>4. t.conn = s.conn /\ t.hubs = s.hubs /\ t.handshakes = s.handshakes /\ t.ready = q
      OBVIOUS
  <1>5. t \in Net
      BY <1>1, <1>2, NetIs DEF Net
  <1> HIDE DEF t
  <1>6. Known(s) /\ Kept(s) /\ Apart(s) /\ Limited(s) /\ Roomy(s) /\ Single(s) /\ Phased(s)
      BY DEF Good, Well
  <1>7. Known(t) /\ Kept(t) /\ Apart(t) /\ Limited(t) /\ Roomy(t)
      BY <1>4, <1>6 DEF Known, Kept, Apart, Limited, Roomy
  <1>8. \A i \in DOMAIN q : i + 1 \in DOMAIN s.ready /\ q[i] = s.ready[i + 1]
      BY <1>2
  <1>9. \A c, op : NoEntry(s.ready, c, op) => NoEntry(q, c, op)
      BY <1>8 DEF NoEntry
  <1>10. Single(t)
    <2> SUFFICES ASSUME NEW c \in Conn, NEW op \in {"timer", "io"}
                 PROVE  /\ \A i, j \in DOMAIN q : Is(q[i], c, op) /\ Is(q[j], c, op) => i = j
                        /\ op \in s.conn[c].pending => NoEntry(q, c, op)
        BY <1>4 DEF Single
    <2>1. ASSUME NEW i \in DOMAIN q, NEW j \in DOMAIN q, Is(q[i], c, op), Is(q[j], c, op)
          PROVE  i = j
      <3>1. /\ i + 1 \in DOMAIN s.ready /\ j + 1 \in DOMAIN s.ready
            /\ Is(s.ready[i + 1], c, op) /\ Is(s.ready[j + 1], c, op)
          BY <1>8, <2>1
      <3>2. i + 1 = j + 1
          BY <1>6, <3>1 DEF Single
      <3> QED
          BY <1>2, <3>2
    <2>2. op \in s.conn[c].pending => NoEntry(q, c, op)
        BY <1>6, <1>9 DEF Single
    <2> QED
        BY <2>1, <2>2
  <1>11. Phased(t)
    <2> SUFFICES ASSUME NEW d \in Conn PROVE Fits(s.conn[d], d, q)
        BY <1>4 DEF Phased
    <2>1. Fits(s.conn[d], d, s.ready)
        BY <1>6 DEF Phased
    <2>2. (\A i \in DOMAIN s.ready : s.ready[i].c # d) => \A i \in DOMAIN q : q[i].c # d
        BY <1>8
    <2>3. ASSUME s.conn[d].phase = "hub", ~s.conn[d].closed, NEW i \in DOMAIN q, Is(q[i], d, "timer")
          PROVE  ~s.conn[d].nodeClosed /\ ~s.conn[d].quiet /\ \A j \in 1 .. i - 1 : q[j].c # d
      <3>1. i + 1 \in DOMAIN s.ready /\ Is(s.ready[i + 1], d, "timer")
          BY <1>8, <2>3
      <3>2. /\ ~s.conn[d].nodeClosed /\ ~s.conn[d].quiet
            /\ \A j \in 1 .. (i + 1) - 1 : s.ready[j].c # d
          BY <2>1, <2>3, <3>1 DEF Fits
      <3>3. ASSUME NEW j \in 1 .. i - 1
            PROVE  q[j].c # d
        <4>1. j + 1 \in 1 .. (i + 1) - 1 /\ j \in 1 .. n - 1
            BY <1>2
        <4> QED
            BY <1>2, <3>2, <4>1
      <3> QED
          BY <3>2, <3>3
    <2> QED
        BY <1>9, <2>1, <2>2, <2>3 DEF Fits
  <1>12. e.c \in Conn /\ e.op \in Op /\ 1 \in DOMAIN s.ready /\ Is(s.ready[1], e.c, e.op)
      BY <1>2 DEF Entry, Is
  <1>13. s.conn[e.c].phase # "free"
      BY <1>2, <1>6, <1>12 DEF Phased, Fits
  <1>14. ASSUME e.op # "write"
         PROVE  NoEntry(q, e.c, e.op) /\ e.op \notin s.conn[e.c].pending
    <2>1. e.op \in {"timer", "io"}
        BY <1>12, <1>14 DEF Op
    <2>2. \A i \in DOMAIN s.ready : Is(s.ready[i], e.c, e.op) => i = 1
        BY <1>6, <1>12, <2>1 DEF Single
    <2>3. ASSUME NEW i \in DOMAIN q, Is(q[i], e.c, e.op)
          PROVE  FALSE
      <3>1. i + 1 \in DOMAIN s.ready /\ Is(s.ready[i + 1], e.c, e.op)
          BY <1>8, <2>3
      <3>2. i + 1 = 1
          BY <2>2, <3>1
      <3> QED
          BY <1>2, <2>3, <3>2
    <2>4. e.op \in s.conn[e.c].pending => NoEntry(s.ready, e.c, e.op)
        BY <1>6, <1>12, <2>1 DEF Single
    <2> QED
        BY <1>12, <2>3, <2>4 DEF NoEntry
  <1>15. e.op = "write" => s.conn[e.c].phase = "hub"
      BY <1>6, <1>12 DEF Phased, Fits, NoEntry
  <1>16. ASSUME s.conn[e.c].phase = "hub", ~s.conn[e.c].closed
         PROVE  NoEntry(q, e.c, "timer") /\ (e.op = "timer" => ~s.conn[e.c].nodeClosed)
    <2>1. Fits(s.conn[e.c], e.c, s.ready)
        BY <1>6, <1>12 DEF Phased
    <2>2. ASSUME NEW i \in DOMAIN q, Is(q[i], e.c, "timer")
          PROVE  FALSE
      <3>1. i + 1 \in DOMAIN s.ready /\ Is(s.ready[i + 1], e.c, "timer")
          BY <1>8, <2>2
      <3>2. 1 \in 1 .. (i + 1) - 1
          BY <1>2
      <3>3. s.ready[1].c # e.c
          BY <1>16, <2>1, <3>1, <3>2 DEF Fits
      <3> QED
          BY <1>2, <3>3
    <2>3. e.op = "timer" => ~s.conn[e.c].nodeClosed
        BY <1>12, <1>16, <2>1 DEF Fits
    <2> QED
        BY <2>2, <2>3 DEF NoEntry
  <1>17. Good(t)
      BY <1>5, <1>7, <1>10, <1>11 DEF Good, Well
  <1>18. /\ Good(t) /\ t.conn = s.conn /\ t.hubs = s.hubs /\ t.handshakes = s.handshakes /\ t.ready = q
         /\ e \in Entry /\ s.conn[e.c].phase # "free"
         /\ e.op # "write" => NoEntry(q, e.c, e.op) /\ e.op \notin s.conn[e.c].pending
         /\ e.op = "write" => s.conn[e.c].phase = "hub"
         /\ s.conn[e.c].phase = "hub" /\ ~s.conn[e.c].closed =>
              NoEntry(q, e.c, "timer") /\ (e.op = "timer" => ~s.conn[e.c].nodeClosed)
      BY <1>2, <1>4, <1>13, <1>14, <1>15, <1>16, <1>17
  <1> QED
      BY <1>3, <1>18 DEF e, q

\* An object that nothing holds any more is free.
LEMMA BecomeKeeps ==
  ASSUME NEW s, Good(s), Become(s)
  PROVE  Good([conn |-> conn', hubs |-> hubs', handshakes |-> handshakes', ready |-> ready'])
  <1> DEFINE t == [conn |-> conn', hubs |-> hubs', handshakes |-> handshakes', ready |-> ready']
  <1>1. s \in Net
      BY DEF Good, Well
  <1>2. /\ conn' = [c \in Conn |-> IF c \in Held(s) THEN s.conn[c] ELSE Free]
        /\ hubs' = s.hubs /\ handshakes' = s.handshakes /\ ready' = s.ready
      BY DEF Become
  <1>3. t.conn = conn' /\ t.hubs = s.hubs /\ t.handshakes = s.handshakes /\ t.ready = s.ready
      BY <1>2
  <1> HIDE DEF t
  <1>4. \A d \in Conn : (d \in Held(s) /\ conn'[d] = s.conn[d]) \/ (d \notin Held(s) /\ conn'[d] = Free)
      BY <1>2
  <1>5. /\ \A a \in DOMAIN s.hubs : s.hubs[a] \in Held(s) /\ s.hubs[a] \in Conn
        /\ \A a \in DOMAIN s.handshakes : s.handshakes[a] \in Held(s) /\ s.handshakes[a] \in Conn
        /\ \A i \in DOMAIN s.ready : s.ready[i].c \in Held(s)
    <2>1. s.hubs \in Maps /\ s.handshakes \in Maps
        BY <1>1, NetIs
    <2> QED
        BY <2>1, MapIs DEF Held, Range
  <1>6. Known(s) /\ Kept(s) /\ Apart(s) /\ Limited(s) /\ Roomy(s) /\ Single(s) /\ Phased(s)
      BY DEF Good, Well
  <1>7. /\ Free.phase = "free" /\ Free.closed = TRUE /\ Free.nodeClosed = TRUE /\ Free.quiet = FALSE
        /\ Free.pending = {}
      BY DEF Free
  <1>8. t \in Net
    <2>1. ASSUME NEW d \in Conn
          PROVE  conn'[d] \in Connection
      <3>1. CASE conn'[d] = s.conn[d]
          BY <1>1, <3>1, NetIs
      <3>2. CASE conn'[d] = Free
        <4>1. (CHOOSE a \in Addr : TRUE) \in Addr
          <5>1. s.conn[d].addr \in Addr
              BY <1>1, NetIs DEF Connection
          <5> QED
              BY <5>1
        <4> QED
            BY <3>2, <4>1 DEF Free, Connection, Phase
      <3> QED
          BY <1>4, <3>1, <3>2
    <2>2. conn' \in [Conn -> Connection]
        BY <1>2, <2>1
    <2> QED
        BY <1>1, <1>2, <2>2, NetIs DEF t, Net
  <1>9. Known(t)
      BY <1>3, <1>4, <1>5, <1>6, <1>7 DEF Known
  <1>10. Kept(t)
      BY <1>3, <1>4, <1>5, <1>6, <1>7 DEF Kept
  <1>11. Apart(t) /\ Limited(t) /\ Roomy(t)
      BY <1>3, <1>6 DEF Apart, Limited, Roomy
  <1>12. Single(t)
      BY <1>3, <1>4, <1>6, <1>7 DEF Single
  <1>13. Phased(t)
    <2> SUFFICES ASSUME NEW d \in Conn PROVE Fits(conn'[d], d, s.ready)
        BY <1>3 DEF Phased
    <2>1. CASE d \in Held(s) /\ conn'[d] = s.conn[d]
        BY <1>6, <2>1 DEF Phased
    <2>2. CASE d \notin Held(s) /\ conn'[d] = Free
        BY <1>5, <1>7, <2>2 DEF Fits, NoEntry, Is
    <2> QED
        BY <1>4, <2>1, <2>2
  <1>14. Good(t)
      BY <1>8, <1>9, <1>10, <1>11, <1>12, <1>13 DEF Good, Well
  <1> QED
      BY <1>14 DEF t

\* A handshake is begun: an object that was free has an address of its own.
LEMMA ConnectKeeps ==
  ASSUME NEW s, Good(s), NEW c \in Conn, s.conn[c].phase = "free", NEW a \in Addr,
         a \notin DOMAIN s.hubs \cup DOMAIN s.handshakes, Cardinality(DOMAIN s.hubs) < MaxHubs
  PROVE  Good(Begin(Begin([s EXCEPT !.conn[c] = [Free EXCEPT !.addr = a, !.phase = "greet", !.closed = FALSE, !.open = TRUE],
                                    !.handshakes = Enter(s.handshakes, a, c)], c, "timer"), c, "io"))
  <1> DEFINE x  == [Free EXCEPT !.addr = a, !.phase = "greet", !.closed = FALSE, !.open = TRUE]
             cs == [s.conn EXCEPT ![c] = x]
             ms == Enter(s.handshakes, a, c)
             t  == [conn |-> cs, hubs |-> s.hubs, handshakes |-> ms, ready |-> s.ready]
             u  == Begin(t, c, "timer")
             v  == Begin(u, c, "io")
  <1>1. s \in Net /\ s.handshakes \in Maps /\ s.hubs \in Maps
      BY DEF Good, Well, Net
  <1>2. [s EXCEPT !.conn[c] = x, !.handshakes = ms] = t
    <2>1. [s EXCEPT !.conn[c] = x, !.handshakes = ms] = [[s EXCEPT !.conn = cs] EXCEPT !.handshakes = ms]
        BY Zenon
    <2> DEFINE w == [s EXCEPT !.conn = cs]
    <2> HIDE DEF cs, ms
    <2>2. w = [conn |-> cs, hubs |-> s.hubs, handshakes |-> s.handshakes, ready |-> s.ready]
        BY <1>1 DEF Net
    <2> HIDE DEF w
    <2>3. [w EXCEPT !.handshakes = ms] = t
        BY <2>2
    <2> QED
        BY <2>1, <2>3, Zenon DEF w
  <1>3. /\ x \in Connection /\ x.addr = a /\ x.phase = "greet" /\ x.closed = FALSE
        /\ x.nodeClosed = TRUE /\ x.quiet = FALSE /\ x.pending = {}
      BY DEF Free, Connection, Phase
  <1>4. /\ ms \in Maps /\ DOMAIN ms = DOMAIN s.handshakes \cup {a} /\ ms[a] = c
        /\ \A b \in DOMAIN s.handshakes \ {a} : ms[b] = s.handshakes[b]
    <2> HIDE DEF x
    <2>1. s.handshakes \in Maps /\ a \in Addr /\ c \in Conn
        BY <1>1
    <2>2. ms \in Maps
        BY <2>1, EnterIs
    <2>3. DOMAIN ms = DOMAIN s.handshakes \cup {a}
        BY <2>1, EnterIs
    <2>4. ms[a] = c
        BY DEF Enter
    <2>5. \A b \in DOMAIN s.handshakes \ {a} : ms[b] = s.handshakes[b]
        BY DEF Enter
    <2> QED
        BY <2>2, <2>3, <2>4, <2>5
  <1>5. IsFiniteSet(DOMAIN s.handshakes) => IsFiniteSet(DOMAIN ms)
      BY <1>4, FS_AddElement
  <1> HIDE DEF x
  <1>6. cs \in [Conn -> Connection] /\ cs[c] = x /\ \A d \in Conn \ {c} : cs[d] = s.conn[d]
      BY <1>1, <1>3, NetIs
  <1> HIDE DEF cs, ms
  <1>7. t.conn = cs /\ t.hubs = s.hubs /\ t.handshakes = ms /\ t.ready = s.ready
      OBVIOUS
  <1>8. t \in Net
      BY <1>1, <1>4, <1>6, NetIs DEF Net
  <1>9. (\A b \in DOMAIN s.handshakes : s.handshakes[b] \in Conn) /\ (\A b \in DOMAIN s.hubs : s.hubs[b] \in Conn)
      BY <1>1, MapIs
  <1> HIDE DEF t
  <1>10. Known(s) /\ Kept(s) /\ Apart(s) /\ Limited(s) /\ Roomy(s) /\ Single(s) /\ Phased(s)
      BY DEF Good, Well
  <1>11. /\ s.conn[c].closed /\ s.conn[c].pending = {} /\ \A i \in DOMAIN s.ready : s.ready[i].c # c
         /\ s.conn[c].nodeClosed
    <2>1. Fits(s.conn[c], c, s.ready)
        BY <1>10 DEF Phased
    <2>2. s.conn[c].nodeClosed
        BY <1>10 DEF Kept
    <2> QED
        BY <2>1, <2>2 DEF Fits
  <1>12. /\ \A b \in DOMAIN s.handshakes : s.handshakes[b] # c /\ b # a
         /\ \A b \in DOMAIN s.hubs : s.hubs[b] # c /\ b # a
      BY <1>10 DEF Known, Kept
  <1>13. Known(t)
      BY <1>3, <1>4, <1>6, <1>7, <1>9, <1>10, <1>12 DEF Known
  <1>14. Kept(t)
      BY <1>3, <1>6, <1>7, <1>9, <1>10, <1>11, <1>12 DEF Kept
  <1>15. Apart(t) /\ Limited(t) /\ Roomy(t)
      BY <1>4, <1>5, <1>7, <1>10 DEF Apart, Limited, Roomy
  <1>16. \A op : NoEntry(t.ready, c, op)
      BY <1>7, <1>11 DEF NoEntry, Is
  <1>17. Single(t)
      BY <1>3, <1>6, <1>7, <1>10 DEF Single
  <1>18. Phased(t)
    <2> SUFFICES ASSUME NEW d \in Conn PROVE Fits(cs[d], d, s.ready)
        BY <1>7 DEF Phased
    <2>1. CASE d # c
        BY <1>6, <1>10, <2>1 DEF Phased
    <2>2. CASE d = c
        BY <1>3, <1>6, <1>7, <1>16, <2>2 DEF Fits
    <2> QED
        BY <2>1, <2>2
  <1>19. Well(t)
      BY <1>8, <1>13, <1>14, <1>15, <1>17, <1>18 DEF Well
  <1>20. t.conn[c].phase = "greet" /\ t.conn[c].pending = {} /\ t.conn[c] \in Connection
      BY <1>3, <1>6, <1>7
  <1>21. "timer" \in Op /\ "io" \in Op \ {"timer"}
      BY DEF Op
  <1>22. /\ Well(u) /\ u.hubs = t.hubs /\ u.handshakes = t.handshakes
         /\ u.conn[c] = [t.conn[c] EXCEPT !.pending = u.conn[c].pending]
         /\ NoEntry(u.ready, c, "io") /\ "io" \notin u.conn[c].pending
    <2>1. /\ Well(Begin(t, c, "timer"))
          /\ Begin(t, c, "timer").hubs = t.hubs /\ Begin(t, c, "timer").handshakes = t.handshakes
          /\ \A d \in Conn :
               /\ d # c => Begin(t, c, "timer").conn[d] = t.conn[d]
               /\ Begin(t, c, "timer").conn[d] = [t.conn[d] EXCEPT !.pending = Begin(t, c, "timer").conn[d].pending]
          /\ \A o \in Op \ {"timer"} :
               /\ NoEntry(t.ready, c, o) => NoEntry(Begin(t, c, "timer").ready, c, o)
               /\ o \in Begin(t, c, "timer").conn[c].pending => o \in t.conn[c].pending
        BY <1>16, <1>19, <1>20, <1>21, BeginKeeps
    <2> QED
        BY <1>16, <1>20, <1>21, <2>1
  <1> HIDE DEF u
  <1>23. u.conn[c].phase = "greet"
      BY <1>20, <1>22 DEF Connection
  <1>24. Well(v) /\ v.hubs = u.hubs /\ v.handshakes = u.handshakes
      BY <1>21, <1>22, <1>23, BeginKeeps
  <1>25. Good(v)
      BY <1>7, <1>15, <1>22, <1>24 DEF Good, Roomy
  <1> QED
      BY <1>2, <1>25 DEF u, x, ms

\* What begins or is sent is an object that changes, and the queue that grows.
LEMMA BeginIs ==
  ASSUME NEW s \in Net, NEW c \in Conn, NEW op \in Op
  PROVE  /\ Begin(s, c, op) \in Net
         /\ Begin(s, c, op) =
              IF s.conn[c].open \/ op = "timer"
              THEN Changed(s, c, [s.conn[c] EXCEPT !.pending = s.conn[c].pending \cup {op}])
              ELSE Queued(s, [c |-> c, op |-> op, res |-> "error"])
  <1> DEFINE p == s.conn[c].pending \cup {op}
             e == [c |-> c, op |-> op, res |-> "error"]
  <1>1. p \in SUBSET Op /\ e \in Entry
    <2>1. s.conn[c] \in Connection
        BY NetIs
    <2> QED
        BY <2>1 DEF Connection, Entry, Result
  <1>2. CASE s.conn[c].open \/ op = "timer"
    <2>1. Begin(s, c, op) = [s EXCEPT !.conn[c].pending = p]
        BY <1>2 DEF Begin
    <2> HIDE DEF p
    <2>2. Begin(s, c, op) = Changed(s, c, [s.conn[c] EXCEPT !.pending = p])
          /\ [s.conn[c] EXCEPT !.pending = p] \in Connection
      <3>1. \A q \in SUBSET Op :
              /\ [s EXCEPT !.conn[c].pending = q] = Changed(s, c, [s.conn[c] EXCEPT !.pending = q])
              /\ [s.conn[c] EXCEPT !.pending = q] \in Connection
          BY FieldIs
      <3> QED
          BY <1>1, <2>1, <3>1, Zenon
    <2>3. Begin(s, c, op) \in Net
        BY <2>2, ChangedIs
    <2> QED
        BY <1>2, <2>2, <2>3 DEF p
  <1>3. CASE ~(s.conn[c].open \/ op = "timer")
    <2>1. Begin(s, c, op) = [s EXCEPT !.ready = Append(s.ready, e)]
        BY <1>3, Zenon DEF Begin
    <2> HIDE DEF e
    <2>2. Begin(s, c, op) = Queued(s, e)
        BY <2>1 DEF Queued, Net
    <2>3. s.ready \in Seq(Entry)
        BY NetIs
    <2>4. Append(s.ready, e) \in Seq(Entry)
        BY <1>1, <2>3
    <2>5. Begin(s, c, op) \in Net
        BY <2>2, <2>4, NetIs DEF Queued, Net
    <2> QED
        BY <1>3, <2>2, <2>5 DEF e
  <1> QED
      BY <1>2, <1>3

LEMMA SendIs ==
  ASSUME NEW s \in Net, NEW c \in Conn
  PROVE  LET t == Begin(s, c, "write")
         IN /\ Send(s, c) \in Net
            /\ Send(s, c) = IF s.conn[c].busy THEN s ELSE Changed(t, c, [t.conn[c] EXCEPT !.busy = TRUE])
  <1> DEFINE t == Begin(s, c, "write")
  <1>1. t \in Net
      BY BeginIs DEF Op
  <1>2. Send(s, c) = IF s.conn[c].busy THEN s ELSE [t EXCEPT !.conn[c].busy = TRUE]
      BY DEF Send
  <1> HIDE DEF t
  <1>3. [t EXCEPT !.conn[c].busy = TRUE] = Changed(t, c, [t.conn[c] EXCEPT !.busy = TRUE])
        /\ [t.conn[c] EXCEPT !.busy = TRUE] \in Connection
      BY <1>1, FieldIs
  <1>4. Changed(t, c, [t.conn[c] EXCEPT !.busy = TRUE]) \in Net
      BY <1>1, <1>3, ChangedIs
  <1>5. /\ Send(s, c) \in Net
        /\ Send(s, c) = IF s.conn[c].busy THEN s ELSE Changed(t, c, [t.conn[c] EXCEPT !.busy = TRUE])
      BY <1>2, <1>3, <1>4
  <1> QED
      BY <1>5 DEF t

\* Neither depends on the handshakes that the net knows.
With(s, m) == [conn |-> s.conn, hubs |-> s.hubs, handshakes |-> m, ready |-> s.ready]

LEMMA BeginForgets ==
  ASSUME NEW s \in Net, NEW c \in Conn, NEW op \in Op, NEW m \in Maps
  PROVE  With(s, m) \in Net /\ Begin(With(s, m), c, op) = With(Begin(s, c, op), m)
  <1>1. With(s, m) \in Net
      BY NetIs DEF With, Net
  <1>2. With(s, m).conn = s.conn /\ With(s, m).hubs = s.hubs /\ With(s, m).ready = s.ready /\ With(s, m).handshakes = m
      BY DEF With
  <1>3. \A x : Changed(With(s, m), c, x) = With(Changed(s, c, x), m)
      BY <1>2 DEF Changed, With
  <1>4. \A e : Queued(With(s, m), e) = With(Queued(s, e), m)
      BY <1>2 DEF Queued, With
  <1>5. Begin(With(s, m), c, op) =
              IF s.conn[c].open \/ op = "timer"
              THEN Changed(With(s, m), c, [s.conn[c] EXCEPT !.pending = s.conn[c].pending \cup {op}])
              ELSE Queued(With(s, m), [c |-> c, op |-> op, res |-> "error"])
      BY <1>1, <1>2, BeginIs
  <1> QED
      BY <1>1, <1>3, <1>4, <1>5, BeginIs

LEMMA SendForgets ==
  ASSUME NEW s \in Net, NEW c \in Conn, NEW m \in Maps
  PROVE  Send(With(s, m), c) = With(Send(s, c), m)
  <1> DEFINE t == Begin(s, c, "write")
             u == Begin(With(s, m), c, "write")
             y == [t.conn[c] EXCEPT !.busy = TRUE]
  <1>1. /\ With(s, m) \in Net /\ u = With(t, m)
      BY BeginForgets DEF Op
  <1>2. With(s, m).conn = s.conn /\ u.conn = t.conn
      BY <1>1 DEF With
  <1>3. Send(s, c) = IF s.conn[c].busy THEN s ELSE Changed(t, c, y)
      BY SendIs
  <1>4. Send(With(s, m), c) = IF s.conn[c].busy THEN With(s, m) ELSE Changed(u, c, y)
    <2>1. Send(With(s, m), c) = IF With(s, m).conn[c].busy THEN With(s, m)
                                ELSE Changed(u, c, [u.conn[c] EXCEPT !.busy = TRUE])
        BY <1>1, SendIs
    <2> HIDE DEF t, u
    <2> QED
        BY <1>2, <2>1
  <1> HIDE DEF t, u, y
  <1>5. Changed(u, c, y) = With(Changed(t, c, y), m)
      BY <1>1 DEF Changed, With
  <1> QED
      BY <1>3, <1>4, <1>5

\* The handshakes S are closed.
Closed(u, S) == [conn |-> [d \in Conn |-> IF d \in S THEN Gone(u.conn[d]) ELSE u.conn[d]],
                 hubs |-> u.hubs, handshakes |-> u.handshakes, ready |-> u.ready]

CloseAll(u, S) == FoldSet(LAMBDA h, v : CloseHandshake(v, h), u, S)

\* Closing them one by one, in whichever order, closes them.
LEMMA CloseAllIs ==
  ASSUME NEW u \in Net, NEW R \in SUBSET Conn, IsFiniteSet(R), \A d \in R : ~u.conn[d].closed
  PROVE  CloseAll(u, R) = Closed(u, R)
  <1> DEFINE Is_(f) == f = [s \in SUBSET R |-> IF s = {} THEN u ELSE CloseHandshake(f[s \ {AnyOf(s)}], AnyOf(s))]
             iter == CHOOSE f : Is_(f)
             g == [s \in SUBSET R |-> Closed(u, s)]
  <1>1. CloseAll(u, R) = iter[R]
      BY DEF CloseAll, FoldSet, MapThenFoldSet, AnyOf
  <1>2. \A s \in SUBSET R : s # {} => AnyOf(s) \in s
      BY Zenon DEF AnyOf
  <1>3. Closed(u, {}) = u
    <2>1. [d \in Conn |-> IF d \in {} THEN Gone(u.conn[d]) ELSE u.conn[d]] = u.conn
        BY NetIs
    <2> QED
        BY <2>1, NetIs DEF Closed
  <1>4. ASSUME NEW s \in SUBSET R, s # {}
        PROVE  CloseHandshake(Closed(u, s \ {AnyOf(s)}), AnyOf(s)) = Closed(u, s)
    <2> DEFINE x == AnyOf(s)
               w == Closed(u, s \ {x})
    <2>1. x \in s /\ x \in Conn
        BY <1>2, <1>4
    <2> HIDE DEF x
    <2>2. /\ w.conn = [d \in Conn |-> IF d \in s \ {x} THEN Gone(u.conn[d]) ELSE u.conn[d]]
          /\ w.hubs = u.hubs /\ w.handshakes = u.handshakes /\ w.ready = u.ready
        BY DEF Closed
    <2>3. \A d \in Conn : u.conn[d] \in Connection /\ Gone(u.conn[d]) \in Connection
        BY NetIs, ShutIs
    <2>4. w \in Net
      <3> DEFINE ds == [d \in Conn |-> IF d \in s \ {x} THEN Gone(u.conn[d]) ELSE u.conn[d]]
      <3>1. ds \in [Conn -> Connection]
          BY <2>3
      <3>2. w = [conn |-> ds, hubs |-> u.hubs, handshakes |-> u.handshakes, ready |-> u.ready]
          BY DEF Closed
      <3> HIDE DEF ds, w
      <3> QED
          BY <3>1, <3>2, NetIs DEF Net
    <2> HIDE DEF w
    <2>5. w.conn[x] = u.conn[x] /\ ~u.conn[x].closed
        BY <2>1, <2>2
    <2>6. CloseHandshake(w, x) = Changed(w, x, Gone(u.conn[x]))
        BY <2>1, <2>4, <2>5, CloseHandshakeIs
    <2>7. [w.conn EXCEPT ![x] = Gone(u.conn[x])] = [d \in Conn |-> IF d \in s THEN Gone(u.conn[d]) ELSE u.conn[d]]
        BY <2>1, <2>2
    <2>8. Changed(w, x, Gone(u.conn[x])) = Closed(u, s)
        BY <2>2, <2>7 DEF Changed, Closed
    <2> QED
        BY <2>6, <2>8 DEF w, x
  <1>5. Is_(g)
    <2>1. \A s \in SUBSET R : g[s] = Closed(u, s)
        OBVIOUS
    <2>2. ASSUME NEW s \in SUBSET R
          PROVE  Closed(u, s) = IF s = {} THEN u ELSE CloseHandshake(g[s \ {AnyOf(s)}], AnyOf(s))
      <3>1. CASE s = {}
          BY <1>3, <3>1
      <3>2. CASE s # {}
        <4>1. g[s \ {AnyOf(s)}] = Closed(u, s \ {AnyOf(s)})
            OBVIOUS
        <4> HIDE DEF g
        <4> QED
            BY <1>4, <3>2, <4>1
      <3> QED
          BY <3>1, <3>2
    <2> QED
        BY <2>2, Zenon
  <1>6. Is_(iter)
      BY <1>5
  <1> HIDE DEF Is_, iter, g
  <1>7. \A s \in SUBSET R : iter[s] = IF s = {} THEN u ELSE CloseHandshake(iter[s \ {AnyOf(s)}], AnyOf(s))
      BY <1>6 DEF Is_
  <1>8. \A s \in SUBSET R : iter[s] = Closed(u, s)
    <2> DEFINE G == {s \in SUBSET R : iter[s] = Closed(u, s)}
    <2>1. ASSUME NEW s \in SUBSET R, \A x \in s : s \ {x} \in G
          PROVE  s \in G
      <3>1. CASE s = {}
        <4>1. iter[s] = u
            BY <1>7, <3>1
        <4> QED
            BY <1>3, <3>1, <4>1
      <3>2. CASE s # {}
        <4>1. iter[s \ {AnyOf(s)}] = Closed(u, s \ {AnyOf(s)})
            BY <1>2, <2>1, <3>2
        <4>2. iter[s] = CloseHandshake(iter[s \ {AnyOf(s)}], AnyOf(s))
            BY <1>7, <3>2
        <4> QED
            BY <1>4, <3>2, <4>1, <4>2
      <3> QED
          BY <3>1, <3>2
    <2> HIDE DEF G
    <2>2. \A s \in SUBSET R : s \in G
        BY <2>1, SubsetsOf
    <2> QED
        BY <2>2 DEF G
  <1> QED
      BY <1>1, <1>8

\* When all handshakes are closed none is known, and the hubs are what they were.
LEMMA AllClosedKeeps ==
  ASSUME NEW u, Well(u)
  PROVE  Good(With(Closed(u, Range(u.handshakes)), <<>>))
  <1> DEFINE R  == Range(u.handshakes)
             cs == [d \in Conn |-> IF d \in R THEN Gone(u.conn[d]) ELSE u.conn[d]]
             t  == With(Closed(u, R), <<>>)
  <1>1. u \in Net /\ Known(u) /\ Kept(u) /\ Limited(u) /\ Single(u) /\ Phased(u)
      BY DEF Well
  <1>2. t.conn = cs /\ t.hubs = u.hubs /\ t.handshakes = <<>> /\ t.ready = u.ready
      BY DEF With, Closed
  <1>3. \A a \in DOMAIN u.handshakes : u.handshakes[a] \in R
      BY DEF Range
  <1>4. \A a \in DOMAIN u.hubs : u.hubs[a] \in Conn
      BY <1>1, NetIs, MapIs
  <1> HIDE DEF R
  <1>5. ASSUME NEW d \in Conn
        PROVE  /\ cs[d] \in Connection /\ cs[d].addr = u.conn[d].addr /\ cs[d].phase = u.conn[d].phase
               /\ cs[d].nodeClosed = u.conn[d].nodeClosed /\ cs[d].quiet = u.conn[d].quiet
               /\ cs[d].pending \subseteq u.conn[d].pending
               /\ d \in R => cs[d].closed /\ cs[d].pending = {}
               /\ d \notin R => cs[d] = u.conn[d]
    <2>1. u.conn[d] \in Connection
        BY <1>1, NetIs
    <2>2. CASE d \in R
      <3>1. cs[d] = Gone(u.conn[d])
          BY <2>2
      <3>2. LET y == Gone(u.conn[d]) IN
            /\ y \in Connection /\ y.addr = u.conn[d].addr /\ y.phase = u.conn[d].phase
            /\ y.nodeClosed = u.conn[d].nodeClosed /\ y.quiet = u.conn[d].quiet
            /\ y.closed /\ y.pending = {}
          BY <2>1, ShutIs
      <3> HIDE DEF cs, t
      <3> QED
          BY <2>2, <3>1, <3>2
    <2>3. CASE d \notin R
        BY <2>1, <2>3
    <2> QED
        BY <2>2, <2>3
  <1>6. cs \in [Conn -> Connection]
    <2>1. cs = [d \in Conn |-> cs[d]]
        OBVIOUS
    <2> HIDE DEF cs
    <2> QED
        BY <1>5, <2>1
  <1> HIDE DEF cs
  <1>7. <<>> \in Maps /\ DOMAIN <<>> = {}
    <2>1. <<>> \in [{} -> Conn]
        OBVIOUS
    <2> QED
        BY <2>1 DEF Maps
  <1>8. t \in Net
    <2>1. t = [conn |-> cs, hubs |-> u.hubs, handshakes |-> <<>>, ready |-> u.ready]
        BY <1>2 DEF With
    <2> HIDE DEF t
    <2> QED
        BY <1>1, <1>6, <1>7, <2>1, NetIs DEF Net
  <1> HIDE DEF t
  <1>9. Known(t)
    <2>1. ASSUME NEW d \in Conn, cs[d].phase \in {"greet", "final"}, ~cs[d].closed
          PROVE  FALSE
      <3>1. d \notin R /\ cs[d] = u.conn[d]
          BY <1>5, <2>1
      <3>2. u.conn[d].addr \in DOMAIN u.handshakes /\ u.handshakes[u.conn[d].addr] = d
          BY <1>1, <2>1, <3>1 DEF Known
      <3> QED
          BY <1>3, <3>1, <3>2
    <2> QED
        BY <1>2, <1>7, <2>1 DEF Known
  <1>10. Kept(t)
      BY <1>1, <1>2, <1>4, <1>5 DEF Kept
  <1>11. Apart(t) /\ Limited(t) /\ Roomy(t)
    <2>1. IsFiniteSet(DOMAIN t.handshakes)
        BY <1>2, <1>7, FS_EmptySet
    <2> QED
        BY <1>1, <1>2, <1>7, <2>1 DEF Apart, Limited, Roomy
  <1>12. Single(t)
      BY <1>1, <1>2, <1>5 DEF Single
  <1>13. Phased(t)
    <2> SUFFICES ASSUME NEW d \in Conn PROVE Fits(cs[d], d, u.ready)
        BY <1>2 DEF Phased
    <2>1. Fits(u.conn[d], d, u.ready)
        BY <1>1 DEF Phased
    <2>2. CASE d \in R
        BY <1>5, <2>1, <2>2 DEF Fits
    <2>3. CASE d \notin R
        BY <1>5, <2>1, <2>3
    <2> QED
        BY <2>2, <2>3
  <1> QED
      BY <1>8, <1>9, <1>10, <1>11, <1>12, <1>13 DEF Good, Well, t, R

\* A map with finitely many addresses has finitely many values.
LEMMA RangeIsFinite ==
  ASSUME NEW m, IsFiniteSet(DOMAIN m)
  PROVE  IsFiniteSet(Range(m))
  <1> DEFINE f == [a \in DOMAIN m |-> m[a]]
  <1>1. f \in Surjection(DOMAIN m, Range(m))
      BY DEF Surjection, Range
  <1> QED
      BY <1>1, FS_Surjection

\* The handshake becomes a hub: the state before its node begins to read and to send.
LEMMA NodeEntersKeeps ==
  ASSUME NEW s, Well(s), Roomy(s), NEW c \in Conn, s.conn[c].phase = "final", ~s.conn[c].closed,
         conn[c].addr = s.conn[c].addr, NoEntry(s.ready, c, "io"), s.conn[c].pending \subseteq {"write"},
         NEW x \in Connection, x.addr = s.conn[c].addr, x.phase = "hub", ~x.closed, ~x.nodeClosed,
         ~x.quiet, x.pending = {}
  PROVE  Well([conn |-> [s.conn EXCEPT ![c] = x], hubs |-> Enter(s.hubs, s.conn[c].addr, c),
               handshakes |-> Erase(s.handshakes, c), ready |-> s.ready])
  <1> DEFINE o  == s.conn[c]
             a  == o.addr
             cs == [s.conn EXCEPT ![c] = x]
             hs == Enter(s.hubs, a, c)
             ms == Erase(s.handshakes, c)
             t  == [conn |-> cs, hubs |-> hs, handshakes |-> ms, ready |-> s.ready]
  <1>1. /\ s \in Net /\ Known(s) /\ Kept(s) /\ Apart(s) /\ Limited(s) /\ Single(s) /\ Phased(s)
        /\ o \in Connection /\ s.handshakes \in Maps /\ s.hubs \in Maps
      BY DEF Well, Net
  <1>2. a \in Addr /\ a \in DOMAIN s.handshakes /\ s.handshakes[a] = c /\ a \notin DOMAIN s.hubs
    <2>1. a \in DOMAIN s.handshakes /\ s.handshakes[a] = c
        BY <1>1 DEF Known
    <2> QED
        BY <1>1, <2>1 DEF Apart, Connection
  <1>3. /\ ms \in Maps /\ DOMAIN ms = DOMAIN s.handshakes \ {a}
        /\ \A b \in DOMAIN ms : ms[b] = s.handshakes[b]
    <2>1. /\ ms \in Maps /\ DOMAIN ms = DOMAIN s.handshakes \ {conn[c].addr}
          /\ \A b \in DOMAIN ms : ms[b] = s.handshakes[b]
        BY <1>1, EraseIs
    <2> HIDE DEF ms
    <2> QED
        BY <2>1
  <1>4. /\ hs \in Maps /\ DOMAIN hs = DOMAIN s.hubs \cup {a}
        /\ hs[a] = c /\ \A b \in DOMAIN s.hubs \ {a} : hs[b] = s.hubs[b]
    <2>1. a \in Addr /\ s.hubs \in Maps
        BY <1>1, <1>2
    <2> HIDE DEF a
    <2>2. Enter(s.hubs, a, c) \in Maps
        BY <2>1, EnterIs
    <2>3. DOMAIN Enter(s.hubs, a, c) = DOMAIN s.hubs \cup {a}
        BY <2>1, EnterIs
    <2>4. Enter(s.hubs, a, c)[a] = c
        BY DEF Enter
    <2>5. \A b \in DOMAIN s.hubs \ {a} : Enter(s.hubs, a, c)[b] = s.hubs[b]
        BY DEF Enter
    <2> QED
        BY <2>2, <2>3, <2>4, <2>5
  <1>5. cs \in [Conn -> Connection] /\ cs[c] = x /\ \A d \in Conn \ {c} : cs[d] = s.conn[d]
      BY <1>1, NetIs
  <1>6. /\ IsFiniteSet(DOMAIN ms) /\ IsFiniteSet(DOMAIN hs)
        /\ Cardinality(DOMAIN hs) <= MaxHubs
    <2>1. Cardinality(DOMAIN s.hubs) < MaxHubs
        BY <1>2 DEF Roomy
    <2>2. /\ IsFiniteSet(DOMAIN hs) /\ Cardinality(DOMAIN hs) = Cardinality(DOMAIN s.hubs) + 1
        BY <1>1, <1>2, EnterCounts DEF Limited
    <2>3. Cardinality(DOMAIN s.hubs) \in Nat /\ MaxHubs \in Nat
        BY <1>1, FS_CardinalityType, BoundAssumption DEF Limited
    <2>4. IsFiniteSet(DOMAIN ms)
        BY <1>1, EraseCounts DEF Limited
    <2> QED
        BY <2>1, <2>2, <2>3, <2>4
  <1> HIDE DEF cs, hs, ms
  <1>7. t.conn = cs /\ t.hubs = hs /\ t.handshakes = ms /\ t.ready = s.ready
      OBVIOUS
  <1>8. t \in Net
      BY <1>1, <1>3, <1>4, <1>5, NetIs DEF Net
  <1> HIDE DEF t
  <1>9. \A b \in DOMAIN s.handshakes : s.handshakes[b] \in Conn
      BY <1>1, MapIs
  <1>10. \A b \in DOMAIN s.hubs : s.hubs[b] \in Conn
      BY <1>1, MapIs
  <1>11. /\ x.addr = a /\ x.phase = "hub" /\ ~x.closed /\ ~x.nodeClosed /\ ~x.quiet /\ x.pending = {}
         /\ o.phase = "final" /\ ~o.closed /\ NoEntry(s.ready, c, "io")
      OBVIOUS
  <1>12. Known(t)
    <2>1. ASSUME NEW b \in DOMAIN ms
          PROVE  LET y == cs[ms[b]] IN y.addr = b /\ y.phase \in {"greet", "final"} /\ ~y.closed
      <3>1. b # a /\ ms[b] = s.handshakes[b] /\ b \in DOMAIN s.handshakes
          BY <1>3
      <3>2. LET y == s.conn[ms[b]] IN y.addr = b /\ y.phase \in {"greet", "final"} /\ ~y.closed
          BY <1>1, <3>1 DEF Known
      <3>3. ms[b] \in Conn \ {c}
          BY <1>9, <3>1, <3>2
      <3> QED
          BY <1>5, <3>2, <3>3
    <2>2. ASSUME NEW d \in Conn, cs[d].phase \in {"greet", "final"}, ~cs[d].closed
          PROVE  cs[d].addr \in DOMAIN ms /\ ms[cs[d].addr] = d
      <3>1. d # c /\ cs[d] = s.conn[d]
          BY <1>5, <1>11, <2>2
      <3>2. s.conn[d].addr \in DOMAIN s.handshakes /\ s.handshakes[s.conn[d].addr] = d
          BY <1>1, <2>2, <3>1 DEF Known
      <3> QED
          BY <1>2, <1>3, <3>1, <3>2
    <2> QED
        BY <1>7, <2>1, <2>2 DEF Known
  <1>13. Kept(t)
    <2>1. ASSUME NEW b \in DOMAIN hs
          PROVE  LET y == cs[hs[b]] IN y.addr = b /\ y.phase = "hub" /\ ~y.nodeClosed
      <3>1. CASE b = a
          BY <1>4, <1>5, <1>11, <3>1
      <3>2. CASE b # a
        <4>1. b \in DOMAIN s.hubs /\ hs[b] = s.hubs[b]
            BY <1>4, <3>2
        <4>2. LET y == s.conn[hs[b]] IN y.addr = b /\ y.phase = "hub" /\ ~y.nodeClosed
            BY <1>1, <4>1 DEF Kept
        <4>3. hs[b] \in Conn \ {c}
            BY <1>10, <3>2, <4>1, <4>2
        <4> QED
            BY <1>5, <4>2, <4>3
      <3> QED
          BY <3>1, <3>2
    <2>2. ASSUME NEW d \in Conn, ~cs[d].nodeClosed
          PROVE  cs[d].addr \in DOMAIN hs /\ hs[cs[d].addr] = d
      <3>1. CASE d = c
          BY <1>4, <1>5, <1>11, <3>1
      <3>2. CASE d # c
        <4>1. cs[d] = s.conn[d]
            BY <1>5, <3>2
        <4>2. s.conn[d].addr \in DOMAIN s.hubs /\ s.hubs[s.conn[d].addr] = d
            BY <1>1, <2>2, <4>1 DEF Kept
        <4> QED
            BY <1>2, <1>4, <4>1, <4>2
      <3> QED
          BY <3>1, <3>2
    <2> QED
        BY <1>7, <2>1, <2>2 DEF Kept
  <1>14. Apart(t)
      BY <1>1, <1>3, <1>4, <1>7 DEF Apart
  <1>15. Limited(t)
      BY <1>6, <1>7 DEF Limited
  <1>16. Single(t)
    <2>1. \A d \in Conn : cs[d].pending \subseteq s.conn[d].pending
        BY <1>5, <1>11
    <2> QED
        BY <1>1, <1>7, <2>1 DEF Single
  <1>17. Phased(t)
    <2> SUFFICES ASSUME NEW d \in Conn PROVE Fits(cs[d], d, s.ready)
        BY <1>7 DEF Phased
    <2>1. Fits(s.conn[d], d, s.ready)
        BY <1>1 DEF Phased
    <2>2. CASE d # c
        BY <1>5, <2>1, <2>2
    <2>3. CASE d = c
      <3>1. NoEntry(s.ready, c, "write")
          BY <1>11, <2>1, <2>3 DEF Fits
      <3>2. \A i \in DOMAIN s.ready : s.ready[i].op \in Op /\ (s.ready[i].c = c => Is(s.ready[i], c, "timer"))
        <4>1. \A i \in DOMAIN s.ready : s.ready[i] \in Entry
            BY <1>1, NetIs
        <4> QED
            BY <1>11, <3>1, <4>1 DEF Entry, Op, NoEntry, Is
      <3>3. \A i, j \in DOMAIN s.ready : Is(s.ready[i], c, "timer") /\ Is(s.ready[j], c, "timer") => i = j
          BY <1>1 DEF Single
      <3>4. DOMAIN s.ready = 1 .. Len(s.ready) /\ Len(s.ready) \in Nat
          BY <1>1, NetIs
      <3>5. \A i \in DOMAIN s.ready : Is(s.ready[i], c, "timer") => \A j \in 1 .. i - 1 : s.ready[j].c # c
        <4> SUFFICES ASSUME NEW i \in DOMAIN s.ready, Is(s.ready[i], c, "timer"),
                            NEW j \in 1 .. i - 1, s.ready[j].c = c
                     PROVE  FALSE
            OBVIOUS
        <4>1. j \in DOMAIN s.ready /\ j # i
            BY <3>4
        <4> QED
            BY <3>2, <3>3, <4>1
      <3> QED
          BY <1>5, <1>11, <2>3, <3>5 DEF Fits
    <2> QED
        BY <2>2, <2>3
  <1>18. Well(t)
      BY <1>8, <1>12, <1>13, <1>14, <1>15, <1>16, <1>17 DEF Well
  <1> QED
      BY <1>18 DEF t, cs, hs, ms

\* Beginning and sending leave the handshakes alone.
LEMMA SameHandshakes ==
  ASSUME NEW s \in Net, NEW c \in Conn
  PROVE  /\ \A op \in Op : Begin(s, c, op).handshakes = s.handshakes
         /\ Send(s, c).handshakes = s.handshakes
  <1>1. /\ \A v, y : Changed(v, c, y).handshakes = v.handshakes
        /\ \A v, y : Queued(v, y).handshakes = v.handshakes
      BY DEF Changed, Queued
  <1>2. ASSUME NEW op \in Op PROVE Begin(s, c, op).handshakes = s.handshakes
    <2> DEFINE b == s.conn[c].open \/ op = "timer"
               y == [s.conn[c] EXCEPT !.pending = s.conn[c].pending \cup {op}]
               e == [c |-> c, op |-> op, res |-> "error"]
    <2>1. Begin(s, c, op) = IF b THEN Changed(s, c, y) ELSE Queued(s, e)
        BY BeginIs
    <2> HIDE DEF b, y, e
    <2> QED
        BY <1>1, <2>1
  <1>3. Send(s, c).handshakes = s.handshakes
    <2> DEFINE t == Begin(s, c, "write")
               y == [t.conn[c] EXCEPT !.busy = TRUE]
    <2>1. Send(s, c) = IF s.conn[c].busy THEN s ELSE Changed(t, c, y)
        BY SendIs
    <2>2. t.handshakes = s.handshakes
        BY <1>2 DEF Op
    <2> HIDE DEF t, y
    <2> QED
        BY <1>1, <2>1, <2>2
  <1> QED
      BY <1>2, <1>3

\* OnHubConnected: the node that reads and sends for the first time, and the handshakes
\* that are closed when it was the last that is wanted.
LEMMA ArriveKeeps ==
  ASSUME NEW s, Good(s), NEW c \in Conn, s.conn[c].phase = "final", ~s.conn[c].closed,
         conn[c].addr = s.conn[c].addr, NoEntry(s.ready, c, "io"), s.conn[c].pending \subseteq {"write"}
  PROVE  Good(OnHubConnected(s, c))
  <1> DEFINE o  == s.conn[c]
             x0 == [o EXCEPT !.phase = "hub"]
             x  == [x0 EXCEPT !.nodeClosed = FALSE]
             cs == [s.conn EXCEPT ![c] = x]
             hs == Enter(s.hubs, s.conn[c].addr, c)
             ms == Erase(s.handshakes, c)
             r0 == [conn |-> cs, hubs |-> hs, handshakes |-> s.handshakes, ready |-> s.ready]
             r  == [conn |-> cs, hubs |-> hs, handshakes |-> ms, ready |-> s.ready]
             t  == Begin(r0, c, "io")
             u  == Send(Begin(r, c, "io"), c)
  <1>1. /\ s \in Net /\ Well(s) /\ Roomy(s) /\ Known(s) /\ Phased(s) /\ Limited(s)
        /\ o \in Connection /\ s.handshakes \in Maps /\ s.hubs \in Maps
      BY DEF Good, Well, Net
  <1>2. ~o.quiet /\ o.pending = {}
    <2>1. Fits(o, c, s.ready)
        BY <1>1 DEF Phased
    <2> QED
        BY <2>1 DEF Fits
  <1>3. /\ x \in Connection /\ x.addr = s.conn[c].addr /\ x.phase = "hub" /\ ~x.closed /\ ~x.nodeClosed
        /\ ~x.quiet /\ x.pending = {}
      BY <1>1, <1>2 DEF Connection, Phase
  <1>4. [s EXCEPT !.conn[c].phase = "hub", !.conn[c].nodeClosed = FALSE,
                  !.hubs = Enter(s.hubs, s.conn[c].addr, c)] = r0
    <2> DEFINE w1 == [s EXCEPT !.conn[c].phase = "hub"]
               w2 == [w1 EXCEPT !.conn[c].nodeClosed = FALSE]
    <2>1. [s EXCEPT !.conn[c].phase = "hub", !.conn[c].nodeClosed = FALSE,
                    !.hubs = Enter(s.hubs, s.conn[c].addr, c)] = [w2 EXCEPT !.hubs = hs]
        BY Zenon
    <2>2. w1 = Changed(s, c, x0) /\ x0 \in Connection
        BY <1>1, FieldIs DEF Phase
    <2> HIDE DEF w1, x0
    <2>3. w1 \in Net /\ w1.conn[c] = x0
        BY <1>1, <2>2, ChangedIs
    <2>4. w2 = Changed(w1, c, x)
        BY <2>3, FieldIs
    <2>5. w2 = Changed(s, c, x)
        BY <1>1, <2>2, <2>4, <1>3, ChangedIs
    <2> HIDE DEF w2, x, hs
    <2>6. w2 = [conn |-> cs, hubs |-> s.hubs, handshakes |-> s.handshakes, ready |-> s.ready]
        BY <2>5 DEF Changed
    <2> HIDE DEF cs
    <2> QED
        BY <2>1, <2>6
  <1> HIDE DEF x, x0
  <1>5. Well(r)
    <2> HIDE DEF o
    <2> QED
        BY <1>1, <1>2, <1>3, NodeEntersKeeps
  <1>6. r.conn[c] = x /\ r.ready = s.ready /\ r.handshakes = ms /\ r.hubs = hs
      BY <1>1, NetIs
  <1>7. r \in Net /\ r0 \in Net
    <2>1. r \in Net
        BY <1>5 DEF Well
    <2> HIDE DEF cs, hs, ms
    <2> QED
        BY <1>1, <2>1 DEF Net
  <1>8. r = With(r0, ms) /\ ms \in Maps
    <2>1. ms \in Maps
        BY <1>1, EraseIs
    <2> HIDE DEF cs, hs, ms
    <2> QED
        BY <2>1 DEF With
  <1> HIDE DEF r
  <1>9. /\ Well(u) /\ u.handshakes = ms
    <2> DEFINE v == Begin(r, c, "io")
    <2>1. /\ Well(v) /\ v.handshakes = ms /\ v.conn[c] = [x EXCEPT !.pending = v.conn[c].pending]
        BY <1>3, <1>5, <1>6, BeginKeeps DEF Op
    <2>2. v.conn[c].phase = "hub"
        BY <1>3, <2>1 DEF Connection
    <2> HIDE DEF v
    <2>3. Well(Send(v, c))
        BY <2>1, <2>2, SendKeeps
    <2>4. Send(v, c).handshakes = v.handshakes
        BY <2>1, <2>2, SendKeeps
    <2> QED
        BY <2>1, <2>3, <2>4 DEF v
  <1>10. [Send(t, c) EXCEPT !.handshakes = Erase(Send(t, c).handshakes, c)] = u
    <2>1. Begin(r, c, "io") = With(t, ms) /\ t \in Net
      <3> HIDE DEF r0, ms
      <3> QED
          BY <1>7, <1>8, BeginForgets, BeginIs DEF Op
    <2>2. u = With(Send(t, c), ms)
      <3> HIDE DEF t, ms
      <3> QED
          BY <1>8, <2>1, SendForgets
    <2>3. Send(t, c) \in Net /\ Send(t, c).handshakes = s.handshakes
      <3>1. r0.handshakes = s.handshakes
          OBVIOUS
      <3> HIDE DEF r0
      <3>2. t.handshakes = s.handshakes
          BY <1>7, <3>1, SameHandshakes DEF Op
      <3> HIDE DEF t
      <3>3. Send(t, c).handshakes = s.handshakes
          BY <2>1, <3>2, SameHandshakes
      <3> QED
          BY <2>1, <3>3, SendIs
    <2> HIDE DEF t, u
    <2> DEFINE v == Send(t, c)
    <2>4. [v EXCEPT !.handshakes = ms] = With(v, ms)
      <3> HIDE DEF v, ms
      <3> QED
          BY <2>3, NetIs DEF With, Net, v
    <2> QED
        BY <2>2, <2>3, <2>4
  <1>11. OnHubConnected(s, c) =
           IF Cardinality(DOMAIN u.hubs) = MaxHubs
           THEN [CloseAll(u, Range(u.handshakes)) EXCEPT !.handshakes = <<>>]
           ELSE u
    <2> DEFINE F(v) == IF Cardinality(DOMAIN v.hubs) = MaxHubs
                       THEN [CloseAll(v, Range(v.handshakes))
                                EXCEPT !.handshakes = <<>>]
                       ELSE v
               G(w) == LET v == Send(Begin(w, c, "io"), c) IN F([v EXCEPT !.handshakes = Erase(v.handshakes, c)])
    <2>1. OnHubConnected(s, c) = G([s EXCEPT !.conn[c].phase = "hub", !.conn[c].nodeClosed = FALSE,
                                             !.hubs = Enter(s.hubs, s.conn[c].addr, c)])
        BY Zenon DEF OnHubConnected, CloseAll
    <2> HIDE DEF F
    <2>2. OnHubConnected(s, c) = G(r0)
      <3> HIDE DEF G, r0
      <3> QED
          BY <1>4, <2>1
    <2>3. G(r0) = F(u)
      <3> HIDE DEF r0, u
      <3> QED
          BY <1>10
    <2> HIDE DEF G, r0, u
    <2>4. OnHubConnected(s, c) = F(u)
        BY <2>2, <2>3
    <2> QED
        BY <2>4, Zenon DEF F
  <1> HIDE DEF u
  <1>12. CASE Cardinality(DOMAIN u.hubs) = MaxHubs
    <2> DEFINE R == Range(u.handshakes)
    <2>1. u \in Net /\ Known(u) /\ Limited(u) /\ u.handshakes \in Maps
        BY <1>9 DEF Well, Net
    <2>2. IsFiniteSet(R)
        BY <2>1, RangeIsFinite DEF Limited
    <2>3. R \in SUBSET Conn
        BY <2>1, MapIs DEF Range
    <2>4. \A d \in R : ~u.conn[d].closed
        BY <2>1 DEF Known, Range
    <2>5. Good(With(Closed(u, R), <<>>))
        BY <1>9, AllClosedKeeps
    <2> HIDE DEF R
    <2>6. CloseAll(u, R) = Closed(u, R)
        BY <2>1, <2>2, <2>3, <2>4, CloseAllIs
    <2>7. [Closed(u, R) EXCEPT !.handshakes = <<>>] = With(Closed(u, R), <<>>)
      <3> DEFINE ds == [d \in Conn |-> IF d \in R THEN Gone(u.conn[d]) ELSE u.conn[d]]
                 v  == Closed(u, R)
      <3>1. v = [conn |-> ds, hubs |-> u.hubs, handshakes |-> u.handshakes, ready |-> u.ready]
          BY DEF Closed
      <3> HIDE DEF ds, v
      <3>2. [v EXCEPT !.handshakes = <<>>] = With(v, <<>>)
          BY <3>1 DEF With
      <3> QED
          BY <3>2 DEF v
    <2>8. OnHubConnected(s, c) = [Closed(u, R) EXCEPT !.handshakes = <<>>]
        BY <1>11, <1>12, <2>6, Zenon DEF R
    <2> QED
        BY <2>5, <2>7, <2>8
  <1>13. CASE Cardinality(DOMAIN u.hubs) # MaxHubs
    <2>1. Cardinality(DOMAIN u.hubs) <= MaxHubs /\ Cardinality(DOMAIN u.hubs) \in Nat /\ MaxHubs \in Nat
        BY <1>9, FS_CardinalityType, BoundAssumption DEF Well, Limited
    <2>2. Roomy(u)
        BY <1>13, <2>1 DEF Roomy
    <2> QED
        BY <1>9, <1>11, <1>13, <2>2 DEF Good
  <1> QED
      BY <1>12, <1>13

\* OnTimeout.
LEMMA TimeoutKeeps ==
  ASSUME NEW s, Good(s), s.conn = conn, NEW c \in Conn, NEW res,
         s.conn[c].phase = "hub" /\ ~s.conn[c].closed => ~s.conn[c].nodeClosed /\ NoEntry(s.ready, c, "timer")
  PROVE  Good(OnTimeout(s, c, res))
  <1>1. CASE ~s.conn[c].closed /\ res = "ok"
    <2>1. Good(DetachHandshake(s, c))
        BY <1>1, DetachHandshakeKeeps
    <2> QED
        BY <1>1, <2>1 DEF OnTimeout
  <1>2. CASE ~(~s.conn[c].closed /\ res = "ok")
      BY <1>2 DEF OnTimeout
  <1> QED
      BY <1>1, <1>2

\* An object that begins to read.
LEMMA ReadKeeps ==
  ASSUME NEW s, Good(s), NEW c \in Conn, s.conn[c].phase # "free",
         NoEntry(s.ready, c, "io"), "io" \notin s.conn[c].pending
  PROVE  Good(Begin(s, c, "io"))
  <1>1. Well(s) /\ "io" \in Op
      BY DEF Good, Op
  <1>2. Well(Begin(s, c, "io"))
      BY <1>1, BeginKeeps
  <1>3. Begin(s, c, "io").hubs = s.hubs /\ Begin(s, c, "io").handshakes = s.handshakes
      BY <1>1, BeginKeeps
  <1> QED
      BY <1>2, <1>3 DEF Good, Roomy

\* An object in which a field changes that does not concern what it is.
LEMMA SetKeeps ==
  ASSUME NEW s, Good(s), NEW c \in Conn, NEW x \in Connection, Well(Changed(s, c, x))
  PROVE  /\ Good(Changed(s, c, x))
         /\ Changed(s, c, x).conn[c] = x /\ Changed(s, c, x).ready = s.ready
         /\ Changed(s, c, x).hubs = s.hubs /\ Changed(s, c, x).handshakes = s.handshakes
  <1>1. s \in Net
      BY DEF Good, Well
  <1>2. /\ Changed(s, c, x).conn[c] = x /\ Changed(s, c, x).ready = s.ready
        /\ Changed(s, c, x).hubs = s.hubs /\ Changed(s, c, x).handshakes = s.handshakes
      BY <1>1, ChangedIs
  <1> QED
      BY <1>2 DEF Good, Roomy

\* OnHandshake: greeted, answered, confirmed or given up.
LEMMA HandshakeKeeps ==
  ASSUME NEW s, Good(s), s.conn = conn, NEW c \in Conn, NEW res, s.conn[c].phase \in {"greet", "final"},
         NoEntry(s.ready, c, "io"), "io" \notin s.conn[c].pending, NEW t \in OnHandshake(s, c, res)
  PROVE  Good(t)
  <1>1. s \in Net /\ Well(s) /\ s.conn[c] \in Connection /\ Phased(s)
      BY DEF Good, Well, Net
  <1>2. CASE s.conn[c].closed
      BY <1>2 DEF OnHandshake
  <1>3. CASE ~s.conn[c].closed /\ s.conn[c].phase = "final"
    <2>1. CASE res = "ok"
      <3> DEFINE p == s.conn[c].pending \ {"timer"}
                 x == [s.conn[c] EXCEPT !.pending = p]
                 u == Changed(s, c, x)
      <3>1. t = OnHubConnected(Cancel(s, c, {"timer"}), c)
          BY <1>3, <2>1 DEF OnHandshake
      <3>2. p \in SUBSET Op /\ p \subseteq {"write"}
          BY <1>1 DEF Connection, Op
      <3>3. Cancel(s, c, {"timer"}) = u /\ x \in Connection
        <4> HIDE DEF u
        <4>1. Cancel(s, c, {"timer"}) = [s EXCEPT !.conn[c].pending = p]
            BY DEF Cancel
        <4> HIDE DEF p
        <4> QED
            BY <1>1, <3>2, <4>1, FieldIs DEF u
      <3>4. /\ x.addr = s.conn[c].addr /\ x.closed = s.conn[c].closed /\ x.nodeClosed = s.conn[c].nodeClosed
            /\ x.phase = s.conn[c].phase /\ x.quiet = s.conn[c].quiet /\ x.pending = p
          BY <1>1 DEF Connection
      <3>5. p \subseteq s.conn[c].pending
          OBVIOUS
      <3> HIDE DEF x, p
      <3>6. Well(u)
          BY <1>1, <3>3, <3>4, <3>5, TouchKeeps
      <3>7. /\ Good(u) /\ u.conn[c] = x /\ u.ready = s.ready
          BY <3>3, <3>6, SetKeeps
      <3> HIDE DEF u
      <3>8. Good(OnHubConnected(u, c))
          BY <1>3, <3>2, <3>4, <3>7, ArriveKeeps
      <3> QED
          BY <3>1, <3>3, <3>8
    <2>2. CASE res # "ok"
        BY <1>3, <2>2 DEF OnHandshake
    <2> QED
        BY <2>1, <2>2
  <1>4. CASE ~s.conn[c].closed /\ s.conn[c].phase = "greet"
    <2>1. \/ t = DetachHandshake(s, c)
          \/ \E f \in {"greet", "final"} : t = Begin([s EXCEPT !.conn[c].phase = f], c, "io")
        BY <1>4 DEF OnHandshake
    <2>2. CASE t = DetachHandshake(s, c)
        BY <1>4, <2>2, DetachHandshakeKeeps
    <2>3. ASSUME NEW f \in {"greet", "final"}, t = Begin([s EXCEPT !.conn[c].phase = f], c, "io")
          PROVE  Good(t)
      <3> DEFINE x == [s.conn[c] EXCEPT !.phase = f]
                 u == Changed(s, c, x)
      <3>1. [s EXCEPT !.conn[c].phase = f] = u /\ x \in Connection
        <4>1. f \in Phase
            BY DEF Phase
        <4> QED
            BY <1>1, <4>1, FieldIs
      <3>2. /\ x.addr = s.conn[c].addr /\ x.closed = s.conn[c].closed /\ x.nodeClosed = s.conn[c].nodeClosed
            /\ x.phase = f /\ x.quiet = s.conn[c].quiet /\ x.pending = s.conn[c].pending
          BY <1>1 DEF Connection
      <3> HIDE DEF x
      <3>3. Well(u)
          BY <1>1, <1>4, <3>1, <3>2, TouchKeeps
      <3>4. /\ Good(u) /\ u.conn[c] = x /\ u.ready = s.ready
          BY <3>1, <3>3, SetKeeps
      <3> HIDE DEF u
      <3>5. Good(Begin(u, c, "io"))
          BY <3>2, <3>4, ReadKeeps
      <3> QED
          BY <2>3, <3>1, <3>5
    <2> QED
        BY <2>1, <2>2, <2>3
  <1> QED
      BY <1>2, <1>3, <1>4

\* OnControlByte, OnPacketHeader and OnPayload.
LEMMA PacketReadKeeps ==
  ASSUME NEW s, Good(s), s.conn = conn, NEW c \in Conn, NEW res, s.conn[c].phase = "hub",
         NoEntry(s.ready, c, "io"), "io" \notin s.conn[c].pending,
         s.conn[c].closed \/ NoEntry(s.ready, c, "timer"), NEW t \in OnPacketRead(s, c, res)
  PROVE  Good(t)
  <1>1. s \in Net /\ Well(s) /\ s.conn[c] \in Connection
      BY DEF Good, Well, Net
  <1>2. CASE s.conn[c].nodeClosed
      BY <1>2 DEF OnPacketRead
  <1>3. CASE ~s.conn[c].nodeClosed /\ t = DetachNode(s, c)
      BY <1>3, DetachNodeKeeps
  <1>4. CASE t = Begin(s, c, "io")
      BY <1>4, ReadKeeps
  <1>5. CASE t = Begin([s EXCEPT !.conn[c].quiet = FALSE], c, "io")
    <2> DEFINE x == [s.conn[c] EXCEPT !.quiet = FALSE]
               u == Changed(s, c, x)
    <2>1. [s EXCEPT !.conn[c].quiet = FALSE] = u /\ x \in Connection
        BY <1>1, FieldIs
    <2>2. /\ x.addr = s.conn[c].addr /\ x.closed = s.conn[c].closed /\ x.nodeClosed = s.conn[c].nodeClosed
          /\ x.phase = s.conn[c].phase /\ ~x.quiet /\ x.pending = s.conn[c].pending
        BY <1>1 DEF Connection
    <2> HIDE DEF x
    <2>3. Well(u)
        BY <1>1, <2>1, <2>2, TouchKeeps
    <2>4. /\ Good(u) /\ u.conn[c] = x /\ u.ready = s.ready
        BY <2>1, <2>3, SetKeeps
    <2> HIDE DEF u
    <2>5. Good(Begin(u, c, "io"))
        BY <2>2, <2>4, ReadKeeps
    <2> QED
        BY <1>5, <2>1, <2>5
  <1>6. \/ s.conn[c].nodeClosed
        \/ ~s.conn[c].nodeClosed /\ t = DetachNode(s, c)
        \/ t = Begin(s, c, "io")
        \/ t = Begin([s EXCEPT !.conn[c].quiet = FALSE], c, "io")
      BY DEF OnPacketRead
  <1> QED
      BY <1>2, <1>3, <1>4, <1>5, <1>6

\* A node sends.
LEMMA SendIsGood ==
  ASSUME NEW s, Good(s), NEW c \in Conn, s.conn[c].phase = "hub"
  PROVE  Good(Send(s, c))
  <1>1. Well(Send(s, c))
      BY SendKeeps DEF Good
  <1>2. Send(s, c).hubs = s.hubs /\ Send(s, c).handshakes = s.handshakes
      BY SendKeeps DEF Good
  <1> QED
      BY <1>1, <1>2 DEF Good, Roomy

\* OnPacketSent.
LEMMA PacketSentKeeps ==
  ASSUME NEW s, Good(s), s.conn = conn, NEW c \in Conn, NEW res, s.conn[c].phase = "hub",
         s.conn[c].closed \/ NoEntry(s.ready, c, "timer"), NEW t \in OnPacketSent(s, c, res)
  PROVE  Good(t)
  <1> DEFINE x == [s.conn[c] EXCEPT !.busy = FALSE]
             u == Changed(s, c, x)
  <1>1. s \in Net /\ Well(s) /\ s.conn[c] \in Connection
      BY DEF Good, Well, Net
  <1>2. [s EXCEPT !.conn[c].busy = FALSE] = u /\ x \in Connection
      BY <1>1, FieldIs
  <1>3. /\ x.addr = s.conn[c].addr /\ x.closed = s.conn[c].closed /\ x.nodeClosed = s.conn[c].nodeClosed
        /\ x.phase = s.conn[c].phase /\ x.quiet = s.conn[c].quiet /\ x.pending = s.conn[c].pending
      BY <1>1 DEF Connection
  <1> HIDE DEF x
  <1>4. Well(u)
      BY <1>1, <1>2, <1>3, TouchKeeps
  <1>5. Good(u) /\ u.conn[c] = x
      BY <1>2, <1>4, SetKeeps
  <1> HIDE DEF u
  <1>6. \/ s.conn[c].nodeClosed /\ t = s
        \/ ~s.conn[c].nodeClosed /\ t = DetachNode(s, c)
        \/ t = u \/ t = Send(u, c)
      BY <1>2 DEF OnPacketSent
  <1>7. CASE ~s.conn[c].nodeClosed /\ t = DetachNode(s, c)
      BY <1>7, DetachNodeKeeps
  <1>8. Good(Send(u, c))
      BY <1>3, <1>5, SendIsGood
  <1> QED
      BY <1>5, <1>6, <1>7, <1>8

\* The timer of a node: dead, or something to send.
LEMMA NodeTimerKeeps ==
  ASSUME NEW s, Good(s), NEW c \in Conn, s.conn[c].phase = "hub", ~s.conn[c].nodeClosed,
         conn[c].addr = s.conn[c].addr
  PROVE  /\ Good(NodeOnTimer(s, c))
         /\ \A d \in Conn \ {c} : NodeOnTimer(s, c).conn[d] = s.conn[d]
         /\ NodeOnTimer(s, c).conn[c].addr = s.conn[c].addr
  <1>1. CASE s.conn[c].quiet
    <2>1. Fits(s.conn[c], c, s.ready)
        BY DEF Good, Well, Phased
    <2>2. s.conn[c].closed \/ NoEntry(s.ready, c, "timer")
        BY <1>1, <2>1 DEF Fits, NoEntry
    <2>3. NodeOnTimer(s, c) = DetachNode(s, c)
        BY <1>1 DEF NodeOnTimer
    <2>4. Good(DetachNode(s, c))
        BY <2>2, DetachNodeKeeps
    <2>5. /\ \A d \in Conn \ {c} : DetachNode(s, c).conn[d] = s.conn[d]
          /\ DetachNode(s, c).conn[c].addr = s.conn[c].addr
        BY <2>2, DetachNodeKeeps
    <2> QED
        BY <2>3, <2>4, <2>5
  <1>2. CASE ~s.conn[c].quiet
    <2>1. NodeOnTimer(s, c) = Send(s, c)
        BY <1>2 DEF NodeOnTimer
    <2>2. Good(Send(s, c))
        BY SendIsGood
    <2>3. /\ \A d \in Conn \ {c} : Send(s, c).conn[d] = s.conn[d]
          /\ Send(s, c).conn[c].addr = s.conn[c].addr
        BY SendKeeps DEF Good
    <2> QED
        BY <2>1, <2>2, <2>3
  <1> QED
      BY <1>1, <1>2

\* The timers of the nodes S have run: the others are what they were.
NodesRun(S) == FoldSet(LAMBDA c, s : NodeOnTimer(s, c), Now, S)
Ran(v, S) == /\ Good(v)
             /\ \A d \in Conn : v.conn[d].addr = conn[d].addr /\ (d \notin S => v.conn[d] = conn[d])

\* One after the other, in whichever order.
LEMMA NodesRunKeeps ==
  ASSUME Good(Now)
  PROVE  Good(NodesRun(Range(hubs)))
  <1> DEFINE R == Range(hubs)
             Is_(f) == f = [s \in SUBSET R |-> IF s = {} THEN Now ELSE NodeOnTimer(f[s \ {AnyOf(s)}], AnyOf(s))]
             iter == CHOOSE f : Is_(f)
             step == [x \in R |-> [v \in Net |-> NodeOnTimer(v, x)]]
  <1>1. NodesRun(R) = iter[R]
      BY DEF NodesRun, FoldSet, MapThenFoldSet, AnyOf
  <1>2. \A s \in SUBSET R : s # {} => AnyOf(s) \in s
      BY Zenon DEF AnyOf
  <1>3. /\ hubs \in Maps /\ Kept(Now) /\ IsFiniteSet(DOMAIN hubs)
        /\ Now.conn = conn /\ Now.hubs = hubs
      BY DEF Good, Well, Limited, Net, Now
  <1>4. IsFiniteSet(R) /\ R \subseteq Conn /\ \A c \in R : conn[c].phase = "hub" /\ ~conn[c].nodeClosed
    <2>1. IsFiniteSet(R)
        BY <1>3, RangeIsFinite
    <2>2. R \subseteq Conn
        BY <1>3, MapIs DEF Range
    <2> QED
        BY <1>3, <2>1, <2>2 DEF Kept, Range
  <1>5. Ran(Now, {})
      BY <1>3 DEF Ran
  <1>6. ASSUME NEW s \in SUBSET R, NEW x \in s, NEW v, Ran(v, s \ {x})
        PROVE  Ran(NodeOnTimer(v, x), s)
    <2>1. x \in Conn /\ Good(v) /\ v.conn[x] = conn[x] /\ conn[x].phase = "hub" /\ ~conn[x].nodeClosed
        BY <1>4, <1>6 DEF Ran
    <2>2. Good(NodeOnTimer(v, x))
        BY <2>1, NodeTimerKeeps
    <2>3. /\ \A d \in Conn \ {x} : NodeOnTimer(v, x).conn[d] = v.conn[d]
          /\ NodeOnTimer(v, x).conn[x].addr = v.conn[x].addr
        BY <2>1, NodeTimerKeeps
    <2> QED
        BY <1>6, <2>2, <2>3 DEF Ran
  <1>7. \A v, S : Ran(v, S) => v \in Net
      BY DEF Ran, Good, Well
  <1>8. PICK g : IsFold(g, R, Now, step)
    <2> HIDE DEF R, step
    <2> QED
        BY <1>4, FoldExists, Zenon
  <1>9. /\ g = [s \in SUBSET R |-> g[s]]
        /\ g[{}] = Now
        /\ \A s \in SUBSET R : s # {} => g[s] = step[AnyOf(s)][g[s \ {AnyOf(s)}]]
      BY <1>8, Zenon DEF IsFold
  <1> HIDE DEF R
  <1>10. \A x \in R, v \in Net : step[x][v] = NodeOnTimer(v, x)
      OBVIOUS
  <1> HIDE DEF step
  <1>11. \A s \in SUBSET R : Ran(g[s], s)
    <2> DEFINE G == {s \in SUBSET R : Ran(g[s], s)}
    <2>1. ASSUME NEW s \in SUBSET R, \A x \in s : s \ {x} \in G
          PROVE  s \in G
      <3>1. CASE s = {}
          BY <1>5, <1>9, <3>1
      <3>2. CASE s # {}
        <4> DEFINE x == AnyOf(s)
        <4>1. x \in s /\ x \in R
            BY <1>2, <3>2
        <4>2. Ran(g[s \ {x}], s \ {x})
            BY <2>1, <4>1
        <4>3. g[s] = step[x][g[s \ {x}]]
            BY <1>9, <3>2
        <4> HIDE DEF x
        <4>4. g[s] = NodeOnTimer(g[s \ {x}], x)
            BY <1>7, <1>10, <4>1, <4>2, <4>3
        <4>5. Ran(g[s], s)
            BY <1>6, <4>1, <4>2, <4>4
        <4> QED
            BY <4>5
      <3> QED
          BY <3>1, <3>2
    <2> HIDE DEF G
    <2>2. \A s \in SUBSET R : s \in G
        BY <1>4, <2>1, SubsetsOf
    <2> QED
        BY <2>2 DEF G
  <1>12. Is_(g)
    <2>1. ASSUME NEW s \in SUBSET R
          PROVE  g[s] = IF s = {} THEN Now ELSE NodeOnTimer(g[s \ {AnyOf(s)}], AnyOf(s))
      <3>1. CASE s = {}
          BY <1>9, <3>1
      <3>2. CASE s # {}
        <4> DEFINE x == AnyOf(s)
        <4>1. x \in R /\ g[s] = step[x][g[s \ {x}]]
            BY <1>2, <1>9, <3>2
        <4>2. g[s \ {x}] \in Net
            BY <1>7, <1>11
        <4> HIDE DEF x
        <4>3. g[s] = NodeOnTimer(g[s \ {x}], x)
            BY <1>10, <4>1, <4>2
        <4> QED
            BY <3>2, <4>3 DEF x
      <3> QED
          BY <3>1, <3>2
    <2> QED
        BY <1>9, <2>1, Zenon
  <1>13. Is_(iter)
      BY <1>12
  <1> HIDE DEF Is_, iter
  <1>14. \A s \in SUBSET R : iter[s] = IF s = {} THEN Now ELSE NodeOnTimer(iter[s \ {AnyOf(s)}], AnyOf(s))
      BY <1>13 DEF Is_
  <1>15. \A s \in SUBSET R : Ran(iter[s], s)
    <2> DEFINE G == {s \in SUBSET R : Ran(iter[s], s)}
    <2>1. ASSUME NEW s \in SUBSET R, \A x \in s : s \ {x} \in G
          PROVE  s \in G
      <3>1. CASE s = {}
        <4>1. iter[s] = Now
            BY <1>14, <3>1
        <4> QED
            BY <1>5, <3>1, <4>1
      <3>2. CASE s # {}
        <4> DEFINE x == AnyOf(s)
        <4>1. x \in s
            BY <1>2, <3>2
        <4>2. Ran(iter[s \ {x}], s \ {x})
            BY <2>1, <4>1
        <4>3. iter[s] = NodeOnTimer(iter[s \ {x}], x)
            BY <1>14, <3>2
        <4> HIDE DEF x
        <4>4. Ran(iter[s], s)
            BY <1>6, <4>1, <4>2, <4>3
        <4> QED
            BY <4>4
      <3> QED
          BY <3>1, <3>2
    <2> HIDE DEF G
    <2>2. \A s \in SUBSET R : s \in G
        BY <1>4, <2>1, SubsetsOf
    <2> QED
        BY <2>2 DEF G
  <1>16. Ran(iter[R], R)
      BY <1>15
  <1> QED
      BY <1>1, <1>16 DEF Ran, R

-----------------------------------------------------------------------------
\* Nothing is known and nothing is under way.
LEMMA NetInit == Init => Good(Now)
  <1> SUFFICES ASSUME Init PROVE Good(Now)
      OBVIOUS
  <1>1. /\ Now.conn = conn /\ Now.hubs = hubs /\ Now.handshakes = handshakes /\ Now.ready = ready
        /\ Now = [conn |-> conn, hubs |-> hubs, handshakes |-> handshakes, ready |-> ready]
      BY DEF Now
  <1>2. Free \in Connection
    <2>1. (CHOOSE a \in Addr : TRUE) \in Addr
        BY AddrAssumption
    <2> QED
        BY <2>1 DEF Free, Connection, Phase
  <1>3. /\ conn \in [Conn -> Connection]
        /\ \A c \in Conn : LET x == conn[c] IN
             x.phase = "free" /\ x.closed /\ x.nodeClosed /\ ~x.quiet /\ x.pending = {}
    <2>1. Free.phase = "free" /\ Free.closed /\ Free.nodeClosed /\ ~Free.quiet /\ Free.pending = {}
        BY DEF Free
    <2> QED
        BY <1>2, <2>1 DEF Init
  <1>4. <<>> \in Maps /\ DOMAIN <<>> = {} /\ <<>> \in Seq(Entry)
    <2>1. <<>> \in [{} -> Conn] /\ DOMAIN <<>> = {}
        OBVIOUS
    <2>2. <<>> \in Maps
        BY <2>1 DEF Maps
    <2>3. <<>> \in Seq(Entry)
        OBVIOUS
    <2> QED
        BY <2>1, <2>2, <2>3
  <1>5. hubs = <<>> /\ handshakes = <<>> /\ ready = <<>>
      BY DEF Init
  <1>6. Now \in Net
      BY <1>1, <1>3, <1>4, <1>5 DEF Net
  <1>7. Known(Now) /\ Kept(Now) /\ Apart(Now) /\ Roomy(Now)
      BY <1>1, <1>3, <1>4, <1>5 DEF Known, Kept, Apart, Roomy
  <1>8. Limited(Now)
    <2>1. IsFiniteSet({}) /\ Cardinality({}) = 0
        BY FS_EmptySet
    <2> QED
        BY <1>1, <1>4, <1>5, <2>1, BoundAssumption DEF Limited
  <1>9. Single(Now) /\ Phased(Now)
      BY <1>1, <1>3, <1>4, <1>5 DEF Single, Phased, Fits, NoEntry
  <1> QED
      BY <1>6, <1>7, <1>8, <1>9 DEF Good, Well

\* The handler at the head of the queue.
LEMMA RunKeeps ==
  ASSUME Good(Now), Run
  PROVE  Good([conn |-> conn', hubs |-> hubs', handshakes |-> handshakes', ready |-> ready'])
  <1> DEFINE e == Head(ready)
             q == Tail(ready)
             s == [Now EXCEPT !.ready = q]
  <1>1. Now.ready = ready /\ Now.conn = conn /\ ready # <<>>
      BY DEF Now, Run
  <1>2. /\ Good(s) /\ s.conn = conn /\ s.ready = q
        /\ e \in Entry /\ conn[e.c].phase # "free"
        /\ e.op # "write" => NoEntry(q, e.c, e.op) /\ e.op \notin conn[e.c].pending
        /\ e.op = "write" => conn[e.c].phase = "hub"
        /\ conn[e.c].phase = "hub" /\ ~conn[e.c].closed =>
             NoEntry(q, e.c, "timer") /\ (e.op = "timer" => ~conn[e.c].nodeClosed)
    <2> DEFINE n == Now
    <2>1. n.ready = ready /\ n.conn = conn /\ ready # <<>> /\ Good(n)
        BY <1>1
    <2> HIDE DEF n
    <2>2. LET e0 == Head(n.ready)
              q0 == Tail(n.ready)
              t == [n EXCEPT !.ready = q0]
          IN /\ Good(t) /\ t.conn = n.conn /\ t.ready = q0
             /\ e0 \in Entry /\ n.conn[e0.c].phase # "free"
             /\ e0.op # "write" => NoEntry(q0, e0.c, e0.op) /\ e0.op \notin n.conn[e0.c].pending
             /\ e0.op = "write" => n.conn[e0.c].phase = "hub"
             /\ n.conn[e0.c].phase = "hub" /\ ~n.conn[e0.c].closed =>
                  NoEntry(q0, e0.c, "timer") /\ (e0.op = "timer" => ~n.conn[e0.c].nodeClosed)
        BY <2>1, HeadLeaves
    <2> QED
        BY <2>1, <2>2 DEF n
  <1>3. PICK t \in CASE e.op = "timer" -> {OnTimeout(s, e.c, e.res)}
                     [] e.op = "write" -> OnPacketSent(s, e.c, e.res)
                     [] e.op = "io"    -> IF conn[e.c].phase = "hub" THEN OnPacketRead(s, e.c, e.res)
                                                                     ELSE OnHandshake(s, e.c, e.res) :
               Become(t)
    <2>1. s = [Now EXCEPT !.ready = Tail(Now.ready)]
        BY <1>1
    <2> QED
        BY <2>1, Zenon DEF Run
  <1> HIDE DEF s, e, q
  <1>4. e.c \in Conn /\ e.op \in Op /\ conn[e.c].phase \in Phase
    <2>1. Now \in Net
        BY DEF Good, Well
    <2> QED
        BY <1>1, <1>2, <2>1 DEF Entry, Net, Connection
  <1>5. Good(t)
    <2>1. CASE e.op = "timer"
      <3>1. t = OnTimeout(s, e.c, e.res)
          BY <1>3, <2>1
      <3>2. s.conn[e.c].phase = "hub" /\ ~s.conn[e.c].closed =>
              ~s.conn[e.c].nodeClosed /\ NoEntry(s.ready, e.c, "timer")
          BY <1>2, <2>1
      <3> QED
          BY <1>2, <1>4, <3>1, <3>2, TimeoutKeeps
    <2>2. CASE e.op = "write"
      <3>1. t \in OnPacketSent(s, e.c, e.res)
          BY <1>3, <2>2
      <3>2. s.conn[e.c].phase = "hub" /\ (s.conn[e.c].closed \/ NoEntry(s.ready, e.c, "timer"))
          BY <1>2, <2>2
      <3> QED
          BY <1>2, <1>4, <3>1, <3>2, PacketSentKeeps
    <2>3. CASE e.op = "io" /\ conn[e.c].phase = "hub"
      <3>1. t \in OnPacketRead(s, e.c, e.res)
          BY <1>3, <2>3
      <3>2. /\ NoEntry(s.ready, e.c, "io") /\ "io" \notin s.conn[e.c].pending
            /\ s.conn[e.c].closed \/ NoEntry(s.ready, e.c, "timer")
          BY <1>2, <2>3
      <3> QED
          BY <1>2, <1>4, <2>3, <3>1, <3>2, PacketReadKeeps
    <2>4. CASE e.op = "io" /\ conn[e.c].phase # "hub"
      <3>1. t \in OnHandshake(s, e.c, e.res)
          BY <1>3, <2>4
      <3>2. /\ NoEntry(s.ready, e.c, "io") /\ "io" \notin s.conn[e.c].pending
            /\ s.conn[e.c].phase \in {"greet", "final"}
          BY <1>2, <1>4, <2>4 DEF Phase
      <3> QED
          BY <1>2, <1>4, <3>1, <3>2, HandshakeKeeps
    <2> QED
        BY <1>4, <2>1, <2>2, <2>3, <2>4 DEF Op
  <1> QED
      BY <1>3, <1>5, BecomeKeeps

\* An operation completes.
LEMMA CompleteKeeps ==
  ASSUME Good(Now), NEW c \in Conn, NEW op \in Op, NEW res \in Result, Complete(c, op, res)
  PROVE  Good([conn |-> conn', hubs |-> hubs', handshakes |-> handshakes', ready |-> ready'])
  <1> DEFINE n == Now
             p == conn[c].pending \ {op}
             x == [conn[c] EXCEPT !.pending = p]
             e == [c |-> c, op |-> op, res |-> res]
             t == Changed(n, c, x)
             u == Queued(t, e)
  <1>1. n.conn = conn /\ n.ready = ready /\ Good(n) /\ op \in conn[c].pending
      BY DEF Now, Complete
  <1>2. Become([Now EXCEPT !.conn[c].pending = conn[c].pending \ {op}, !.ready = Append(ready, e)])
      BY Zenon DEF Complete, Now
  <1> HIDE DEF n
  <1>3. n \in Net /\ Well(n) /\ Single(n) /\ Phased(n) /\ conn[c] \in Connection
      BY <1>1 DEF Good, Well, Net
  <1>4. p \in SUBSET Op /\ p \subseteq conn[c].pending
      BY <1>3 DEF Connection
  <1>5. x \in Connection /\ [n EXCEPT !.conn[c].pending = p] = t
    <2> HIDE DEF p
    <2> QED
        BY <1>1, <1>3, <1>4, FieldIs
  <1>6. /\ x.addr = conn[c].addr /\ x.closed = conn[c].closed /\ x.nodeClosed = conn[c].nodeClosed
        /\ x.phase = conn[c].phase /\ x.quiet = conn[c].quiet /\ x.pending = p
      BY <1>3 DEF Connection
  <1>7. Fits(conn[c], c, ready)
      BY <1>1, <1>3 DEF Phased
  <1>8. /\ conn[c].phase # "free"
        /\ op = "write" => conn[c].phase = "hub"
        /\ op = "timer" => conn[c].phase # "hub"
      BY <1>1, <1>7 DEF Fits
  <1>9. op # "write" => NoEntry(ready, c, op)
      BY <1>1, <1>3 DEF Single, Op
  <1>10. op \notin p
      OBVIOUS
  <1> HIDE DEF x, p
  <1>11. Well(t)
      BY <1>1, <1>3, <1>4, <1>5, <1>6, TouchKeeps
  <1>12. /\ Good(t) /\ t.conn[c] = x /\ t.ready = ready
      BY <1>1, <1>5, <1>11, SetKeeps
  <1>13. [Now EXCEPT !.conn[c].pending = conn[c].pending \ {op}, !.ready = Append(ready, e)] = u
    <2>1. [Now EXCEPT !.conn[c].pending = conn[c].pending \ {op}, !.ready = Append(ready, e)]
            = [[n EXCEPT !.conn[c].pending = p] EXCEPT !.ready = Append(ready, e)]
        BY Zenon DEF n, p
    <2>2. [[n EXCEPT !.conn[c].pending = p] EXCEPT !.ready = Append(ready, e)]
            = [t EXCEPT !.ready = Append(ready, e)]
        BY <1>5
    <2>3. t \in Net
        BY <1>11 DEF Well
    <2> HIDE DEF t, e
    <2>4. [t EXCEPT !.ready = Append(ready, e)] = u
      <3> DEFINE q == Append(ready, e)
      <3> HIDE DEF q
      <3>1. [t EXCEPT !.ready = q] = [conn |-> t.conn, hubs |-> t.hubs, handshakes |-> t.handshakes, ready |-> q]
          BY <2>3 DEF Net
      <3>2. t.ready = ready
          BY <1>12
      <3> QED
          BY <3>1, <3>2 DEF Queued, q
    <2> QED
        BY <2>1, <2>2, <2>4
  <1> HIDE DEF t
  <1>14. e \in Entry /\ e.c = c /\ e.op = op
      BY DEF Entry
  <1> HIDE DEF e
  <1>15. Well(u)
    <2>1. op # "write" => NoEntry(t.ready, e.c, e.op) /\ e.op \notin t.conn[e.c].pending
        BY <1>6, <1>9, <1>10, <1>12, <1>14
    <2>2. /\ t.conn[e.c].phase # "free"
          /\ e.op = "write" => t.conn[e.c].phase = "hub"
          /\ e.op = "timer" => t.conn[e.c].phase # "hub"
        BY <1>6, <1>8, <1>12, <1>14
    <2> QED
        BY <1>11, <1>14, <2>1, <2>2, QueueKeeps
  <1>16. Good(u)
      BY <1>12, <1>15 DEF Good, Roomy, Queued
  <1> QED
      BY <1>2, <1>13, <1>16, BecomeKeeps

\* A hub falls silent.
LEMMA SilenceKeeps ==
  ASSUME Good(Now), NEW c \in Conn, Silence(c)
  PROVE  Good([conn |-> conn', hubs |-> hubs', handshakes |-> handshakes', ready |-> ready'])
  <1> DEFINE n == Now
             x == [conn[c] EXCEPT !.quiet = TRUE]
  <1>1. n.conn = conn /\ n.ready = ready /\ n.hubs = hubs /\ Good(n)
      BY DEF Now
  <1>2. /\ c \in Range(hubs) /\ ~\E e \in Range(ready) : e.c = c /\ e.op = "timer"
        /\ Become([Now EXCEPT !.conn[c].quiet = TRUE])
      BY DEF Silence
  <1>3. Become([n EXCEPT !.conn[c].quiet = TRUE])
      BY <1>2
  <1> HIDE DEF n
  <1>4. n \in Net /\ Well(n) /\ Kept(n) /\ conn[c] \in Connection
      BY <1>1 DEF Good, Well, Net
  <1>5. x \in Connection /\ [n EXCEPT !.conn[c].quiet = TRUE] = Changed(n, c, x)
      BY <1>1, <1>4, FieldIs
  <1>6. /\ x.addr = conn[c].addr /\ x.closed = conn[c].closed /\ x.nodeClosed = conn[c].nodeClosed
        /\ x.phase = conn[c].phase /\ x.pending = conn[c].pending
      BY <1>4 DEF Connection
  <1>7. conn[c].phase = "hub"
      BY <1>1, <1>2, <1>4 DEF Kept, Range
  <1>8. NoEntry(ready, c, "timer")
      BY <1>2 DEF NoEntry, Is, Range
  <1> HIDE DEF x
  <1>9. Well(Changed(n, c, x))
      BY <1>1, <1>4, <1>5, <1>6, <1>7, <1>8, TouchKeeps
  <1>10. Good(Changed(n, c, x))
      BY <1>1, <1>5, <1>9, SetKeeps
  <1> QED
      BY <1>3, <1>5, <1>10, BecomeKeeps

\* A handshake is begun, or the hub is known already.
LEMMA ConnectPeriodKeeps ==
  ASSUME Good(Now), OnConnectPeriod
  PROVE  Good([conn |-> conn', hubs |-> hubs', handshakes |-> handshakes', ready |-> ready'])
  <1> DEFINE c == CHOOSE d \in Conn : conn[d].phase = "free"
  <1>1. Now.conn = conn /\ Now.hubs = hubs /\ Now.handshakes = handshakes
      BY DEF Now
  <1>2. MayConnect /\ \E d \in Conn : conn[d].phase = "free"
      BY DEF OnConnectPeriod
  <1>3. c \in Conn /\ conn[c].phase = "free"
      BY <1>2
  <1>4. PICK a \in Addr : Become(ConnectRandomHub(Now, a))
      BY DEF OnConnectPeriod
  <1>5. Good(ConnectRandomHub(Now, a))
    <2>1. CASE a \in DOMAIN hubs \cup DOMAIN handshakes
      <3>1. ConnectRandomHub(Now, a) = Now
          BY <2>1 DEF ConnectRandomHub
      <3> QED
          BY <3>1
    <2>2. CASE a \notin DOMAIN hubs \cup DOMAIN handshakes
      <3> DEFINE n == Now
                 x == [Free EXCEPT !.addr = a, !.phase = "greet", !.closed = FALSE, !.open = TRUE]
                 G(d, s) == Begin(Begin([s EXCEPT !.conn[d] = x, !.handshakes = Enter(s.handshakes, a, d)],
                                        d, "timer"), d, "io")
      <3>1. ConnectRandomHub(Now, a) = G(c, n)
          BY <2>2, Zenon DEF ConnectRandomHub
      <3>2. n.conn[c].phase = "free" /\ a \notin DOMAIN n.hubs \cup DOMAIN n.handshakes
            /\ Cardinality(DOMAIN n.hubs) < MaxHubs /\ Good(n)
          BY <1>1, <1>2, <1>3, <2>2 DEF MayConnect
      <3> HIDE DEF c, n
      <3>3. Good(G(c, n))
          BY <1>3, <3>2, ConnectKeeps
      <3> HIDE DEF G
      <3> QED
          BY <3>1, <3>3
    <2> QED
        BY <2>1, <2>2
  <1> QED
      BY <1>4, <1>5, BecomeKeeps

\* What the net is by now, whichever handler ran.
LEMMA NetStep == Good(Now) /\ [Next]_vars => Good(Now)'
  <1> DEFINE m == [conn |-> conn', hubs |-> hubs', handshakes |-> handshakes', ready |-> ready']
  <1> SUFFICES ASSUME Good(Now), [Next]_vars PROVE Good(m)
      BY DEF Now
  <1> USE DEF m
  <1>1. CASE Run
      BY <1>1, RunKeeps
  <1>2. CASE OnConnectPeriod
      BY <1>2, ConnectPeriodKeeps
  <1>3. CASE OnNodesPeriod
    <2>1. Become(NodesRun(Range(hubs)))
        BY <1>3, Zenon DEF OnNodesPeriod, NodesRun
    <2> QED
        BY <2>1, NodesRunKeeps, BecomeKeeps
  <1>4. CASE CheckFirewall
    <2>1. PICK c \in Range(hubs) : Become(Send(Now, c))
        BY <1>4 DEF CheckFirewall
    <2>2. /\ Now.conn = conn /\ Now.hubs = hubs /\ Kept(Now) /\ hubs \in Maps
        BY DEF Good, Well, Now, Net
    <2>3. c \in Conn /\ Now.conn[c].phase = "hub"
        BY <2>2, MapIs DEF Kept, Range
    <2>4. Good(Send(Now, c))
        BY <2>3, SendIsGood
    <2> QED
        BY <2>1, <2>4, BecomeKeeps
  <1>5. ASSUME NEW c \in Conn, NEW op \in Op, NEW res \in {"ok", "error"}, Complete(c, op, res)
        PROVE  Good(m)
      BY <1>5, CompleteKeeps DEF Result
  <1>6. ASSUME NEW c \in Conn, Silence(c)
        PROVE  Good(m)
      BY <1>6, SilenceKeeps
  <1>7. CASE UNCHANGED vars
    <2>1. m = Now
        BY <1>7 DEF vars, Now
    <2> QED
        BY <2>1
  <1> QED
      BY <1>1, <1>2, <1>3, <1>4, <1>5, <1>6, <1>7 DEF Next

\* Whatever the net does, its maps are those of what is under way and of what is kept.
LEMMA NetAlways == Spec => []Good(Now)
  <1> QED
      BY NetInit, NetStep, PTL DEF Spec

\* The state keeps its types.
THEOREM NetTypes == Spec => []TypeOK
  <1>1. Good(Now) => TypeOK
    <2> SUFFICES ASSUME Good(Now) PROVE TypeOK
        OBVIOUS
    <2>1. conn \in [Conn -> Connection] /\ hubs \in Maps /\ handshakes \in Maps /\ ready \in Seq(Entry)
        BY DEF Good, Well, Net, Now
    <2>2. /\ DOMAIN hubs \subseteq Addr /\ Range(hubs) \subseteq Conn
          /\ DOMAIN handshakes \subseteq Addr /\ Range(handshakes) \subseteq Conn
        BY <2>1, MapIs DEF Range
    <2> QED
        BY <2>1, <2>2 DEF TypeOK, Connection, Entry
  <1> QED
      BY <1>1, NetAlways, PTL

\* The assertions of OnHubConnected hold for every handshake that may get there, however
\* many there are, and whatever of earlier ones is still in the queue.
THEOREM HandshakesAreKnown == Spec => []AssertsHold
  <1>1. Good(Now) => AssertsHold
    <2> SUFFICES ASSUME Good(Now) PROVE AssertsHold
        OBVIOUS
    <2>1. /\ Known(Now) /\ Apart(Now) /\ Now.conn = conn /\ Now.hubs = hubs /\ Now.handshakes = handshakes
        BY DEF Good, Well, Now
    <2> QED
        BY <2>1 DEF AssertsHold, Known, Apart
  <1> QED
      BY <1>1, NetAlways, PTL

\* There are never more hubs than wanted, though each of the handshakes that are under way
\* may succeed: it is the last place that closes them.
THEOREM NoMoreHubsThanWanted == Spec => []HubsWithinLimit
  <1>1. Good(Now) => HubsWithinLimit
      BY DEF Good, Well, Limited, Now, HubsWithinLimit
  <1> QED
      BY <1>1, NetAlways, PTL
==============================================================================
