----------------------------- MODULE Transceiver -----------------------------
(***************************************************************************)
(* Transceiver with its DepartureCache and ArrivalCache: datagrams of the  *)
(* peers are put together by identifier and part number, the parts that    *)
(* ask for it are acknowledged, and one datagram is sent at a time.        *)
(*                                                                         *)
(* The network may lose, repeat, delay and reorder: any datagram that a    *)
(* peer has for us may arrive at any time, any number of times.            *)
(***************************************************************************)
EXTENDS Naturals, Sequences, FiniteSets, SequencesExt, FiniteSetsExt, Functions, TLC

CONSTANTS Msg,        \* packets that peers send to us
          Id,         \* the identifier that the sender drew for it
          Total,      \* into how many parts it is cut
          OwnParts,   \* the number of parts of the packet that we send
          OwnId,      \* the identifier drawn for it
          NoMsg,      \* an empty part
          SignedChar, \* whether char is signed, as on x86, or not, as on ARM
          Byte,       \* how many values a byte has
          Lifetime,   \* seconds that an incomplete packet is kept: 10
          MaxQueue    \* bound on the departure cache

PacketId == 0 .. Byte * Byte - 1

ASSUME ByteAssumption  == Byte \in Nat \ {0, 1} /\ SignedChar \in BOOLEAN
ASSUME MsgAssumption   == NoMsg \notin Msg /\ Id \in [Msg -> PacketId] /\ OwnId \in PacketId
ASSUME PartAssumption  == Total \in [Msg -> Nat \ {0}] /\ OwnParts \in Nat \ {0}
ASSUME BoundAssumption == Lifetime \in Nat /\ MaxQueue \in Nat

Number == 0 .. Max(Range(Total)) + 1
Parts(t) == [1 .. t -> Msg \cup {NoMsg}]

\* A header on its way out; with no parts, it acknowledges.
Header == [id : PacketId, partNumber : Number, totalParts : {0, OwnParts}]

VARIABLES arrival,   \* ArrivalCache::cache_: parts and age of each incomplete packet
          buffers,   \* how many buffers were taken from pool_ and not released
          departure, \* DepartureCache::cache_
          sending,   \* sending_: the header on its way, if there is one
          throttle,  \* throttle_: no receive is under way
          sent,      \* whether Send was called for our packet
          owed,      \* history: parts that were to be acknowledged and were not since
          delivered  \* history: what OnPacket was given last

vars == <<arrival, buffers, departure, sending, throttle, sent, owed, delivered>>

TypeOK ==
  /\ DOMAIN arrival \subseteq PacketId
  /\ \A id \in DOMAIN arrival : /\ arrival[id].parts \in Parts(Len(arrival[id].parts))
                                /\ arrival[id].age \in 0 .. Lifetime
  /\ buffers \in Nat
  /\ departure \in Seq(Header)
  /\ sending \in {<<>>} \cup {<<h>> : h \in Header}
  /\ throttle \in BOOLEAN /\ sent \in BOOLEAN
  /\ owed \subseteq PacketId \X Number
  /\ delivered \in {<<>>} \cup UNION {Parts(t) : t \in Range(Total)}

Init == /\ arrival = <<>> /\ buffers = 0
        /\ departure = <<>> /\ sending = <<>>
        /\ throttle = FALSE
        /\ sent = FALSE
        /\ owed = {} /\ delivered = <<>>

-----------------------------------------------------------------------------
(* The identifier, as Header::Unpack reads what Header::Pack wrote.          *)

\* The low byte is added as a char: where that is signed, one of the upper half
\* counts as less than nothing, and the 16 bits wrap around.
ReadId(id) == IF SignedChar /\ id % Byte >= Byte \div 2
              THEN (id + Byte * Byte - Byte) % (Byte * Byte)
              ELSE id

-----------------------------------------------------------------------------
(* ArrivalCache.                                                             *)

BuffersOf(ids) == SumFunctionOnSet([id \in DOMAIN arrival |-> Len(arrival[id].parts)], ids)

\* The packets go without their buffers.
EraseFault(ids) == /\ arrival' = Restrict(arrival, DOMAIN arrival \ ids)
                   /\ UNCHANGED buffers

\* ErasePacket of each of ids.
Erase(ids) == /\ arrival' = Restrict(arrival, DOMAIN arrival \ ids)
              /\ buffers' = buffers - BuffersOf(ids)

\* What the cache has for part k of t of id: an entry is made for the first to come.
Entry(id, t) == IF id \in DOMAIN arrival THEN arrival[id]
                ELSE [parts |-> [k \in 1 .. t |-> NoMsg], age |-> 0]
NewBuffers(id, t) == IF id \in DOMAIN arrival THEN 0 ELSE t

\* at() throws when there is no such part: the entry is there by then.
AcceptsFault(e, k, t) == k <= Len(e.parts) /\ e.parts[k] = NoMsg
Accepts(e, k, t) == Len(e.parts) = t /\ k <= t /\ e.parts[k] = NoMsg

\* A part restarts the clock of its packet.
KeepFault(id, t, e) == /\ arrival' = [i \in DOMAIN arrival \cup {id} |->
                                     IF i = id THEN [e EXCEPT !.age = 0] ELSE arrival[i]]
                       /\ buffers' = buffers + NewBuffers(id, t)
                       /\ UNCHANGED delivered

Keep(id, t, e) == /\ arrival' = [i \in DOMAIN arrival \cup {id} |->
                                IF i = id THEN e ELSE arrival[i]]
                  /\ buffers' = buffers + NewBuffers(id, t)
                  /\ UNCHANGED delivered

\* Put of part k of m.  A complete packet that does not decompress is dropped.
Put(m, k) ==
  LET id == ReadId(Id[m])
      t  == Total[m]
      e  == Entry(id, t)
      f  == [e EXCEPT !.parts[k] = m]
  IN \/ k = 0 /\ UNCHANGED <<arrival, buffers, delivered>>
     \/ /\ k > 0 /\ ~Accepts(e, k, t)
        /\ Keep(id, t, e)
     \/ /\ k > 0 /\ Accepts(e, k, t) /\ NoMsg \in Range(f.parts)
        /\ Keep(id, t, f)
     \/ /\ k > 0 /\ Accepts(e, k, t) /\ NoMsg \notin Range(f.parts)
        /\ IF id \in DOMAIN arrival THEN Erase({id}) ELSE UNCHANGED <<arrival, buffers>>
        /\ delivered' \in {delivered, f.parts}

\* PurgeOld, a second after the last one: the age counts from the first part.
PurgeOld ==
  LET old == {id \in DOMAIN arrival : arrival[id].age = Lifetime}
  IN /\ arrival' = [id \in DOMAIN arrival \ old |-> [arrival[id] EXCEPT !.age = @ + 1]]
     /\ buffers' = buffers - BuffersOf(old)

-----------------------------------------------------------------------------
(* DepartureCache.  No caller of Put asks for an acknowledgement: Get never  *)
(* puts an entry back for another attempt, and none waits for its DELAY.     *)

AckOf(id, k) == [id |-> id, partNumber |-> k, totalParts |-> 0]

\* The part number is counted up in a copy of the header, from 0 for each part.
OwnPackets == [i \in 1 .. OwnParts |-> [id |-> OwnId, partNumber |-> 1, totalParts |-> OwnParts]]

\* Acknowlege: the first entry with this header leaves.
Acknowlege(id, k) ==
  LET hits == {i \in DOMAIN departure : departure[i].id = id /\ departure[i].partNumber = k}
  IN departure' = IF hits = {} THEN departure ELSE RemoveAt(departure, Min(hits))

\* Dispatch when nothing is on its way, with Get.
Dispatch(queue) ==
  IF queue = <<>>
  THEN departure' = queue /\ sending' = <<>> /\ UNCHANGED owed
  ELSE LET h == Head(queue)
       IN /\ departure' = Tail(queue) /\ sending' = <<h>>
          /\ owed' = IF h.totalParts = 0 THEN owed \ {<<h.id, h.partNumber>>} ELSE owed

-----------------------------------------------------------------------------
(* Transceiver.                                                              *)

\* Whether the two TrafManagers have a byte left for a receive.
StartReceive == throttle' \in BOOLEAN

\* Only a part that was not there is acknowledged.
OnReceivedFault(m, k, acknowledge) ==
  /\ ~throttle
  /\ Len(departure) < MaxQueue
  /\ owed' = IF acknowledge THEN owed \cup {<<Id[m], k>>} ELSE owed
  /\ departure' = IF acknowledge /\ k > 0 /\ Accepts(Entry(ReadId(Id[m]), Total[m]), k, Total[m])
                  THEN Append(departure, AckOf(ReadId(Id[m]), k)) ELSE departure
  /\ Put(m, k)
  /\ StartReceive
  /\ UNCHANGED <<sending, sent>>

\* OnReceived of a part of a peer.  OnPacket may throw: that is caught.
OnReceived(m, k, acknowledge) ==
  /\ ~throttle
  /\ Len(departure) < MaxQueue
  /\ IF acknowledge
     THEN /\ departure' = Append(departure, AckOf(ReadId(Id[m]), k))
          /\ owed' = owed \cup {<<Id[m], k>>}
     ELSE UNCHANGED <<departure, owed>>
  /\ Put(m, k)
  /\ StartReceive
  /\ UNCHANGED <<sending, sent>>

\* OnReceived of an acknowledgement.  It is not asked who sends it or what it is for:
\* it may take out of the queue an acknowledgement that is owed to another peer, which
\* is forgotten then.
OnAcknowledged(id, k) ==
  /\ ~throttle
  /\ Acknowlege(ReadId(id), k)
  /\ owed' = {w \in owed : w # <<id, k>> \/ AckOf(ReadId(id), k) \in Range(departure')}
  /\ StartReceive
  /\ UNCHANGED <<arrival, buffers, sending, sent, delivered>>

\* OnReceived with an error, or of what is no datagram of this protocol.
OnGarbage ==
  /\ ~throttle
  /\ StartReceive
  /\ UNCHANGED <<arrival, buffers, departure, sending, sent, owed, delivered>>

Send == /\ ~sent
        /\ sent' = TRUE
        /\ departure' = departure \o OwnPackets
        /\ UNCHANGED <<arrival, buffers, sending, throttle, owed, delivered>>

OnTimer ==
  /\ IF sending = <<>> THEN Dispatch(departure) ELSE UNCHANGED <<departure, sending, owed>>
  /\ IF throttle THEN StartReceive ELSE UNCHANGED throttle
  /\ PurgeOld
  /\ UNCHANGED <<sent, delivered>>

\* OnSent: an error is only logged.
OnSent(err) ==
  /\ sending # <<>>
  /\ Dispatch(departure)
  /\ UNCHANGED <<arrival, buffers, throttle, sent, delivered>>

Next == \/ \E m \in Msg : \E k \in 0 .. Total[m] + 1, acknowledge \in BOOLEAN :
             OnReceived(m, k, acknowledge)
        \/ \E id \in PacketId, k \in Number : OnAcknowledged(id, k)
        \/ OnGarbage
        \/ Send
        \/ OnTimer
        \/ \E err \in BOOLEAN : OnSent(err)

Spec == Init /\ [][Next]_vars

\* The timer is armed again by its own handler, and the completion of each send comes.
\* Nothing is asked of the peers.
Fairness == WF_vars(OnTimer) /\ WF_vars(\E err \in BOOLEAN : OnSent(err))
FairSpec == Spec /\ Fairness

-----------------------------------------------------------------------------
(* Properties.                                                               *)

\* The packets that m may be taken for: of as many parts, under the same identifier.
Twins(m) == {n \in Msg : Id[n] = Id[m] /\ Total[n] = Total[m]}

\* What the network layer is given has as many parts as the packet was cut into, and
\* none is missing; a packet without a twin is given as one peer has sent it, however
\* late, often and disordered parts come.  The cache does not ask who the sender is:
\* what has the same identifier and number of parts does get mixed.
OnlyTwinsMix == delivered # <<>> => \E m \in Msg : delivered \in [1 .. Total[m] -> Twins(m)]

\* Every buffer that is out of the pool is a part of an incomplete packet: none leaks
\* with a packet that was completed, purged, or that an exception was thrown for.
PoolAccounts == buffers = BuffersOf(DOMAIN arrival)

\* A part that asks for it is acknowledged in the end, under the identifier that its
\* sender gave it, whatever else is queued and whichever sends fail, unless a peer
\* itself acknowledges a part of that identifier and number to us meanwhile.
AsksAnswered == \A id \in Range(Id) : \A k \in Number :
                  <<id, k>> \in owed ~> <<id, k>> \notin owed

\* An incomplete packet is forgotten in the end, even when some of its parts are sent
\* over and over.
IncompleteLeaves == \A id \in PacketId : id \in DOMAIN arrival ~> id \notin DOMAIN arrival
=============================================================================
