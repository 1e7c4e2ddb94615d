--------------------------- MODULE Datagram_proofs ---------------------------
(***************************************************************************)
(* Proofs about the two components that share the UDP socket:              *)
(* Transceiver.tla for any peers, packets and identifiers (only packets of *)
(* one identifier and as many parts are mixed when they are handed to the  *)
(* network layer; every buffer out of the pool is a part of an incomplete  *)
(* packet; no acknowledgement that is owed is lost), and then              *)
(* SearchManager.tla for any hubs and searchers (a searcher remembers the  *)
(* hubs that it has sent to, and of others only neighbors).                *)
(***************************************************************************)
EXTENDS Transceiver, SearchManager, CollectionFacts, TLAPS

\* Division has one remainder.
LEMMA Remainder ==
  ASSUME NEW B \in Nat \ {0}, NEW q \in Int, NEW r \in 0 .. B - 1
  PROVE  (B * q + r) % B = r
  <1> DEFINE x == B * q + r
             p == x \div B
             s == x % B
  <1>1. x \in Int /\ p \in Int /\ s \in 0 .. B - 1 /\ x = B * p + s
      OBVIOUS
  <1> HIDE DEF p, s
  <1>2. B * (p - q) = r - s
      BY <1>1
  <1>3. p - q >= 1 => B * (p - q) >= B
      BY <1>1
  <1>4. p - q <= -1 => B * (p - q) <= -B
      BY <1>1
  <1>5. p = q
      BY <1>1, <1>2, <1>3, <1>4
  <1>6. s = r
      BY <1>1, <1>5
  <1> QED
      BY <1>6 DEF s

\* The high byte of an identifier that is read too low wraps around; the low byte stays.
LEMMA ReadIdIs ==
  ASSUME NEW id \in PacketId
  PROVE  /\ ReadId(id) \in PacketId /\ ReadId(id) % Byte = id % Byte
         /\ ReadId(id) = IF SignedChar /\ id % Byte >= Byte \div 2
                         THEN IF id >= Byte THEN id - Byte ELSE id + Byte * Byte - Byte
                         ELSE id
  <1> DEFINE q == id \div Byte
             r == id % Byte
             n == Byte * Byte
  <1>1. Byte \in Nat /\ Byte >= 2 /\ id \in Nat /\ n \in Nat /\ Byte < n /\ id < n
      BY ByteAssumption DEF PacketId
  <1>2. q \in Int /\ r \in 0 .. Byte - 1 /\ id = Byte * q + r
      BY <1>1
  <1>3. CASE ~(SignedChar /\ r >= Byte \div 2)
      BY <1>3 DEF ReadId
  <1>4. CASE SignedChar /\ r >= Byte \div 2 /\ id >= Byte
    <2>1. (n * 1 + (id - Byte)) % n = id - Byte
      <3> HIDE DEF n
      <3> QED
          BY <1>1, <1>4, Remainder
    <2>2. ReadId(id) = id - Byte
        BY <1>1, <1>4, <2>1 DEF ReadId
    <2>3. (Byte * (q - 1) + r) % Byte = r
      <3> HIDE DEF q, r
      <3> QED
          BY <1>1, <1>2, Remainder
    <2>4. id - Byte = Byte * (q - 1) + r
        BY <1>1, <1>2
    <2>5. id - Byte \in PacketId
        BY <1>1, <1>4 DEF PacketId
    <2> QED
        BY <1>4, <2>2, <2>3, <2>4, <2>5
  <1>5. CASE SignedChar /\ r >= Byte \div 2 /\ id < Byte
    <2>1. (n * 0 + (id + n - Byte)) % n = id + n - Byte
      <3> HIDE DEF n
      <3> QED
          BY <1>1, <1>5, Remainder
    <2>2. ReadId(id) = id + n - Byte
        BY <1>1, <1>5, <2>1 DEF ReadId
    <2>3. (Byte * (q + Byte - 1) + r) % Byte = r
      <3> HIDE DEF q, r
      <3> QED
          BY <1>1, <1>2, Remainder
    <2>4. id + n - Byte = Byte * (q + Byte - 1) + r
        BY <1>1, <1>2
    <2>5. id + n - Byte \in PacketId
        BY <1>1, <1>5 DEF PacketId
    <2> QED
        BY <1>1, <1>5, <2>2, <2>3, <2>4, <2>5
  <1> QED
      BY <1>1, <1>2, <1>3, <1>4, <1>5

\* Two identifiers are never read as one.
LEMMA ReadIdIsInjective ==
  ASSUME NEW a \in PacketId, NEW b \in PacketId, ReadId(a) = ReadId(b)
  PROVE  a = b
  <1>1. a % Byte = b % Byte
      BY ReadIdIs
  <1>2. Byte \in Nat /\ a \in 0 .. Byte * Byte - 1 /\ b \in 0 .. Byte * Byte - 1
      BY ByteAssumption DEF PacketId
  <1> DEFINE n == Byte * Byte
             high == SignedChar /\ a % Byte >= Byte \div 2
  <1>3. n \in Nat
      BY <1>2
  <1>4. ReadId(a) = IF high THEN IF a >= Byte THEN a - Byte ELSE a + n - Byte ELSE a
      BY ReadIdIs
  <1>5. ReadId(b) = IF high THEN IF b >= Byte THEN b - Byte ELSE b + n - Byte ELSE b
      BY <1>1, ReadIdIs
  <1> HIDE DEF n, high
  <1>6. a \in 0 .. n - 1 /\ b \in 0 .. n - 1
      BY <1>2 DEF n
  <1>7. CASE ~high
      BY <1>4, <1>5, <1>7
  <1>8. CASE high
    <2>1. (IF a >= Byte THEN a - Byte ELSE a + n - Byte)
            = (IF b >= Byte THEN b - Byte ELSE b + n - Byte)
        BY <1>4, <1>5, <1>8
    <2> QED
        BY <1>2, <1>3, <1>6, <2>1
  <1> QED
      BY <1>7, <1>8

-----------------------------------------------------------------------------
\* An entry of the arrival cache: its parts are of packets that are read as id and
\* are cut into as many parts as the entry has.
Of(id, e) == /\ e \in [parts : Seq(Msg \cup {NoMsg}), age : Nat]
             /\ \A k \in DOMAIN e.parts : e.parts[k] # NoMsg =>
                  ReadId(Id[e.parts[k]]) = id /\ Total[e.parts[k]] = Len(e.parts)

Sorted == \A id \in DOMAIN arrival : Of(id, arrival[id])

IInv == Sorted /\ OnlyTwinsMix

\* The entry that a part is put into, made for it or found, is Of its identifier.
LEMMA EntryIs ==
  ASSUME Sorted, NEW id, NEW t \in Nat
  PROVE  Of(id, Entry(id, t))
  <1> DEFINE new == [parts |-> [k \in 1 .. t |-> NoMsg], age |-> 0]
  <1>1. new \in [parts : Seq(Msg \cup {NoMsg}), age : Nat]
      OBVIOUS
  <1>2. \A k \in DOMAIN new.parts : new.parts[k] = NoMsg
      OBVIOUS
  <1>3. Of(id, new)
    <2> HIDE DEF new
    <2> QED
        BY <1>1, <1>2 DEF Of
  <1> HIDE DEF new
  <1>4. Entry(id, t) = IF id \in DOMAIN arrival THEN arrival[id] ELSE new
      BY DEF Entry, new
  <1> QED
      BY <1>3, <1>4 DEF Sorted

\* A part that is accepted leaves the entry Of its identifier.
LEMMA FilledIs ==
  ASSUME NEW m \in Msg, NEW e, Of(ReadId(Id[m]), e), NEW k \in Nat, k > 0,
         Accepts(e, k, Total[m])
  PROVE  LET f == [e EXCEPT !.parts[k] = m]
         IN Of(ReadId(Id[m]), f) /\ Len(f.parts) = Total[m] /\ f.parts[k] = m
  <1> DEFINE f == [e EXCEPT !.parts[k] = m]
             ps == [e.parts EXCEPT ![k] = m]
  <1>1. e \in [parts : Seq(Msg \cup {NoMsg}), age : Nat] /\ Total[m] \in Nat
      BY PartAssumption DEF Of
  <1>2. Len(e.parts) = Total[m] /\ k \in 1 .. Len(e.parts)
      BY <1>1 DEF Accepts
  <1>3. ps \in Seq(Msg \cup {NoMsg}) /\ Len(ps) = Len(e.parts) /\ DOMAIN ps = DOMAIN e.parts
        /\ ps[k] = m /\ \A j \in DOMAIN e.parts \ {k} : ps[j] = e.parts[j]
      BY <1>1, <1>2
  <1>4. f.parts = ps /\ f.age = e.age /\ f \in [parts : Seq(Msg \cup {NoMsg}), age : Nat]
      BY <1>1, <1>3
  <1> HIDE DEF f, ps
  <1>5. Of(ReadId(Id[m]), f)
      BY <1>2, <1>3, <1>4 DEF Of
  <1> QED
      BY <1>2, <1>3, <1>4, <1>5 DEF f

\* An entry with all its parts has parts of m and its twins alone, since no two
\* identifiers are read as one.
LEMMA CompleteIsOfTwins ==
  ASSUME NEW m \in Msg, NEW e, Of(ReadId(Id[m]), e), Len(e.parts) = Total[m],
         NoMsg \notin Range(e.parts)
  PROVE  e.parts \in [1 .. Total[m] -> Twins(m)]
  <1>1. e.parts \in Seq(Msg \cup {NoMsg}) /\ DOMAIN e.parts = 1 .. Total[m]
      BY DEF Of
  <1>2. ASSUME NEW k \in 1 .. Total[m]
        PROVE  e.parts[k] \in Twins(m)
    <2>1. e.parts[k] \in Msg
        BY <1>1 DEF Range
    <2>2. ReadId(Id[e.parts[k]]) = ReadId(Id[m]) /\ Total[e.parts[k]] = Total[m]
        BY <1>1, <2>1, MsgAssumption DEF Of
    <2>3. Id[e.parts[k]] = Id[m]
        BY <2>1, <2>2, ReadIdIsInjective, MsgAssumption
    <2> QED
        BY <2>1, <2>2, <2>3 DEF Twins
  <1> QED
      BY <1>1, <1>2

\* Put of any part of any peer.
LEMMA PutKeeps ==
  ASSUME IInv, NEW m \in Msg, NEW k \in Nat, Put(m, k)
  PROVE  IInv'
  <1> DEFINE id == ReadId(Id[m])
             t  == Total[m]
             e  == Entry(id, t)
             f  == [e EXCEPT !.parts[k] = m]
  <1>1. t \in Nat /\ Of(id, e)
      BY EntryIs, PartAssumption DEF IInv
  <1>2. \/ k = 0 /\ UNCHANGED <<arrival, buffers, delivered>>
        \/ Keep(id, t, e)
        \/ k > 0 /\ Accepts(e, k, t) /\ Keep(id, t, f)
        \/ /\ k > 0 /\ Accepts(e, k, t) /\ NoMsg \notin Range(f.parts)
           /\ IF id \in DOMAIN arrival THEN Erase({id}) ELSE UNCHANGED <<arrival, buffers>>
           /\ delivered' \in {delivered, f.parts}
      BY Zenon DEF Put
  <1>3. k > 0 /\ Accepts(e, k, t) => Of(id, f) /\ Len(f.parts) = t
      BY <1>1, FilledIs
  <1> HIDE DEF id, t, e, f
  <1>4. ASSUME NEW g, Of(id, g), Keep(id, t, g)
        PROVE  IInv'
    <2>1. delivered' = delivered /\ arrival' = [i \in DOMAIN arrival \cup {id} |->
                                             IF i = id THEN g ELSE arrival[i]]
        BY <1>4 DEF Keep
    <2>2. \A i \in DOMAIN arrival' : arrival'[i] = (IF i = id THEN g ELSE arrival[i])
                                     /\ (i = id \/ i \in DOMAIN arrival)
        BY <2>1
    <2>3. Sorted'
        BY <1>4, <2>2 DEF IInv, Sorted, Of
    <2> QED
        BY <2>1, <2>3 DEF IInv, OnlyTwinsMix, Twins
  <1>5. ASSUME k > 0, Accepts(e, k, t), NoMsg \notin Range(f.parts),
               IF id \in DOMAIN arrival THEN Erase({id}) ELSE UNCHANGED <<arrival, buffers>>,
               delivered' \in {delivered, f.parts}
        PROVE  IInv'
    <2>1. f.parts \in [1 .. Total[m] -> Twins(m)]
        BY <1>3, <1>5, CompleteIsOfTwins DEF id, t
    <2>2. OnlyTwinsMix'
        BY <1>5, <2>1 DEF IInv, OnlyTwinsMix, Twins
    <2>3. \A i \in DOMAIN arrival' : i \in DOMAIN arrival /\ arrival'[i] = arrival[i]
        BY <1>5 DEF Erase, Restrict
    <2>4. Sorted'
        BY <2>3 DEF IInv, Sorted, Of
    <2> QED
        BY <2>2, <2>4 DEF IInv
  <1>6. CASE UNCHANGED <<arrival, buffers, delivered>>
      BY <1>6 DEF IInv, Sorted, OnlyTwinsMix, Twins, Of
  <1> QED
      BY <1>1, <1>2, <1>3, <1>4, <1>5, <1>6

\* PurgeOld takes whole entries away and ages the others.
LEMMA PurgeKeeps ==
  ASSUME IInv, PurgeOld, UNCHANGED delivered
  PROVE  IInv'
  <1> DEFINE old == {id \in DOMAIN arrival : arrival[id].age = Lifetime}
  <1>1. arrival' = [id \in DOMAIN arrival \ old |-> [arrival[id] EXCEPT !.age = @ + 1]]
      BY DEF PurgeOld
  <1> HIDE DEF old
  <1>2. ASSUME NEW id \in DOMAIN arrival'
        PROVE  Of(id, arrival'[id])
    <2>1. id \in DOMAIN arrival /\ arrival'[id] = [arrival[id] EXCEPT !.age = @ + 1]
        BY <1>1, <1>2
    <2> DEFINE g == arrival[id]
               h == [g EXCEPT !.age = @ + 1]
    <2>2. Of(id, g)
        BY <2>1 DEF IInv, Sorted
    <2>3. h.parts = g.parts /\ h \in [parts : Seq(Msg \cup {NoMsg}), age : Nat]
      <3> HIDE DEF g
      <3>1. g \in [parts : Seq(Msg \cup {NoMsg}), age : Nat]
          BY <2>2 DEF Of
      <3> QED
          BY <3>1
    <2>4. Of(id, h)
      <3> HIDE DEF g, h
      <3> QED
          BY <2>2, <2>3 DEF Of
    <2> QED
        BY <2>1, <2>4
  <1>3. Sorted'
      BY <1>2 DEF Sorted, Of
  <1> QED
      BY <1>3 DEF IInv, OnlyTwinsMix, Twins

\* Each action of the transceiver keeps the entries apart.
LEMMA StepKeeps == IInv /\ [Next]_vars => IInv'
  <1> SUFFICES ASSUME IInv, [Next]_vars PROVE IInv'
      OBVIOUS
  <1>1. ASSUME NEW m \in Msg, NEW k \in 0 .. Total[m] + 1, NEW acknowledge \in BOOLEAN,
               OnReceived(m, k, acknowledge)
        PROVE  IInv'
    <2>1. k \in Nat /\ Put(m, k)
        BY <1>1, PartAssumption DEF OnReceived
    <2> QED
        BY <2>1, PutKeeps
  <1>2. CASE OnTimer
    <2>1. PurgeOld /\ UNCHANGED delivered
        BY <1>2 DEF OnTimer
    <2> QED
        BY <2>1, PurgeKeeps
  <1>3. CASE UNCHANGED <<arrival, delivered>>
      BY <1>3 DEF IInv, Sorted, OnlyTwinsMix, Twins, Of
  <1>4. ASSUME \/ \E i \in PacketId, k \in Number : OnAcknowledged(i, k)
               \/ OnGarbage \/ Send \/ (\E err \in BOOLEAN : OnSent(err)) \/ UNCHANGED vars
        PROVE  UNCHANGED <<arrival, delivered>>
      BY <1>4 DEF OnAcknowledged, OnGarbage, Send, OnSent, vars
  <1> QED
      BY <1>1, <1>2, <1>3, <1>4 DEF Next

\* Whatever the network loses, repeats, delays or reorders, and however char is read:
\* OnPacket is given as many parts as some packet was cut into, each of that packet or of
\* one with the same identifier and number of parts.  Nothing is assumed of the draw.
THEOREM OnlyTwinsAreMixed == Spec => []OnlyTwinsMix
  <1>1. Init => IInv
    <2> SUFFICES ASSUME Init PROVE IInv
        OBVIOUS
    <2>1. DOMAIN arrival = {} /\ delivered = <<>>
        BY DEF Init
    <2> QED
        BY <2>1 DEF IInv, Sorted, OnlyTwinsMix, Twins
  <1>2. IInv /\ [Next]_vars => IInv'
      BY StepKeeps
  <1>3. IInv => OnlyTwinsMix
      BY DEF IInv
  <1> QED
      BY <1>1, <1>2, <1>3, PTL DEF Spec

-----------------------------------------------------------------------------
\* The buffers.  The cache has finitely many entries, each with a number of parts.
Accounted == DOMAIN arrival \subseteq PacketId /\ PoolAccounts

\* How many parts an entry has room for.
Room == [id \in DOMAIN arrival |-> Len(arrival[id].parts)]

\* The entries have finitely many parts between them.
LEMMA RoomIs ==
  ASSUME Sorted, Accounted
  PROVE  /\ IsFiniteSet(DOMAIN arrival)
         /\ \A id \in DOMAIN arrival : Room[id] = Len(arrival[id].parts) /\ Room[id] \in Nat
         /\ buffers = SumFunctionOnSet(Room, DOMAIN arrival) /\ buffers \in Nat
  <1>1. IsFiniteSet(DOMAIN arrival)
    <2>1. Byte * Byte - 1 \in Int
        BY ByteAssumption
    <2>2. IsFiniteSet(PacketId)
        BY <2>1, FS_Interval DEF PacketId
    <2> QED
        BY <2>2, FS_Subset DEF Accounted
  <1>2. \A id \in DOMAIN arrival : Room[id] = Len(arrival[id].parts) /\ Room[id] \in Nat
      BY DEF Room, Sorted, Of
  <1>3. buffers = SumFunctionOnSet(Room, DOMAIN arrival)
      BY DEF Accounted, PoolAccounts, BuffersOf, Room
  <1>4. buffers \in Nat
      BY <1>1, <1>2, <1>3, SumFacts
  <1> QED
      BY <1>1, <1>2, <1>3, <1>4

\* When entries leave with the buffers of their parts, and the others keep the number of
\* theirs, the account is right.
LEMMA LeavingAccounts ==
  ASSUME Sorted, Accounted, NEW ids \in SUBSET DOMAIN arrival,
         DOMAIN arrival' = DOMAIN arrival \ ids,
         \A id \in DOMAIN arrival' : Len(arrival'[id].parts) = Len(arrival[id].parts),
         buffers' = buffers - BuffersOf(ids)
  PROVE  Accounted'
  <1> DEFINE D == DOMAIN arrival
  <1>1. /\ IsFiniteSet(D)
        /\ \A id \in D : Room[id] = Len(arrival[id].parts) /\ Room[id] \in Nat
        /\ buffers = SumFunctionOnSet(Room, D)
      BY RoomIs
  <1>2. BuffersOf(ids) = SumFunctionOnSet(Room, ids)
      BY DEF BuffersOf, Room
  <1>3. IsFiniteSet(ids) /\ IsFiniteSet(D \ ids)
      BY <1>1, FS_Subset
  <1>4. SumFunctionOnSet(Room, D) = SumFunctionOnSet(Room, ids) + SumFunctionOnSet(Room, D \ ids)
      BY <1>1, SumSplits
  <1>5. SumFunctionOnSet(Room, ids) \in Nat /\ SumFunctionOnSet(Room, D \ ids) \in Nat
      BY <1>1, <1>3, SumFacts
  <1>6. SumFunctionOnSet(Room', D \ ids) = SumFunctionOnSet(Room, D \ ids)
    <2>1. \A id \in D \ ids : Room[id] \in Nat /\ Room'[id] = Room[id]
        BY <1>1 DEF Room
    <2> QED
        BY <1>3, <2>1, SumSame
  <1>7. buffers' = SumFunctionOnSet(Room', DOMAIN arrival')
      BY <1>1, <1>2, <1>4, <1>5, <1>6
  <1> QED
      BY <1>7 DEF Accounted, PoolAccounts, BuffersOf, Room

\* Keeping an entry takes the buffers for a new one, and no others.
LEMMA KeepAccounts ==
  ASSUME Sorted, Accounted, NEW id \in PacketId, NEW t \in Nat, NEW e, Keep(id, t, e),
         Len(e.parts) = Len(Entry(id, t).parts)
  PROVE  Accounted'
  <1> DEFINE D == DOMAIN arrival
  <1>1. /\ IsFiniteSet(D)
        /\ \A i \in D : Room[i] = Len(arrival[i].parts) /\ Room[i] \in Nat
        /\ buffers = SumFunctionOnSet(Room, D) /\ buffers \in Nat
      BY RoomIs
  <1>2. /\ arrival' = [i \in D \cup {id} |-> IF i = id THEN e ELSE arrival[i]]
        /\ buffers' = buffers + (IF id \in D THEN 0 ELSE t)
      BY DEF Keep, NewBuffers
  <1>3. DOMAIN arrival' = D \cup {id} /\ DOMAIN arrival' \subseteq PacketId
      BY <1>2 DEF Accounted
  <1>4. Room'[id] = IF id \in D THEN Room[id] ELSE t
    <2>1. Room'[id] = Len(e.parts)
        BY <1>2 DEF Room
    <2>2. Len([k \in 1 .. t |-> NoMsg]) = t
        OBVIOUS
    <2> QED
        BY <1>1, <2>1, <2>2 DEF Entry
  <1>5. \A i \in D : Room[i] \in Nat /\ Room'[i] = Room[i]
      BY <1>1, <1>2, <1>4 DEF Room
  <1>6. SumFunctionOnSet(Room', D) = buffers
      BY <1>1, <1>5, SumSame
  <1>7. SumFunctionOnSet(Room', D \cup {id}) = buffers'
    <2>1. CASE id \in D
      <3>1. D \cup {id} = D
          BY <2>1
      <3> QED
          BY <1>1, <1>2, <1>6, <2>1, <3>1
    <2>2. CASE id \notin D
      <3>1. IsFiniteSet(D \cup {id}) /\ \A i \in D \cup {id} : Room'[i] \in Nat
          BY <1>1, <1>4, <1>5, <2>2, FS_AddElement
      <3>2. SumFunctionOnSet(Room', D \cup {id})
              = Room'[id] + SumFunctionOnSet(Room', (D \cup {id}) \ {id})
          BY <3>1, SumFacts
      <3>3. (D \cup {id}) \ {id} = D
          BY <2>2
      <3> QED
          BY <1>1, <1>2, <1>4, <1>6, <2>2, <3>2, <3>3
    <2> QED
        BY <2>1, <2>2
  <1> QED
      BY <1>3, <1>7 DEF Accounted, PoolAccounts, BuffersOf, Room

\* Put of any part of any peer.
LEMMA PutAccounts ==
  ASSUME Sorted, Accounted, NEW m \in Msg, NEW k \in Nat, Put(m, k)
  PROVE  Accounted'
  <1> DEFINE id == ReadId(Id[m])
             t  == Total[m]
             e  == Entry(id, t)
             f  == [e EXCEPT !.parts[k] = m]
  <1>1. id \in PacketId /\ t \in Nat /\ Of(id, e)
      BY EntryIs, ReadIdIs, MsgAssumption, PartAssumption
  <1>2. \/ k = 0 /\ UNCHANGED <<arrival, buffers, delivered>>
        \/ Keep(id, t, e)
        \/ k > 0 /\ Accepts(e, k, t) /\ Keep(id, t, f)
        \/ IF id \in DOMAIN arrival THEN Erase({id}) ELSE UNCHANGED <<arrival, buffers>>
      BY Zenon DEF Put
  <1>3. k > 0 /\ Accepts(e, k, t) => Len(f.parts) = Len(e.parts)
    <2>1. k > 0 /\ Accepts(e, k, t) => Len(f.parts) = t
        BY <1>1, FilledIs
    <2> QED
        BY <2>1 DEF Accepts
  <1> HIDE DEF id, t, f
  <1>4. CASE Keep(id, t, e)
      BY <1>1, <1>4, KeepAccounts
  <1>5. CASE k > 0 /\ Accepts(e, k, t) /\ Keep(id, t, f)
      BY <1>1, <1>3, <1>5, KeepAccounts
  <1>6. CASE id \in DOMAIN arrival /\ Erase({id})
    <2>1. /\ DOMAIN arrival' = DOMAIN arrival \ {id} /\ {id} \in SUBSET DOMAIN arrival
          /\ \A i \in DOMAIN arrival' : arrival'[i] = arrival[i]
          /\ buffers' = buffers - BuffersOf({id})
        BY <1>6 DEF Erase, Restrict
    <2> QED
        BY <2>1, LeavingAccounts
  <1>7. CASE UNCHANGED <<arrival, buffers>>
      BY <1>7 DEF Accounted, PoolAccounts, BuffersOf
  <1> QED
      BY <1>2, <1>4, <1>5, <1>6, <1>7

\* PurgeOld gives back the buffers of the entries that it takes away.
LEMMA PurgeAccounts ==
  ASSUME Sorted, Accounted, PurgeOld
  PROVE  Accounted'
  <1> DEFINE old == {id \in DOMAIN arrival : arrival[id].age = Lifetime}
  <1>1. /\ arrival' = [id \in DOMAIN arrival \ old |-> [arrival[id] EXCEPT !.age = @ + 1]]
        /\ buffers' = buffers - BuffersOf(old)
      BY DEF PurgeOld
  <1>2. old \in SUBSET DOMAIN arrival
      OBVIOUS
  <1> HIDE DEF old
  <1>3. DOMAIN arrival' = DOMAIN arrival \ old
      BY <1>1
  <1>4. ASSUME NEW id \in DOMAIN arrival'
        PROVE  Len(arrival'[id].parts) = Len(arrival[id].parts)
    <2> DEFINE g == arrival[id]
    <2>1. arrival'[id] = [g EXCEPT !.age = @ + 1]
        BY <1>1, <1>3
    <2>2. g \in [parts : Seq(Msg \cup {NoMsg}), age : Nat]
        BY <1>3 DEF Sorted, Of
    <2> HIDE DEF g
    <2>3. [g EXCEPT !.age = @ + 1].parts = g.parts
        BY <2>2
    <2> QED
        BY <2>1, <2>3 DEF g
  <1> QED
      BY <1>1, <1>2, <1>3, <1>4, LeavingAccounts

\* No buffer leaks, with whatever packet is completed, purged or dropped.
THEOREM NoBufferLeaks == Spec => []PoolAccounts
  <1>1. Init => IInv /\ Accounted
    <2> SUFFICES ASSUME Init PROVE IInv /\ Accounted
        OBVIOUS
    <2>1. DOMAIN arrival = {} /\ delivered = <<>> /\ buffers = 0
        BY DEF Init
    <2>2. BuffersOf({}) = 0
        BY FS_EmptySet, SumFacts DEF BuffersOf
    <2> QED
        BY <2>1, <2>2 DEF IInv, Sorted, OnlyTwinsMix, Twins, Accounted, PoolAccounts
  <1>2. IInv /\ Accounted /\ [Next]_vars => (IInv /\ Accounted)'
    <2> SUFFICES ASSUME IInv, Accounted, [Next]_vars PROVE Accounted'
        BY StepKeeps
    <2>1. Sorted
        BY DEF IInv
    <2>2. ASSUME NEW m \in Msg, NEW k \in 0 .. Total[m] + 1, NEW acknowledge \in BOOLEAN,
                 OnReceived(m, k, acknowledge)
          PROVE  Accounted'
      <3>1. k \in Nat /\ Put(m, k)
          BY <2>2, PartAssumption DEF OnReceived
      <3> QED
          BY <2>1, <3>1, PutAccounts
    <2>3. CASE OnTimer
        BY <2>1, <2>3, PurgeAccounts DEF OnTimer
    <2>4. CASE UNCHANGED <<arrival, buffers>>
        BY <2>4 DEF Accounted, PoolAccounts, BuffersOf
    <2>5. ASSUME \/ \E i \in PacketId, k \in Number : OnAcknowledged(i, k)
                 \/ OnGarbage \/ Send \/ (\E err \in BOOLEAN : OnSent(err)) \/ UNCHANGED vars
          PROVE  UNCHANGED <<arrival, buffers>>
        BY <2>5 DEF OnAcknowledged, OnGarbage, Send, OnSent, vars
    <2> QED
        BY <2>2, <2>3, <2>4, <2>5 DEF Next
  <1>3. Accounted => PoolAccounts
      BY DEF Accounted
  <1> QED
      BY <1>1, <1>2, <1>3, PTL DEF Spec

-----------------------------------------------------------------------------
(* What is to be acknowledged.                                               *)

AnyHeader == [id : PacketId, partNumber : Nat, totalParts : Nat]
Owing == /\ departure \in Seq(AnyHeader)
         /\ owed \subseteq PacketId \X Nat

\* Every acknowledgement that is owed waits in the departure cache.
AcksAreQueued == \A a \in owed : AckOf(a[1], a[2]) \in Range(departure)

\* A header that leaves a queue is the only one to leave it.
LEMMA OneLeaves ==
  ASSUME NEW S, NEW s \in Seq(S)
  PROVE  /\ \A i \in DOMAIN s : \A x \in Range(s) : x = s[i] \/ x \in Range(RemoveAt(s, i))
         /\ s # <<>> => /\ Head(s) \in S /\ Tail(s) \in Seq(S)
                        /\ \A x \in Range(s) : x = Head(s) \/ x \in Range(Tail(s))
  <1>1. DOMAIN s = 1 .. Len(s) /\ Len(s) \in Nat
      BY LenProperties
  <1>2. ASSUME NEW i \in DOMAIN s, NEW x \in Range(s), x # s[i]
        PROVE  x \in Range(RemoveAt(s, i))
    <2> DEFINE t == RemoveAt(s, i)
    <2>1. /\ DOMAIN t = 1..(Len(s) - 1)
          /\ \A j \in 1..(Len(s) - 1) : t[j] = IF j < i THEN s[j] ELSE s[j + 1]
        BY RemoveAtIs
    <2>2. PICK j \in DOMAIN s : s[j] = x
        BY DEF Range
    <2> HIDE DEF t
    <2>3. ASSUME j < i
          PROVE  x \in Range(t)
      <3>1. j \in 1..(Len(s) - 1) /\ j \in DOMAIN t /\ t[j] = x
          BY <1>1, <2>1, <2>2, <2>3
      <3> QED
          BY <3>1 DEF Range
    <2>4. ASSUME j > i
          PROVE  x \in Range(t)
      <3>1. j - 1 \in 1..(Len(s) - 1) /\ ~(j - 1 < i) /\ (j - 1) + 1 = j
          BY <1>1, <2>4
      <3>2. t[j - 1] = x
          BY <2>1, <2>2, <3>1
      <3> QED
          BY <2>1, <3>1, <3>2 DEF Range
    <2>5. j # i /\ j \in Nat /\ i \in Nat
        BY <1>1, <1>2, <2>2
    <2>6. x \in Range(t)
        BY <2>3, <2>4, <2>5
    <2> QED
        BY <2>6 DEF t
  <1>3. ASSUME s # <<>>
        PROVE  /\ Head(s) \in S /\ Tail(s) \in Seq(S)
               /\ \A x \in Range(s) : x = Head(s) \/ x \in Range(Tail(s))
    <2> DEFINE t == Tail(s)
    <2>1. /\ Head(s) \in S /\ t \in Seq(S) /\ Len(t) = Len(s) - 1
          /\ \A j \in 1..Len(t) : t[j] = s[j + 1]
        BY <1>3, HeadTailProperties
    <2>2. DOMAIN t = 1..Len(t) /\ Head(s) = s[1] /\ Len(s) \in Nat \ {0}
        BY <1>1, <1>3, <2>1, LenProperties, EmptySeq
    <2> HIDE DEF t
    <2>3. ASSUME NEW j \in DOMAIN s, j # 1
          PROVE  s[j] \in Range(t)
      <3>1. j - 1 \in 1..Len(t) /\ (j - 1) + 1 = j
          BY <1>1, <2>1, <2>2, <2>3
      <3>2. t[j - 1] = s[j]
          BY <2>1, <3>1
      <3> QED
          BY <2>2, <3>1, <3>2 DEF Range
    <2>4. \A x \in Range(s) : x = Head(s) \/ x \in Range(t)
        BY <2>2, <2>3 DEF Range
    <2> QED
        BY <2>1, <2>4 DEF t
  <1> QED
      BY <1>2, <1>3

\* What an acknowledgement says, and that it is one.
LEMMA AckIs ==
  ASSUME NEW id \in PacketId, NEW k \in Nat
  PROVE  /\ AckOf(id, k) \in AnyHeader /\ AckOf(id, k).totalParts = 0
         /\ AckOf(id, k).id = id /\ AckOf(id, k).partNumber = k
  BY DEF AckOf, AnyHeader

\* The next header is sent.
LEMMA DispatchOwes ==
  ASSUME Owing, AcksAreQueued, Dispatch(departure)
  PROVE  Owing' /\ AcksAreQueued'
  <1>1. CASE departure = <<>>
    <2>1. departure' = departure /\ owed' = owed
        BY <1>1 DEF Dispatch
    <2> QED
        BY <2>1 DEF Owing, AcksAreQueued
  <1>2. CASE departure # <<>>
    <2> DEFINE h == Head(departure)
    <2>1. /\ h \in AnyHeader /\ Tail(departure) \in Seq(AnyHeader)
          /\ \A x \in Range(departure) : x = h \/ x \in Range(Tail(departure))
        BY <1>2, OneLeaves DEF Owing
    <2>2. /\ departure' = Tail(departure)
          /\ owed' = IF h.totalParts = 0 THEN owed \ {<<h.id, h.partNumber>>} ELSE owed
        BY <1>2 DEF Dispatch
    <2> HIDE DEF h
    <2>3. Owing'
        BY <2>1, <2>2 DEF Owing
    <2>4. ASSUME NEW a \in owed'
          PROVE  AckOf(a[1], a[2]) \in Range(departure')
      <3>1. a \in owed /\ a[1] \in PacketId /\ a[2] \in Nat /\ a = <<a[1], a[2]>>
          BY <2>2 DEF Owing
      <3>2. AckOf(a[1], a[2]) # h
          BY <2>2, <3>1, AckIs
      <3>3. AckOf(a[1], a[2]) \in Range(departure)
          BY <3>1 DEF AcksAreQueued
      <3> QED
          BY <2>1, <2>2, <3>2, <3>3
    <2> QED
        BY <2>3, <2>4 DEF AcksAreQueued
  <1> QED
      BY <1>1, <1>2

\* Other headers come, and none leaves but one that nobody is owed any longer.
LEMMA QueueOwes ==
  ASSUME Owing, AcksAreQueued, owed' \subseteq owed, departure' \in Seq(AnyHeader),
         \A h \in Range(departure) :
           \/ h \in Range(departure')
           \/ \A a \in owed' : a = <<h.id, h.partNumber>> => AckOf(a[1], a[2]) \in Range(departure')
  PROVE  Owing' /\ AcksAreQueued'
  <1>1. Owing'
      BY DEF Owing
  <1>2. ASSUME NEW a \in owed'
        PROVE  AckOf(a[1], a[2]) \in Range(departure')
    <2>1. a \in owed /\ a[1] \in PacketId /\ a[2] \in Nat /\ a = <<a[1], a[2]>>
        BY DEF Owing
    <2> DEFINE h == AckOf(a[1], a[2])
    <2>2. h \in Range(departure) /\ h.id = a[1] /\ h.partNumber = a[2]
        BY <2>1, AckIs DEF AcksAreQueued
    <2> HIDE DEF h
    <2>3. a = <<h.id, h.partNumber>>
        BY <2>1, <2>2
    <2> QED
        BY <2>2, <2>3 DEF h
  <1> QED
      BY <1>1, <1>2 DEF AcksAreQueued

\* Parts of a peer that ask for it are to be acknowledged; a peer may acknowledge anything.
LEMMA StepOwes ==
  ASSUME ~SignedChar, Owing, AcksAreQueued, [Next]_vars
  PROVE  Owing' /\ AcksAreQueued'
  <1>1. departure \in Seq(AnyHeader)
      BY DEF Owing
  <1>2. ASSUME NEW m \in Msg, NEW k \in 0 .. Total[m] + 1, NEW acknowledge \in BOOLEAN,
               OnReceived(m, k, acknowledge)
        PROVE  Owing' /\ AcksAreQueued'
    <2>1. Id[m] \in PacketId /\ ReadId(Id[m]) = Id[m] /\ k \in Nat
        BY MsgAssumption, PartAssumption DEF ReadId
    <2>2. CASE acknowledge
      <3> DEFINE h == AckOf(Id[m], k)
      <3>1. departure' = Append(departure, h) /\ owed' = owed \cup {<<Id[m], k>>}
          BY <1>2, <2>1, <2>2 DEF OnReceived
      <3>2. h \in AnyHeader
          BY <2>1, AckIs
      <3> HIDE DEF h
      <3>3. departure' \in Seq(AnyHeader) /\ Range(departure') = Range(departure) \cup {h}
          BY <1>1, <3>1, <3>2, PushFacts
      <3>4. Owing'
          BY <2>1, <3>1, <3>3 DEF Owing
      <3>5. AckOf(<<Id[m], k>>[1], <<Id[m], k>>[2]) = h
          BY DEF h
      <3>6. AcksAreQueued'
        <4>1. ASSUME NEW a \in owed'
              PROVE  AckOf(a[1], a[2]) \in Range(departure')
          <5>1. CASE a \in owed
              BY <3>3, <5>1 DEF AcksAreQueued
          <5>2. CASE a = <<Id[m], k>>
              BY <3>3, <3>5, <5>2
          <5> QED
              BY <3>1, <5>1, <5>2
        <4> QED
            BY <4>1 DEF AcksAreQueued
      <3> QED
          BY <3>4, <3>6
    <2>3. CASE ~acknowledge
      <3>1. departure' = departure /\ owed' = owed
          BY <1>2, <2>3 DEF OnReceived
      <3> QED
          BY <1>1, <3>1, QueueOwes
    <2> QED
        BY <2>2, <2>3
  <1>3. ASSUME NEW j \in PacketId, NEW k \in Number, OnAcknowledged(j, k)
        PROVE  Owing' /\ AcksAreQueued'
    <2> DEFINE hits == {i \in DOMAIN departure : departure[i].id = j /\ departure[i].partNumber = k}
    <2>0. ReadId(j) = j
        BY DEF ReadId
    <2>1. /\ departure' = IF hits = {} THEN departure ELSE RemoveAt(departure, Min(hits))
          /\ owed' \subseteq owed
          /\ <<j, k>> \in owed' => AckOf(j, k) \in Range(departure')
        BY <1>3, <2>0 DEF OnAcknowledged, Acknowlege
    <2>2. CASE hits = {}
        BY <1>1, <2>1, <2>2, QueueOwes
    <2>3. CASE hits # {}
      <3>1. hits \subseteq 1 .. Len(departure) /\ Len(departure) \in Nat
          BY <1>1, LenProperties
      <3>2. IsFiniteSet(hits) /\ hits \in SUBSET Nat
        <4>1. IsFiniteSet(1 .. Len(departure))
            BY <3>1, FS_Interval
        <4>2. 1 .. Len(departure) \subseteq Nat
            BY <3>1
        <4> HIDE DEF hits
        <4>3. IsFiniteSet(hits)
            BY <3>1, <4>1, FS_Subset
        <4> QED
            BY <3>1, <4>2, <4>3
      <3> DEFINE i == Min(hits)
      <3>3. i \in hits
        <4> HIDE DEF hits
        <4> QED
            BY <2>3, <3>2, MinIs
      <3>4. /\ i \in DOMAIN departure /\ departure' = RemoveAt(departure, i)
            /\ departure[i].id = j /\ departure[i].partNumber = k
          BY <2>1, <2>3, <3>3
      <3> HIDE DEF i, hits
      <3>5. departure' \in Seq(AnyHeader)
          BY <1>1, <3>4, RemoveAtIs
      <3>6. \A h \in Range(departure) : h = departure[i] \/ h \in Range(departure')
          BY <1>1, <3>4, OneLeaves
      <3>7. \A a \in owed' : a = <<j, k>> => AckOf(a[1], a[2]) \in Range(departure')
          BY <2>1
      <3> QED
          BY <2>1, <3>4, <3>5, <3>6, <3>7, QueueOwes
    <2> QED
        BY <2>2, <2>3
  <1>4. CASE Send
    <2>1. owed' = owed /\ departure' = departure \o OwnPackets
        BY <1>4 DEF Send
    <2>2. OwnPackets \in Seq(AnyHeader)
      <3>1. OwnParts \in Nat /\ OwnId \in PacketId
          BY MsgAssumption, PartAssumption
      <3>2. OwnPackets \in [1 .. OwnParts -> AnyHeader]
          BY <3>1 DEF OwnPackets, AnyHeader
      <3> QED
          BY <3>1, <3>2, SeqDef
    <2> DEFINE q == OwnPackets
               t == departure \o q
    <2>3. /\ t \in Seq(AnyHeader) /\ Len(t) = Len(departure) + Len(q)
          /\ \A i \in 1 .. Len(t) : t[i] = IF i <= Len(departure) THEN departure[i]
                                         ELSE q[i - Len(departure)]
      <3> HIDE DEF q
      <3> QED
          BY <1>1, <2>2, ConcatProperties DEF q
    <2>4. /\ DOMAIN departure = 1 .. Len(departure) /\ DOMAIN t = 1 .. Len(t)
          /\ Len(departure) \in Nat /\ Len(q) \in Nat
      <3> HIDE DEF t, q
      <3> QED
          BY <1>1, <2>2, <2>3, LenProperties DEF q
    <2> HIDE DEF t, q
    <2>5. \A h \in Range(departure) : h \in Range(t)
        BY <2>3, <2>4 DEF Range
    <2> QED
        BY <2>1, <2>3, <2>5, QueueOwes DEF t, q
  <1>5. CASE OnTimer
    <2>1. CASE sending = <<>>
        BY <1>5, <2>1, DispatchOwes DEF OnTimer
    <2>2. CASE sending # <<>>
      <3>1. departure' = departure /\ owed' = owed
          BY <1>5, <2>2 DEF OnTimer
      <3> QED
          BY <1>1, <3>1, QueueOwes
    <2> QED
        BY <2>1, <2>2
  <1>6. CASE \E err \in BOOLEAN : OnSent(err)
      BY <1>6, DispatchOwes DEF OnSent
  <1>7. CASE OnGarbage \/ UNCHANGED vars
    <2>1. departure' = departure /\ owed' = owed
        BY <1>7 DEF OnGarbage, vars
    <2> QED
        BY <1>1, <2>1, QueueOwes
  <1> QED
      BY <1>2, <1>3, <1>4, <1>5, <1>6, <1>7 DEF Next

\* The safe half of AsksAnswered: no acknowledgement that is owed to a peer is lost, be it
\* by an acknowledgement of another part, by a send that fails or by the order of the
\* queue.  (One that is acknowledged to us itself is no longer owed, see OnAcknowledged.)
\* Where char is signed it is false.
THEOREM NoAcknowledgementIsLost ==
  ASSUME ~SignedChar
  PROVE  Spec => []AcksAreQueued
  <1>1. Init => Owing /\ AcksAreQueued
    <2>1. <<>> \in Seq(AnyHeader)
        OBVIOUS
    <2> QED
        BY <2>1 DEF Init, Owing, AcksAreQueued
  <1>2. (Owing /\ AcksAreQueued) /\ [Next]_vars => (Owing /\ AcksAreQueued)'
      BY StepOwes
  <1> QED
      BY <1>1, <1>2, PTL DEF Spec

------------------------------------------------------------------------------

\* One searcher remembers what it has sent, when D are the neighbors there have been.
Honest(r, D) == /\ r \in Search
                /\ r.sent \subseteq r.searched
                /\ r.searched \ r.sent \subseteq D

\* The invariant: the neighbors are hubs, and every searcher is honest.
Remembered == /\ DOMAIN neighbors \subseteq Hub
              /\ \A s \in DOMAIN searchers : Honest(searchers[s], DOMAIN neighbors)

\* It is the property, and more.
LEMMA RememberedIsSent == Remembered => SearchedIsSent
  BY DEF Remembered, SearchedIsSent, Honest

\* When one searcher changes, and no neighbor is forgotten.
LEMMA OneChanges ==
  ASSUME Remembered, NEW s \in DOMAIN searchers, NEW r, searchers' = [searchers EXCEPT ![s] = r],
         DOMAIN neighbors' = DOMAIN neighbors, Honest(r, DOMAIN neighbors)
  PROVE  Remembered'
  <1>1. ASSUME NEW x \in DOMAIN searchers'
        PROVE  Honest(searchers'[x], DOMAIN neighbors)
    <2>1. CASE x = s
        BY <2>1
    <2>2. CASE x # s
        BY <2>2 DEF Remembered
    <2> QED
        BY <2>1, <2>2
  <1> QED
      BY <1>1 DEF Remembered

\* When searchers are what they were, or new, or leave, and no neighbor is forgotten.
LEMMA OthersRemember ==
  ASSUME Remembered, DOMAIN neighbors \subseteq DOMAIN neighbors', DOMAIN neighbors' \subseteq Hub,
         \A s \in DOMAIN searchers' :
           \/ s \in DOMAIN searchers /\ searchers'[s] = searchers[s]
           \/ searchers'[s] = [going |-> TRUE, wait |-> "new", searched |-> {}, sent |-> {}]
  PROVE  Remembered'
  <1>1. ASSUME NEW x \in DOMAIN searchers'
        PROVE  Honest(searchers'[x], DOMAIN neighbors')
    <2>1. CASE x \in DOMAIN searchers /\ searchers'[x] = searchers[x]
        BY <2>1 DEF Remembered, Honest
    <2>2. CASE searchers'[x] = [going |-> TRUE, wait |-> "new", searched |-> {}, sent |-> {}]
        BY <2>2 DEF Honest, Search, Wait
    <2> QED
        BY <2>1, <2>2
  <1> QED
      BY <1>1 DEF Remembered

\* A searcher that stops or goes on, that has waited, that finds nobody, or that forgets a
\* hub after an hour.
LEMMA SelfKeeps ==
  ASSUME Remembered, NEW s \in Searcher,
         Rated(s) \/ NobodyFound(s) \/ WaitPasses(s) \/ \E h \in Hub : HourEnds(s, h)
  PROVE  Remembered'
  <1> DEFINE r == searchers[s]
             a == [r EXCEPT !.going = ~r.going]
             b == [r EXCEPT !.wait = "short"]
             d == [r EXCEPT !.wait = "due"]
             c(h) == [r EXCEPT !.searched = r.searched \ {h}, !.sent = r.sent \ {h}]
  <1>1. s \in DOMAIN searchers /\ neighbors' = neighbors
      BY DEF Rated, NobodyFound, WaitPasses, HourEnds, Selectable
  <1>2. Honest(r, DOMAIN neighbors)
      BY <1>1 DEF Remembered
  <1>3. CASE Rated(s)
    <2>1. searchers' = [searchers EXCEPT ![s] = a]
        BY <1>3 DEF Rated
    <2> HIDE DEF r
    <2>2. Honest(a, DOMAIN neighbors)
        BY <1>2 DEF Honest, Search, Wait
    <2> HIDE DEF a
    <2> QED
        BY <1>1, <2>1, <2>2, OneChanges
  <1>4. CASE NobodyFound(s)
    <2>1. searchers' = [searchers EXCEPT ![s] = b]
        BY <1>4 DEF NobodyFound, NeedMoreKeys
    <2> HIDE DEF r
    <2>2. Honest(b, DOMAIN neighbors)
        BY <1>2 DEF Honest, Search, Wait
    <2> HIDE DEF b
    <2> QED
        BY <1>1, <2>1, <2>2, OneChanges
  <1>5. ASSUME NEW h \in Hub, HourEnds(s, h)
        PROVE  Remembered'
    <2>1. searchers' = [searchers EXCEPT ![s] = c(h)]
        BY <1>5 DEF HourEnds
    <2> HIDE DEF r
    <2>2. Honest(c(h), DOMAIN neighbors)
        BY <1>2 DEF Honest, Search, Wait
    <2> HIDE DEF c
    <2> QED
        BY <1>1, <2>1, <2>2, OneChanges
  <1>6. CASE WaitPasses(s)
    <2>1. searchers' = [searchers EXCEPT ![s] = d]
        BY <1>6 DEF WaitPasses
    <2> HIDE DEF r
    <2>2. Honest(d, DOMAIN neighbors)
        BY <1>2 DEF Honest, Search, Wait
    <2> HIDE DEF d
    <2> QED
        BY <1>1, <2>1, <2>2, OneChanges
  <1> QED
      BY <1>3, <1>4, <1>5, <1>6

\* A round that finds a hub remembers it, and has sent the query but to a neighbor that is gone.
LEMMA RoundKeeps ==
  ASSUME Remembered, NEW s \in Searcher, LocalSearch(s) \/ \E h \in Hub : ForeignSearch(s, h)
  PROVE  Remembered'
  <1> DEFINE r == searchers[s]
             q(h, arrives) == [going |-> TRUE, wait |-> "short",
                               searched |-> r.searched \cup {h},
                               sent |-> IF arrives THEN r.sent \cup {h} ELSE r.sent]
             b == [r EXCEPT !.wait = "short"]
  <1>1. s \in DOMAIN searchers
      BY DEF LocalSearch, ForeignSearch, Selectable
  <1>2. Honest(r, DOMAIN neighbors)
      BY <1>1 DEF Remembered
  <1>3. ASSUME NEW h
        PROVE  /\ Asked(s, h, TRUE) = [searchers EXCEPT ![s] = q(h, TRUE)]
               /\ \/ Asked(s, h, h \in hubs) = [searchers EXCEPT ![s] = q(h, TRUE)]
                  \/ Asked(s, h, h \in hubs) = [searchers EXCEPT ![s] = q(h, FALSE)]
    <2>1. CASE h \in hubs
        BY <2>1 DEF Asked
    <2>2. CASE h \notin hubs
        BY <2>2 DEF Asked
    <2> QED
        BY <2>1, <2>2
  <1>4. searchers' = [searchers EXCEPT ![s] = b] <=> searchers' = [searchers EXCEPT ![s].wait = "short"]
      OBVIOUS
  <1> HIDE DEF r
  <1>5. ASSUME NEW h \in Hub, NEW arrives \in BOOLEAN, arrives \/ h \in DOMAIN neighbors
        PROVE  Honest(q(h, arrives), DOMAIN neighbors)
      BY <1>2, <1>5 DEF Honest, Search, Wait
  <1>6. Honest(b, DOMAIN neighbors)
      BY <1>2 DEF Honest, Search, Wait
  <1> HIDE DEF q, b
  <1>7. CASE LocalSearch(s)
    <2>1. PICK h \in Local(s) : /\ neighbors' = [neighbors EXCEPT ![h] = TRUE]
                                /\ searchers' = Asked(s, h, h \in hubs)
        BY <1>7 DEF LocalSearch
    <2>2. h \in DOMAIN neighbors /\ h \in Hub /\ DOMAIN neighbors' = DOMAIN neighbors
        BY <2>1 DEF Local, Remembered
    <2>3. \/ searchers' = [searchers EXCEPT ![s] = q(h, TRUE)]
          \/ searchers' = [searchers EXCEPT ![s] = q(h, FALSE)]
        BY <1>3, <2>1
    <2>4. Honest(q(h, TRUE), DOMAIN neighbors) /\ Honest(q(h, FALSE), DOMAIN neighbors)
        BY <1>5, <2>2
    <2> QED
        BY <1>1, <2>2, <2>3, <2>4, OneChanges
  <1>8. ASSUME NEW h \in Hub, ForeignSearch(s, h)
        PROVE  Remembered'
    <2>1. neighbors' = neighbors
        BY <1>8 DEF ForeignSearch
    <2>2. \/ searchers' = [searchers EXCEPT ![s] = q(h, TRUE)]
          \/ searchers' = [searchers EXCEPT ![s] = b]
        BY <1>3, <1>4, <1>8 DEF ForeignSearch, NeedMoreKeys
    <2>3. Honest(q(h, TRUE), DOMAIN neighbors)
        BY <1>5
    <2> QED
        BY <1>1, <1>6, <2>1, <2>2, <2>3, OneChanges
  <1> QED
      BY <1>7, <1>8

\* Searchers and neighbors that come, and searchers that go.
LEMMA ComingKeeps ==
  ASSUME Remembered,
         \/ \E s \in Searcher : Create(s) \/ Detach(s)
         \/ \E h \in Hub : HubConnected(h) \/ RestEnds(h)
         \/ UNCHANGED <<searchers, neighbors>>
  PROVE  Remembered'
  <1>1. DOMAIN neighbors \subseteq Hub
      BY DEF Remembered
  <1>2. ASSUME NEW s \in Searcher, Create(s)
        PROVE  Remembered'
      BY <1>1, <1>2, OthersRemember DEF Create
  <1>3. ASSUME NEW s \in Searcher, Detach(s)
        PROVE  Remembered'
      BY <1>1, <1>3, OthersRemember DEF Detach, Restrict
  <1>4. ASSUME NEW h \in Hub, HubConnected(h) \/ RestEnds(h)
        PROVE  Remembered'
      BY <1>1, <1>4, OthersRemember DEF HubConnected, RestEnds
  <1>5. CASE UNCHANGED <<searchers, neighbors>>
      BY <1>1, <1>5, OthersRemember
  <1> QED
      BY <1>2, <1>3, <1>4, <1>5

\* Nothing is remembered, to begin with.
LEMMA SearchBegins == SearchInit => Remembered
  BY DEF SearchInit, Remembered

\* Every step keeps what is remembered.
LEMMA SearchKeeps == Remembered /\ [SearchNext]_searchVars => Remembered'
  <1> SUFFICES ASSUME Remembered, [SearchNext]_searchVars PROVE Remembered'
      OBVIOUS
  <1>1. ASSUME NEW s \in Searcher,
               \/ Create(s) \/ Detach(s) \/ Rated(s) \/ WaitPasses(s) \/ LocalSearch(s) \/ NobodyFound(s)
               \/ \E h \in Hub : ForeignSearch(s, h) \/ HourEnds(s, h)
        PROVE  Remembered'
      BY <1>1, SelfKeeps, RoundKeeps, ComingKeeps
  <1>2. ASSUME NEW h \in Hub,
               \/ RequestMoreKeys(h)
               \/ HubConnected(h) \/ Disconnect(h) \/ HandshakeFailed(h)
               \/ KeyAges(h) \/ WaitEnds(h) \/ RestEnds(h)
        PROVE  Remembered'
      BY <1>2, ComingKeeps DEF RequestMoreKeys, Disconnect, HandshakeFailed, KeyAges, WaitEnds
  <1>3. ASSUME NEW h \in Hub, NEW p \in Endpoint, OnQKA(h, p)
        PROVE  Remembered'
      BY <1>3, ComingKeeps DEF OnQKA
  <1>4. ASSUME NEW seen, NEW done, OnQA(seen, done)
        PROVE  Remembered'
      BY <1>4, ComingKeeps DEF OnQA
  <1>5. CASE UNCHANGED searchVars
      BY <1>5, ComingKeeps DEF searchVars
  <1> QED
      BY <1>1, <1>2, <1>3, <1>4, <1>5 DEF SearchNext

\* A search that went to a hub is remembered, and what is remembered was sent (searcher.cpp).
THEOREM SearchesAreRemembered == SearchSpec => []SearchedIsSent
  BY SearchBegins, SearchKeeps, RememberedIsSent, PTL DEF SearchSpec
==============================================================================
