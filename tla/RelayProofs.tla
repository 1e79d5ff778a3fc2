------------------------------ MODULE RelayProofs ------------------------------
(***************************************************************************)
(* Proofs about Relay, for every number of frames, neighbours and slots,   *)
(* every lifetime, jitter and burst, and every width of the clock.         *)
(***************************************************************************)
EXTENDS SenderCount, SharedLemmas

(***************************************************************************)
(* The helpers.  The first loop index that satisfies a test exists.        *)
(***************************************************************************)
LEMMA MinIsLeast ==
  ASSUME NEW S, S \subseteq Slots, S # {}
  PROVE  Min(S) \in S /\ \A y \in S : Min(S) <= y
<1>1. S \subseteq Nat
  BY CacheAssumption DEF Slots
<1>2. \E x \in S : \A y \in S : x <= y
  BY <1>1, LeastNat
<1> QED
  BY <1>2 DEF Min

\* A lookup fails exactly when no live entry has the signature.
LEMMA LocationFindsHits ==
  ASSUME NEW c, NEW hmac, NEW now
  PROVE  /\ Location(c, hmac, now) = NotCached <=> Hits(c, hmac, now) = {}
         /\ Location(c, hmac, now) # NotCached => Location(c, hmac, now) \in Hits(c, hmac, now)
<1>1. Hits(c, hmac, now) \subseteq Slots
  BY DEF Hits
<1>2. NotCached \notin Slots
  BY CacheAssumption DEF NotCached, Slots
<1> QED
  BY <1>1, <1>2, MinIsLeast DEF Location

(***************************************************************************)
(* The types.                                                              *)
(***************************************************************************)
LEMMA MillisType ==
  ASSUME NEW time \in Nat
  PROVE  MillisAt(time) \in Millis
BY CacheAssumption DEF MillisAt, Millis

\* A 32-bit sum has 32 bits.
LEMMA Plus32Type ==
  ASSUME NEW a \in Nat, NEW b \in Nat
  PROVE  Plus32(a, b) \in Millis
BY CacheAssumption DEF Plus32, Millis

\* An entry remains one when a sender is counted.
LEMMA RecordSenderType ==
  ASSUME NEW entry \in CacheEntries, NEW mac \in Macs
  PROVE  RecordSender(entry, mac) \in CacheEntries
<1>1. CASE mac \notin entry.seen_macs /\ entry.rx_count < MAX_TRACKED_MACS
  <2>1. entry.rx_count + 1 \in 0 .. MAX_TRACKED_MACS /\ entry.seen_macs \cup {mac} \in SUBSET Macs
    BY <1>1, CacheAssumption DEF CacheEntries
  <2>2. RecordSender(entry, mac) =
          [entry EXCEPT !.seen_macs = entry.seen_macs \cup {mac}, !.rx_count = entry.rx_count + 1]
    BY <1>1 DEF RecordSender
  <2> QED
    BY <2>1, <2>2 DEF CacheEntries
<1>2. CASE ~(mac \notin entry.seen_macs /\ entry.rx_count < MAX_TRACKED_MACS)
  BY <1>2 DEF RecordSender
<1> QED
  BY <1>1, <1>2

\* A lookup leaves a cache behind, and answers with yes or no.
LEMMA CheckCacheType ==
  ASSUME NEW c \in [Slots -> CacheEntries], NEW hmac, NEW now, NEW mac \in Macs
  PROVE  CheckCache(c, hmac, now, mac) \in [Slots -> CacheEntries]
<1>1. \A i \in Slots : RecordSender(c[i], mac) \in CacheEntries
  BY RecordSenderType
<1>2. \A i \in Slots : Deactivate(c[i]) \in CacheEntries
  BY DEF Deactivate, CacheEntries
<1> QED
  BY <1>1, <1>2 DEF CheckCache

\* What addToCache writes is an entry.
LEMMA NewEntryType ==
  ASSUME NEW packet \in Packets, NEW now \in Millis, NEW jitter \in Nat, NEW mac \in Macs
  PROVE  NewEntry(packet, now, jitter, mac) \in CacheEntries
<1>1. Plus32(now, CACHE_TTL_MS) \in Millis /\ Plus32(now, jitter) \in Millis
  <2>1. now \in Nat /\ CACHE_TTL_MS \in Nat
    BY CacheAssumption DEF Millis
  <2> QED
    BY <2>1, Plus32Type
<1>2. 1 \in 0 .. MAX_TRACKED_MACS
  BY CacheAssumption
<1>3. packet.hmac_sig \in Frames /\ packet \in [hmac_sig : Frames \cup {NoFrame}, flags : Byte]
  BY DEF Packets
<1> QED
  BY <1>1, <1>2, <1>3 DEF NewEntry, CacheEntries

\* An insertion leaves a cache behind.
LEMMA AddToCacheType ==
  ASSUME NEW c \in [Slots -> CacheEntries], NEW packet \in Packets, NEW now \in Millis,
         NEW jitter \in Nat, NEW mac \in Macs
  PROVE  AddToCache(c, packet, now, jitter, mac) \in [Slots -> CacheEntries]
<1>1. \A i \in Slots : Deactivate(c[i]) \in CacheEntries
  BY DEF Deactivate, CacheEntries
<1> QED
  BY <1>1, NewEntryType DEF AddToCache

\* The mark after a burst leaves a cache behind, whatever slot it hits.
LEMMA MarkBroadcastedType ==
  ASSUME cache \in [Slots -> CacheEntries], NEW slots
  PROVE  MarkBroadcasted(slots) \in [Slots -> CacheEntries]
BY DEF MarkBroadcasted, CacheEntries

\* So does the mark after a frame was forwarded.
LEMMA MarkForwardedType ==
  ASSUME NEW added \in [Slots -> CacheEntries], callback.mac \in Macs
  PROVE  MarkForwarded(added) \in [Slots -> CacheEntries]
<1>1. CheckCache(added, HeardFrame, CallbackNow, callback.mac) \in [Slots -> CacheEntries]
  BY CheckCacheType
<1> QED
  BY <1>1 DEF MarkForwarded, CacheEntries

\* The relay starts with its types right.
LEMMA InitType == Init => TypeOK
<1>1. EmptyCache \in [Slots -> CacheEntries]
  BY CacheAssumption DEF EmptyCache, EmptyEntry, CacheEntries, ZeroPacket, Millis, Byte
<1>2. ZeroPacket \in [hmac_sig : Frames \cup {NoFrame}, flags : Byte] /\ 0 \in Millis
  BY CacheAssumption DEF ZeroPacket, Byte, Millis
<1>3. Init => wifi \in {"connected", "lost", "off"} /\ acceptedAt \in [Frames -> Nat \cup {-1}]
  BY RelayAssumption DEF Init
<1>4. Init => callback \in Activations \cup {Idle}
  BY DEF Init
<1>5. Init => clock \in Nat /\ loopReadAt \in Nat /\ upstream \subseteq Frames
  BY DEF Init
<1>6. Init => cache \in [Slots -> CacheEntries] /\ broadcastEndTime \in Millis
              /\ advData \in [hmac_sig : Frames \cup {NoFrame}, flags : Byte]
  BY <1>1, <1>2 DEF Init
<1> QED
  BY <1>3, <1>4, <1>5, <1>6 DEF Init, TypeOK

\* What a waiting or sending activation carries.
LEMMA ActivationType ==
  ASSUME TypeOK, callback.pc # "idle"
  PROVE  /\ callback \in Activations
         /\ callback.packet \in Packets
         /\ callback.packet.hmac_sig \in Frames
         /\ callback.packet.flags \in Byte
         /\ callback.mac \in Macs
         /\ callback.readAt \in Nat
         /\ CallbackNow \in Millis
<1>1. callback \in Activations
  BY DEF TypeOK, Idle
<1>2. callback.packet \in Packets /\ callback.mac \in Macs /\ callback.readAt \in Nat
  BY <1>1 DEF Activations
<1> QED
  BY <1>1, <1>2, MillisType DEF Packets, CallbackNow

\* Every step of either task keeps them.
LEMMA NextType ==
  ASSUME TypeOK, [Next]_vars
  PROVE  TypeOK'
<1> USE DEF TypeOK, loopVars, radioVars, uplinkVars
<1>1. CASE Tick
  BY <1>1 DEF Tick
<1>2. CASE Arrival
  <2>1. PICK frame \in Frames, ttl \in ArrivingTtls, mac \in Macs :
          Hear(BuildEmergencyPacket(frame, ttl), mac)
    BY <1>2 DEF Arrival
  <2>2. BuildEmergencyPacket(frame, ttl) \in Packets
    BY BuildEmergencyPacketType, RelayAssumption
  <2>3. callback' \in Activations
    BY <2>1, <2>2 DEF Hear, Activations
  <2> QED
    BY <2>1, <2>3 DEF Hear
<1>3. CASE DropDuplicate \/ DropExhausted
  <2>1. CheckedCache \in [Slots -> CacheEntries]
    BY <1>3, ActivationType, CheckCacheType DEF CheckedCache, DropDuplicate, DropExhausted, InCallback
  <2> QED
    BY <1>3, <2>1 DEF DropDuplicate, DropExhausted, Idle
<1>4. CASE Queue
  <2>1. callback.pc # "idle"
    BY <1>4 DEF Queue, InCallback
  <2>2. NextHop(callback.packet) \in Packets
    BY <1>4, <2>1, ActivationType, NextHopType DEF Queue
  <2>3. CheckedCache \in [Slots -> CacheEntries]
    BY <2>1, ActivationType, CheckCacheType DEF CheckedCache
  <2>4. cache' \in [Slots -> CacheEntries]
    <3>1. PICK jitter \in Jitters :
            cache' = AddToCache(CheckedCache, NextHop(callback.packet), CallbackNow, jitter,
                                callback.mac)
      BY <1>4 DEF Queue
    <3> QED
      BY <2>1, <2>2, <2>3, <3>1, AddToCacheType, ActivationType, RelayAssumption
  <2>5. acceptedAt' \in [Frames -> Nat \cup {-1}]
    BY <1>4, <2>1, ActivationType DEF Queue
  <2> QED
    BY <1>4, <2>4, <2>5 DEF Queue, Idle
<1>5. CASE StartForward
  <2>1. callback.pc # "idle"
    BY <1>5 DEF StartForward, InCallback
  <2>2. CheckedCache \in [Slots -> CacheEntries]
    BY <2>1, ActivationType, CheckCacheType DEF CheckedCache
  <2>3. callback' \in Activations
    BY <1>5, <2>1, ActivationType, RelayAssumption DEF StartForward, Activations
  <2> QED
    BY <1>5, <2>2, <2>3 DEF StartForward
<1>6. CASE SendDatagram
  <2>1. callback.pc # "idle" /\ callback \in Activations /\ callback.pc = "sending"
    BY <1>6, ActivationType DEF SendDatagram
  <2>2. callback.left \in 0 .. UDP_COPIES /\ callback.left - 1 \in 0 .. UDP_COPIES
    BY <1>6, <2>1, RelayAssumption DEF SendDatagram, Activations
  <2>3. callback' \in Activations
    BY <1>6, <2>1, <2>2 DEF SendDatagram, Activations
  <2>4. upstream' \subseteq Frames
    BY <1>6, <2>1, ActivationType DEF SendDatagram, HeardFrame
  <2> QED
    BY <1>6, <2>3, <2>4 DEF SendDatagram
<1>7. CASE FinishForward
  <2>1. callback.pc # "idle"
    BY <1>7 DEF FinishForward
  <2>2. cache' \in [Slots -> CacheEntries]
    BY <1>7, <2>1, ActivationType, AddToCacheType, MarkForwardedType DEF FinishForward
  <2>3. acceptedAt' \in [Frames -> Nat \cup {-1}]
    BY <1>7, <2>1, ActivationType DEF FinishForward
  <2> QED
    BY <1>7, <2>2, <2>3 DEF FinishForward, Idle
<1>8. CASE EnterLoop \/ KeepBurst \/ EndBurst
  BY <1>8 DEF EnterLoop, KeepBurst, EndBurst, BackToScanning, vars
<1>9. CASE CancelCovered
  BY <1>9, MarkBroadcastedType DEF CancelCovered
<1>10. CASE StartBurst
  <2> DEFINE due == Due(MillisAt(loopReadAt))
             slot == Min(Uncovered(due))
  <2>1. slot \in Slots
    BY <1>10, MinIsLeast DEF StartBurst, Uncovered, Due
  <2>2. cache' \in [Slots -> CacheEntries]
    BY <1>10, MarkBroadcastedType DEF StartBurst
  <2>3. advData' \in [hmac_sig : Frames \cup {NoFrame}, flags : Byte]
    BY <1>10, <2>1 DEF StartBurst, CacheEntries
  <2>4. broadcastEndTime' \in Millis
    <3>1. MillisAt(loopReadAt) \in Nat
      BY MillisType DEF Millis
    <3> QED
      BY <1>10, <3>1, Plus32Type, RelayAssumption DEF StartBurst
  <2> QED
    BY <1>10, <2>1, <2>2, <2>3, <2>4 DEF StartBurst
<1>11. CASE FinishBurst
  BY <1>11, MarkBroadcastedType DEF FinishBurst
<1>12. CASE WifiChange
  BY <1>12 DEF WifiChange
<1>13. CASE UNCHANGED vars
  BY <1>13 DEF vars
<1> QED
  BY <1>1, <1>2, <1>3, <1>4, <1>5, <1>6, <1>7, <1>8, <1>9, <1>10, <1>11, <1>12, <1>13
  DEF Next, OnResult, Loop

(***************************************************************************)
(* Every variable keeps its type, the slots stay within the table and the  *)
(* counters within MAX_TRACKED_MACS, whatever is heard and however the     *)
(* tasks are scheduled.                                                    *)
(***************************************************************************)
THEOREM TypeCorrect == Spec => []TypeOK
<1>1. TypeOK /\ [Next]_vars => TypeOK'
  BY NextType
<1> QED
  BY InitType, <1>1, PTL DEF Spec


--------------------------------------------------------------------------------
(***************************************************************************)
(* The inductive invariant.  What it adds to the invariants of the relay:  *)
(* the packet of an activation is a copy some neighbour sent, and the      *)
(* frame a gateway is forwarding has no entry until it is added.           *)
(***************************************************************************)
Counted(entry) ==
  entry.active =>
    /\ IsFiniteSet(entry.seen_macs)
    /\ entry.rx_count = Cardinality(entry.seen_macs)
    /\ entry.rx_count \in 1 .. MAX_TRACKED_MACS

Sendable(entry) ==
  entry.active /\ ~entry.broadcasted => OneHopLess(entry.packet, entry.hmac)

Unique(c) ==
  \A i, j \in Slots : c[i].active /\ c[j].active /\ c[i].hmac = c[j].hmac => i = j

Unknown(c, frame) == \A i \in Slots : c[i].active => c[i].hmac # frame

HeardFromNeighbour ==
  callback.pc # "idle" =>
    VerifyHmac(callback.packet) /\ Ttl(callback.packet.flags) \in ArrivingTtls

CacheInv ==
  /\ \A i \in Slots : Counted(cache[i]) /\ Sendable(cache[i])
  /\ Unique(cache)
  /\ callback.pc = "sending" => Unknown(cache, HeardFrame)

AirInv == isBroadcasting => OneHopLess(advData, advData.hmac_sig)

IInv == TypeOK /\ HeardFromNeighbour /\ CacheInv /\ AirInv

\* A new sender is counted once, and none beyond the array.
LEMMA RecordSenderCounts ==
  ASSUME NEW entry \in CacheEntries, Counted(entry), NEW mac \in Macs
  PROVE  /\ Counted(RecordSender(entry, mac))
         /\ RecordSender(entry, mac).active = entry.active
         /\ RecordSender(entry, mac).hmac = entry.hmac
         /\ RecordSender(entry, mac).packet = entry.packet
         /\ RecordSender(entry, mac).broadcasted = entry.broadcasted
<1>1. CASE mac \notin entry.seen_macs /\ entry.rx_count < MAX_TRACKED_MACS
  <2> DEFINE recorded ==
        [entry EXCEPT !.seen_macs = entry.seen_macs \cup {mac}, !.rx_count = entry.rx_count + 1]
  <2>1. RecordSender(entry, mac) = recorded
    BY <1>1 DEF RecordSender
  <2>2. /\ recorded.active = entry.active
        /\ recorded.hmac = entry.hmac
        /\ recorded.packet = entry.packet
        /\ recorded.broadcasted = entry.broadcasted
        /\ recorded.seen_macs = entry.seen_macs \cup {mac}
        /\ recorded.rx_count = entry.rx_count + 1
    BY DEF CacheEntries
  <2>3. ASSUME entry.active
        PROVE  /\ IsFiniteSet(entry.seen_macs \cup {mac})
               /\ Cardinality(entry.seen_macs \cup {mac}) = entry.rx_count + 1
    <3>1. IsFiniteSet(entry.seen_macs) /\ entry.rx_count = Cardinality(entry.seen_macs)
      BY <2>3 DEF Counted
    <3> QED
      BY <1>1, <3>1, FS_AddElement
  <2>4. ASSUME entry.active
        PROVE  entry.rx_count + 1 \in 1 .. MAX_TRACKED_MACS
    BY <1>1, <2>4, CacheAssumption DEF Counted
  <2> QED
    BY <2>1, <2>2, <2>3, <2>4 DEF Counted
<1>2. CASE ~(mac \notin entry.seen_macs /\ entry.rx_count < MAX_TRACKED_MACS)
  BY <1>2 DEF RecordSender
<1> QED
  BY <1>1, <1>2

\* checkCache never brings an entry back, and tells the truth about a miss.
LEMMA CheckCacheKeeps ==
  ASSUME NEW c \in [Slots -> CacheEntries], \A i \in Slots : Counted(c[i]), Unique(c),
         NEW hmac, NEW now, NEW mac \in Macs,
         NEW d, d = CheckCache(c, hmac, now, mac)
  PROVE  /\ \A i \in Slots : Counted(d[i]) /\ (Sendable(c[i]) => Sendable(d[i]))
         /\ \A i \in Slots : d[i].active => c[i].active /\ d[i].hmac = c[i].hmac
         /\ Unique(d)
         /\ Location(c, hmac, now) = NotCached => Unknown(d, hmac)
<1>1. ASSUME NEW i \in Slots
      PROVE  d[i] \in {c[i], RecordSender(c[i], mac), Deactivate(c[i])}
  BY DEF CheckCache
<1>2. ASSUME NEW i \in Slots
      PROVE  ~Deactivate(c[i]).active
  BY DEF Deactivate, CacheEntries
<1>3. ASSUME NEW i \in Slots
      PROVE  /\ Counted(d[i])
             /\ d[i].active => /\ c[i].active
                               /\ d[i].hmac = c[i].hmac
                               /\ d[i].packet = c[i].packet
                               /\ d[i].broadcasted = c[i].broadcasted
  <2>1. CASE d[i] = c[i]
    BY <2>1
  <2>2. CASE d[i] = RecordSender(c[i], mac)
    BY <2>2, RecordSenderCounts
  <2>3. CASE d[i] = Deactivate(c[i])
    BY <2>3, <1>2 DEF Counted
  <2> QED
    BY <1>1, <2>1, <2>2, <2>3
<1>4. ASSUME NEW i \in Slots, Sendable(c[i])
      PROVE  Sendable(d[i])
  BY <1>3, <1>4 DEF Sendable
<1>5. Unique(d)
  BY <1>3 DEF Unique
<1>6. ASSUME Location(c, hmac, now) = NotCached, NEW i \in Slots, d[i].active
      PROVE  d[i].hmac # hmac
  <2>1. i \notin Hits(c, hmac, now)
    BY <1>6, LocationFindsHits
  <2>2. i # Location(c, hmac, now)
    BY <1>6, CacheAssumption DEF NotCached, Slots
  <2>3. Expired(c[i], now) => d[i] = Deactivate(c[i])
    BY <1>6, <2>2 DEF CheckCache
  <2> QED
    BY <1>2, <1>3, <1>6, <2>1, <2>3 DEF Hits
<1> QED
  BY <1>3, <1>4, <1>5, <1>6 DEF Unknown

\* addToCache writes one new entry and leaves or deactivates every other.
LEMMA AddToCacheKeeps ==
  ASSUME NEW c \in [Slots -> CacheEntries], \A i \in Slots : Counted(c[i]), Unique(c),
         NEW packet \in Packets, NEW now, NEW jitter, NEW mac \in Macs,
         Unknown(c, packet.hmac_sig),
         NEW d, d = AddToCache(c, packet, now, jitter, mac)
  PROVE  /\ \A i \in Slots : Counted(d[i])
         /\ Unique(d)
         /\ \A i \in Slots : d[i].active =>
              d[i] = IF d[i].hmac = packet.hmac_sig THEN NewEntry(packet, now, jitter, mac)
                     ELSE c[i]
<1> DEFINE new == NewEntry(packet, now, jitter, mac)
           target == TargetSlot(c, now)
<1>1. ASSUME NEW i \in Slots
      PROVE  /\ i = target => d[i] = new
             /\ i # target => d[i] \in {c[i], Deactivate(c[i])}
  BY DEF AddToCache
<1>2. ASSUME NEW i \in Slots
      PROVE  ~Deactivate(c[i]).active
  BY DEF Deactivate, CacheEntries
<1>3. /\ new.hmac = packet.hmac_sig /\ new.active
      /\ new.seen_macs = {mac} /\ new.rx_count = 1
  BY DEF NewEntry
<1>4. Counted(new)
  <2>1. IsFiniteSet({mac}) /\ Cardinality({mac}) = 1
    BY FS_Singleton
  <2>2. 1 \in 1 .. MAX_TRACKED_MACS
    BY CacheAssumption
  <2> QED
    BY <1>3, <2>1, <2>2 DEF Counted
<1> HIDE DEF new, target
<1>5. ASSUME NEW i \in Slots, i # target, d[i].active
      PROVE  d[i] = c[i] /\ d[i].hmac # packet.hmac_sig
  BY <1>1, <1>2, <1>5 DEF Unknown
<1>6. \A i \in Slots : Counted(d[i])
  BY <1>1, <1>4, <1>5 DEF Counted
<1>7. Unique(d)
  BY <1>1, <1>3, <1>5 DEF Unique
<1>8. \A i \in Slots : d[i].active =>
        d[i] = IF d[i].hmac = packet.hmac_sig THEN new ELSE c[i]
  BY <1>1, <1>3, <1>5
<1> QED
  BY <1>6, <1>7, <1>8 DEF new


\* Marking entries as broadcasted, by loop or at the end of a burst.
LEMMA MarkBroadcastedKeeps ==
  ASSUME TypeOK, CacheInv, NEW slots, cache' = MarkBroadcasted(slots),
         callback' = callback
  PROVE  CacheInv'
<1>1. ASSUME NEW i \in Slots
      PROVE  cache'[i] \in {cache[i], [cache[i] EXCEPT !.broadcasted = TRUE]}
  BY DEF MarkBroadcasted
<1>2. ASSUME NEW i \in Slots
      PROVE  /\ cache'[i].active = cache[i].active
             /\ cache'[i].hmac = cache[i].hmac
             /\ cache'[i].seen_macs = cache[i].seen_macs
             /\ cache'[i].rx_count = cache[i].rx_count
             /\ cache'[i] = cache[i] \/ cache'[i].broadcasted
  BY <1>1 DEF TypeOK, CacheEntries
<1>3. ASSUME NEW i \in Slots
      PROVE  Counted(cache'[i]) /\ Sendable(cache'[i])
  BY <1>2 DEF CacheInv, Counted, Sendable
<1>4. Unique(cache')
  BY <1>2 DEF CacheInv, Unique
<1>5. (callback.pc = "sending" => Unknown(cache, HeardFrame))'
  BY <1>2 DEF CacheInv, Unknown, HeardFrame
<1> QED
  BY <1>3, <1>4, <1>5 DEF CacheInv

\* The cache after the lookup of a callback that has its turn.
LEMMA CheckedCacheKeeps ==
  ASSUME TypeOK, CacheInv, InCallback
  PROVE  /\ CheckedCache \in [Slots -> CacheEntries]
         /\ \A i \in Slots : Counted(CheckedCache[i]) /\ Sendable(CheckedCache[i])
         /\ Unique(CheckedCache)
         /\ HeardLocation = NotCached => Unknown(CheckedCache, HeardFrame)
<1>1. cache \in [Slots -> CacheEntries] /\ callback.mac \in Macs
  BY ActivationType DEF InCallback, TypeOK
<1>2. \A i \in Slots : Counted(cache[i]) /\ Sendable(cache[i])
  BY DEF CacheInv
<1>3. Unique(cache)
  BY DEF CacheInv
<1> QED
  BY <1>1, <1>2, <1>3, CheckCacheType, CheckCacheKeeps DEF CheckedCache, HeardLocation

\* Queueing a new frame keeps the entries distinct and correct.
LEMMA QueueKeeps ==
  ASSUME IInv, Queue
  PROVE  CacheInv'
<1>1. /\ InCallback
      /\ HeardLocation = NotCached
      /\ Ttl(callback.packet.flags) > 1
      /\ callback'.pc = "idle"
  BY DEF Queue, Idle
<1>2. callback.packet \in Packets /\ callback.mac \in Macs
  BY <1>1, ActivationType DEF IInv, InCallback
<1> DEFINE next == NextHop(callback.packet)
<1>3. next \in Packets /\ next.hmac_sig = HeardFrame
  BY <1>1, <1>2, NextHopType DEF HeardFrame
<1>4. OneHopLess(next, next.hmac_sig)
  <2>1. VerifyHmac(callback.packet) /\ Ttl(callback.packet.flags) \in ArrivingTtls
    BY <1>1 DEF IInv, HeardFromNeighbour, InCallback
  <2>2. VerifyHmac(next) /\ Ttl(next.flags) = Ttl(callback.packet.flags) - 1
    BY <1>1, <1>2, <2>1, NextHopType
  <2>3. Ttl(callback.packet.flags) \in Int
    BY <1>2, TtlType DEF Packets, TTL_VALUES
  <2>4. Ttl(next.flags) > 0 /\ Ttl(next.flags) + 1 = Ttl(callback.packet.flags)
    BY <1>1, <2>2, <2>3
  <2> QED
    BY <2>1, <2>2, <2>4 DEF OneHopLess
<1>5. PICK jitter \in Jitters :
        cache' = AddToCache(CheckedCache, next, CallbackNow, jitter, callback.mac)
  BY DEF Queue
<1>6. /\ \A i \in Slots : Counted(cache'[i])
      /\ Unique(cache')
      /\ \A i \in Slots : cache'[i].active =>
           cache'[i] = IF cache'[i].hmac = next.hmac_sig
                       THEN NewEntry(next, CallbackNow, jitter, callback.mac)
                       ELSE CheckedCache[i]
  BY <1>1, <1>2, <1>3, <1>5, CheckedCacheKeeps, AddToCacheKeeps DEF IInv
<1>7. Sendable(NewEntry(next, CallbackNow, jitter, callback.mac))
  BY <1>4 DEF Sendable, NewEntry
<1> HIDE DEF next
<1>8. ASSUME NEW i \in Slots
      PROVE  Sendable(cache'[i])
  <2>1. CASE cache'[i].active
    BY <1>1, <1>6, <1>7, <2>1, CheckedCacheKeeps DEF IInv
  <2>2. CASE ~cache'[i].active
    BY <2>2 DEF Sendable
  <2> QED
    BY <2>1, <2>2
<1> QED
  BY <1>1, <1>6, <1>8 DEF CacheInv

\* So does the end of forwarding, although the mutex was kept over the sleeps.
LEMMA FinishForwardKeeps ==
  ASSUME IInv, FinishForward
  PROVE  CacheInv'
<1>1. callback.pc = "sending" /\ callback'.pc = "idle"
  BY DEF FinishForward, Idle
<1>2. /\ callback.packet \in Packets
      /\ callback.mac \in Macs
      /\ CallbackNow \in Millis
      /\ HeardFrame = callback.packet.hmac_sig
  BY <1>1, ActivationType DEF IInv, HeardFrame
<1> DEFINE added == AddToCache(cache, callback.packet, CallbackNow, 0, callback.mac)
           checked == CheckCache(added, HeardFrame, CallbackNow, callback.mac)
           newLoc == Location(added, HeardFrame, CallbackNow)
<1>3. /\ cache \in [Slots -> CacheEntries]
      /\ \A i \in Slots : Counted(cache[i]) /\ Sendable(cache[i])
      /\ Unique(cache)
      /\ Unknown(cache, HeardFrame)
  BY <1>1 DEF IInv, TypeOK, CacheInv
<1>4. added \in [Slots -> CacheEntries]
  BY <1>2, <1>3, AddToCacheType
<1>5. /\ \A i \in Slots : Counted(added[i])
      /\ Unique(added)
      /\ \A i \in Slots : added[i].active /\ added[i].hmac # HeardFrame => added[i] = cache[i]
  BY <1>2, <1>3, AddToCacheKeeps
<1>6. ASSUME NEW i \in Slots, added[i].hmac # HeardFrame
      PROVE  Sendable(added[i])
  BY <1>3, <1>5, <1>6 DEF Sendable
<1> HIDE DEF added
<1>7. /\ \A i \in Slots : Counted(checked[i]) /\ (Sendable(added[i]) => Sendable(checked[i]))
      /\ \A i \in Slots : checked[i].active => added[i].active /\ checked[i].hmac = added[i].hmac
      /\ Unique(checked)
      /\ newLoc = NotCached => Unknown(checked, HeardFrame)
  BY <1>2, <1>4, <1>5, CheckCacheKeeps
<1>8. checked \in [Slots -> CacheEntries]
  BY <1>2, <1>4, CheckCacheType
<1>9. cache' = IF newLoc = NotCached THEN checked
               ELSE [checked EXCEPT ![newLoc].broadcasted = TRUE]
  BY DEF FinishForward, MarkForwarded, added
<1>10. newLoc # NotCached =>
         newLoc \in Slots /\ added[newLoc].active /\ added[newLoc].hmac = HeardFrame
  BY LocationFindsHits DEF Hits
<1> HIDE DEF checked, newLoc
<1>11. ASSUME NEW i \in Slots
       PROVE  /\ cache'[i].active = checked[i].active
              /\ cache'[i].hmac = checked[i].hmac
              /\ cache'[i].seen_macs = checked[i].seen_macs
              /\ cache'[i].rx_count = checked[i].rx_count
              /\ IF newLoc # NotCached /\ i = newLoc THEN cache'[i].broadcasted
                 ELSE cache'[i] = checked[i]
  BY <1>8, <1>9, <1>10 DEF CacheEntries
<1>12. ASSUME NEW i \in Slots
       PROVE  Counted(cache'[i])
  BY <1>7, <1>11 DEF Counted
<1>13. Unique(cache')
  BY <1>7, <1>11 DEF Unique
<1>14. ASSUME NEW i \in Slots, cache'[i].active, ~cache'[i].broadcasted
       PROVE  Sendable(cache'[i])
  <2>1. cache'[i] = checked[i] /\ checked[i].active /\ added[i].active
        /\ checked[i].hmac = added[i].hmac
    BY <1>7, <1>11, <1>14
  <2>2. added[i].hmac # HeardFrame
    <3>1. CASE newLoc = NotCached
      BY <1>7, <2>1, <3>1 DEF Unknown
    <3>2. CASE newLoc # NotCached
      <4>1. i # newLoc
        BY <1>11, <1>14, <3>2
      <4> QED
        BY <1>5, <1>10, <2>1, <3>2, <4>1 DEF Unique
    <3> QED
      BY <3>1, <3>2
  <2> QED
    BY <1>6, <1>7, <2>1, <2>2
<1>15. \A i \in Slots : Sendable(cache'[i])
  BY <1>14 DEF Sendable
<1> QED
  BY <1>1, <1>12, <1>13, <1>15 DEF CacheInv


\* An empty cache and a silent radio satisfy the invariant.
LEMMA InitIInv == Init => IInv
<1> SUFFICES ASSUME Init PROVE IInv
  OBVIOUS
<1>1. \A i \in Slots : ~cache[i].active
  BY DEF Init, EmptyCache, EmptyEntry
<1>2. callback.pc = "idle" /\ ~isBroadcasting
  BY DEF Init, Idle
<1> QED
  BY <1>1, <1>2, InitType
  DEF IInv, CacheInv, AirInv, HeardFromNeighbour, Counted, Sendable, Unique

\* The packet a callback waits with is the one it heard.
LEMMA HeardFromNeighbourKept ==
  ASSUME IInv, [Next]_vars
  PROVE  HeardFromNeighbour'
<1>1. CASE Arrival
  <2>1. PICK frame \in Frames, ttl \in ArrivingTtls, mac \in Macs :
          Hear(BuildEmergencyPacket(frame, ttl), mac)
    BY <1>1 DEF Arrival
  <2>2. callback'.packet = BuildEmergencyPacket(frame, ttl)
    BY <2>1 DEF Hear
  <2> QED
    BY <2>2, BuildEmergencyPacketType, RelayAssumption DEF HeardFromNeighbour
<1>2. CASE OnResult
  <2>1. callback'.pc # "idle" => callback.pc # "idle" /\ callback'.packet = callback.packet
    <3>1. CASE DropDuplicate \/ DropExhausted \/ Queue \/ FinishForward
      BY <3>1 DEF DropDuplicate, DropExhausted, Queue, FinishForward, Idle
    <3>2. CASE StartForward
      BY <3>2 DEF StartForward, InCallback
    <3>3. CASE SendDatagram
      <4>1. callback.pc # "idle" /\ callback \in Activations
        BY <3>3, ActivationType DEF SendDatagram, IInv
      <4> QED
        BY <3>3, <4>1 DEF SendDatagram, Activations
    <3> QED
      BY <1>2, <3>1, <3>2, <3>3 DEF OnResult
  <2> QED
    BY <2>1 DEF IInv, HeardFromNeighbour
<1>3. CASE Tick \/ Loop \/ WifiChange \/ UNCHANGED vars
  <2>1. callback' = callback
    BY <1>3 DEF Tick, Loop, EnterLoop, CancelCovered, StartBurst, KeepBurst, EndBurst,
                FinishBurst, WifiChange, vars
  <2> QED
    BY <2>1 DEF IInv, HeardFromNeighbour
<1> QED
  BY <1>1, <1>2, <1>3 DEF Next

\* Every step keeps the entries of the cache distinct and correct.
LEMMA CacheInvKept ==
  ASSUME IInv, [Next]_vars
  PROVE  CacheInv'
<1> USE DEF IInv
<1>1. CASE Tick \/ EnterLoop \/ KeepBurst \/ EndBurst \/ WifiChange \/ UNCHANGED vars
  <2>1. cache' = cache /\ callback' = callback
    BY <1>1 DEF Tick, EnterLoop, KeepBurst, EndBurst, WifiChange, vars
  <2> QED
    BY <2>1 DEF CacheInv, Unknown, HeardFrame
<1>2. CASE Arrival
  <2>1. cache' = cache /\ callback'.pc = "waiting"
    BY <1>2 DEF Arrival, Hear
  <2> QED
    BY <2>1 DEF CacheInv
<1>3. CASE DropDuplicate \/ DropExhausted
  <2>1. InCallback /\ cache' = CheckedCache /\ callback'.pc = "idle"
    BY <1>3 DEF DropDuplicate, DropExhausted, Idle
  <2> QED
    BY <2>1, CheckedCacheKeeps DEF CacheInv
<1>4. CASE StartForward
  <2>1. /\ InCallback
        /\ HeardLocation = NotCached
        /\ cache' = CheckedCache
        /\ callback'.packet = callback.packet
    BY <1>4 DEF StartForward
  <2>2. Unknown(cache', HeardFrame')
    BY <2>1, CheckedCacheKeeps DEF HeardFrame
  <2> QED
    BY <2>1, <2>2, CheckedCacheKeeps DEF CacheInv
<1>5. CASE SendDatagram
  <2>1. callback.pc # "idle" /\ callback \in Activations
    BY <1>5, ActivationType DEF SendDatagram
  <2>2. cache' = cache /\ callback'.packet = callback.packet
    BY <1>5, <2>1 DEF SendDatagram, Activations
  <2>3. callback.pc = "sending"
    BY <1>5 DEF SendDatagram
  <2> QED
    BY <2>2, <2>3 DEF CacheInv, Unknown, HeardFrame
<1>6. CASE CancelCovered \/ StartBurst \/ FinishBurst
  <2>1. \E slots : cache' = MarkBroadcasted(slots)
    BY <1>6 DEF CancelCovered, StartBurst, FinishBurst
  <2>2. callback' = callback
    BY <1>6 DEF CancelCovered, StartBurst, FinishBurst
  <2> QED
    BY <2>1, <2>2, MarkBroadcastedKeeps
<1> QED
  BY <1>1, <1>2, <1>3, <1>4, <1>5, <1>6, QueueKeeps, FinishForwardKeeps DEF Next, OnResult, Loop

\* Every step keeps the advertisement data correct while they are on the air.
LEMMA AirInvKept ==
  ASSUME IInv, [Next]_vars
  PROVE  AirInv'
<1>1. CASE StartBurst
  <2> DEFINE slot == Min(Uncovered(Due(MillisAt(loopReadAt))))
  <2>1. slot \in Slots /\ cache[slot].active /\ ~cache[slot].broadcasted
    <3>1. /\ Uncovered(Due(MillisAt(loopReadAt))) # {}
          /\ Uncovered(Due(MillisAt(loopReadAt))) \subseteq Slots
      BY <1>1 DEF StartBurst, Uncovered, Due
    <3>2. slot \in Uncovered(Due(MillisAt(loopReadAt)))
      BY <3>1, MinIsLeast
    <3> QED
      BY <3>2 DEF Uncovered, Due
  <2>2. advData' = cache[slot].packet
    BY <1>1 DEF StartBurst
  <2>3. OneHopLess(cache[slot].packet, cache[slot].hmac)
    BY <2>1 DEF IInv, CacheInv, Sendable
  <2> HIDE DEF slot
  <2> QED
    BY <2>2, <2>3 DEF AirInv, OneHopLess
<1>2. CASE Tick \/ Arrival \/ OnResult \/ WifiChange \/ UNCHANGED vars
  <2>1. advData' = advData /\ isBroadcasting' = isBroadcasting
    BY <1>2 DEF Tick, Arrival, Hear, OnResult, DropDuplicate, DropExhausted, Queue, StartForward,
                SendDatagram, FinishForward, WifiChange, vars, radioVars, loopVars
  <2> QED
    BY <2>1 DEF IInv, AirInv
<1>3. CASE EnterLoop \/ CancelCovered \/ KeepBurst \/ EndBurst \/ FinishBurst
  <2>1. advData' = advData /\ (isBroadcasting' => isBroadcasting)
    BY <1>3 DEF EnterLoop, CancelCovered, KeepBurst, EndBurst, FinishBurst, vars, radioVars, loopVars
  <2> QED
    BY <2>1 DEF IInv, AirInv
<1> QED
  BY <1>1, <1>2, <1>3 DEF Next, Loop

LEMMA IInvKept ==
  ASSUME IInv, [Next]_vars
  PROVE  IInv'
BY NextType, HeardFromNeighbourKept, CacheInvKept, AirInvKept DEF IInv

(***************************************************************************)
(* What onResult and loop find in the cache whenever they get the mutex,   *)
(* and what is on the air meanwhile: the invariant all others rest on.     *)
(***************************************************************************)
THEOREM Invariance == Spec => []IInv
<1>1. IInv /\ [Next]_vars => IInv'
  BY IInvKept
<1> QED
  BY InitIInv, <1>1, PTL DEF Spec

(***************************************************************************)
(* No frame ever has two entries, although the lookup of onResult uses a   *)
(* time read before the mutex was granted and stops at the first hit.      *)
(***************************************************************************)
THEOREM OneEntryPerFrameHolds == Spec => []OneEntryPerFrame
<1>1. IInv => OneEntryPerFrame
  BY DEF IInv, CacheInv, Unique, OneEntryPerFrame
<1> QED
  BY Invariance, <1>1, PTL

(***************************************************************************)
(* rx_count is the number of distinct senders recorded, at least one and   *)
(* at most MAX_TRACKED_MACS, however often each of them repeats a copy.    *)
(***************************************************************************)
THEOREM CountsDistinctSendersHolds == Spec => []CountsDistinctSenders
<1>1. IInv => CountsDistinctSenders
  BY DEF IInv, CacheInv, Counted, CountsDistinctSenders
<1> QED
  BY Invariance, <1>1, PTL

(***************************************************************************)
(* Whatever waits for the air or is on it carries the signed body of its   *)
(* frame and one hop less than a copy heard, and never the last: a relay   *)
(* does not break a signature, and a packet cached by a connected gateway  *)
(* with its TTL untouched does not get on the air.                         *)
(***************************************************************************)
THEOREM TransmitsOneHopLessHolds == Spec => []TransmitsOneHopLess
<1>1. IInv => TransmitsOneHopLess
  BY DEF IInv, CacheInv, AirInv, Sendable, TransmitsOneHopLess
<1> QED
  BY Invariance, <1>1, PTL

--------------------------------------------------------------------------------
(***************************************************************************)
(* What Relay promises of time needs a clock that stays below the wrap of  *)
(* millis(), where these promises end (the run relay_wrap shows it);       *)
(* everything above holds across the wrap too.                             *)
(***************************************************************************)

\* No time the relay computes reaches UINT32.
NoWrap == MAX_CLOCK + CACHE_TTL_MS < UINT32
NoBurstWrap == MAX_CLOCK + BROADCAST_BURST < UINT32

(***************************************************************************)
(* The strengthening: every reading of the clock is in the past, and an    *)
(* entry expires CACHE_TTL_MS after its frame was accepted last.           *)
(***************************************************************************)
Expiring(c, accepted) ==
  \A i \in Slots : c[i].active =>
    /\ c[i].hmac \in Frames
    /\ accepted[c[i].hmac] \in 0 .. clock
    /\ c[i].expires_at = accepted[c[i].hmac] + CACHE_TTL_MS

TimeInv ==
  /\ clock <= MAX_CLOCK
  /\ callback.pc # "idle" => callback.readAt <= clock
  /\ loopReadAt <= clock
  /\ Expiring(cache, acceptedAt)

\* Before the wrap, millis() is the time.
LEMMA MillisIsClock ==
  ASSUME NoWrap, NEW time \in Nat, time <= MAX_CLOCK
  PROVE  MillisAt(time) = time /\ Plus32(time, CACHE_TTL_MS) = time + CACHE_TTL_MS
<1>1. \A a \in Nat, b \in Nat \ {0} : a < b => a % b = a
  OBVIOUS
<1>2. /\ UINT32 \in Nat \ {0}
      /\ time < UINT32
      /\ time + CACHE_TTL_MS \in Nat
      /\ time + CACHE_TTL_MS < UINT32
  BY CacheAssumption, RelayAssumption DEF NoWrap
<1> QED
  BY <1>1, <1>2 DEF MillisAt, Plus32

\* A lookup purges only what has expired, and changes nothing of its time.
LEMMA CheckCachePurges ==
  ASSUME NEW c \in [Slots -> CacheEntries], NEW hmac, NEW now, NEW mac \in Macs,
         NEW d, d = CheckCache(c, hmac, now, mac),
         NEW i \in Slots
  PROVE  /\ d[i].hmac = c[i].hmac
         /\ d[i].expires_at = c[i].expires_at
         /\ d[i].active => c[i].active
         /\ c[i].active /\ ~Expired(c[i], now) => d[i].active
<1>1. \/ d[i] = c[i]
      \/ d[i] = RecordSender(c[i], mac)
      \/ d[i] = Deactivate(c[i]) /\ Expired(c[i], now)
  BY DEF CheckCache
<1>2. c[i] \in CacheEntries
  OBVIOUS
<1>3. /\ RecordSender(c[i], mac).hmac = c[i].hmac
      /\ RecordSender(c[i], mac).expires_at = c[i].expires_at
      /\ RecordSender(c[i], mac).active = c[i].active
  BY <1>2 DEF RecordSender, CacheEntries
<1>4. /\ Deactivate(c[i]).hmac = c[i].hmac
      /\ Deactivate(c[i]).expires_at = c[i].expires_at
      /\ ~Deactivate(c[i]).active
  BY <1>2 DEF Deactivate, CacheEntries
<1> QED
  BY <1>1, <1>3, <1>4

\* Some slot expires first.
LEMMA OldestExists ==
  ASSUME NEW c \in [Slots -> CacheEntries]
  PROVE  OldestSlots(c) # {}
<1> DEFINE Times == {c[j].expires_at : j \in Slots}
<1>1. Times \subseteq Nat /\ Times # {}
  <2>1. 0 \in Slots
    BY CacheAssumption DEF Slots
  <2>2. \A j \in Slots : c[j].expires_at \in Nat
    BY DEF CacheEntries, Millis
  <2> QED
    BY <2>1, <2>2
<1> HIDE DEF Times
<1>2. PICK first \in Times : \A time \in Times : first <= time
  BY <1>1, LeastNat
<1>3. PICK i \in Slots : first = c[i].expires_at
  BY <1>2 DEF Times
<1>4. \A j \in Slots : c[i].expires_at <= c[j].expires_at
  BY <1>2, <1>3 DEF Times
<1> QED
  BY <1>4 DEF OldestSlots

\* A new entry displaces a live one only from a cache that is full, and then
\* the one that expires first.
LEMMA AddToCacheEvicts ==
  ASSUME NEW c \in [Slots -> CacheEntries], NEW packet, NEW now, NEW jitter, NEW mac,
         NEW d, d = AddToCache(c, packet, now, jitter, mac),
         NEW i \in Slots, c[i].active, ~Expired(c[i], now), d[i] # c[i]
  PROVE  \A j \in Slots : c[j].active /\ c[i].expires_at <= c[j].expires_at
<1> DEFINE free == FreeSlots(c, now)
           target == TargetSlot(c, now)
<1>1. i \notin free /\ free \subseteq Slots
  BY DEF FreeSlots
<1>2. i = target
  BY <1>1 DEF AddToCache
<1>3. free = {}
  BY <1>1, <1>2, MinIsLeast DEF TargetSlot
<1>4. target \in OldestSlots(c)
  <2>1. OldestSlots(c) \subseteq Slots /\ OldestSlots(c) # {}
    BY OldestExists DEF OldestSlots
  <2> QED
    BY <1>3, <2>1, MinIsLeast DEF TargetSlot
<1>5. \A j \in Slots : c[j].active
  BY <1>3 DEF FreeSlots
<1> QED
  BY <1>2, <1>4, <1>5 DEF OldestSlots


(***************************************************************************)
(* The strengthening is inductive.                                         *)
(***************************************************************************)
LEMMA InitTimeInv == Init => TimeInv
<1> SUFFICES ASSUME Init PROVE TimeInv
  OBVIOUS
<1>1. clock = 0 /\ loopReadAt = 0 /\ callback.pc = "idle"
  BY DEF Init, Idle
<1>2. \A i \in Slots : ~cache[i].active
  BY DEF Init, EmptyCache, EmptyEntry
<1> QED
  BY <1>1, <1>2, RelayAssumption DEF TimeInv, Expiring

\* What an activation that has its turn knows of time.
LEMMA CallbackTime ==
  ASSUME NoWrap, TypeOK, TimeInv, callback.pc # "idle"
  PROVE  /\ CallbackNow = callback.readAt
         /\ callback.readAt \in Nat
         /\ callback.readAt <= clock
         /\ Plus32(CallbackNow, CACHE_TTL_MS) = callback.readAt + CACHE_TTL_MS
<1>1. clock \in Nat /\ callback.readAt \in Nat
  BY ActivationType DEF TypeOK
<1>2. callback.readAt <= MAX_CLOCK
  BY <1>1, RelayAssumption DEF TimeInv
<1> QED
  BY <1>1, <1>2, MillisIsClock DEF CallbackNow, TimeInv

\* A change of the cache that writes no entry keeps the expiries.
LEMMA ExpiringKept ==
  ASSUME Expiring(cache, acceptedAt), clock' = clock, acceptedAt' = acceptedAt,
         \A i \in Slots : cache'[i].active =>
           /\ cache[i].active
           /\ cache'[i].hmac = cache[i].hmac
           /\ cache'[i].expires_at = cache[i].expires_at
  PROVE  Expiring(cache, acceptedAt)'
BY DEF Expiring

\* The entry a callback adds expires a lifetime after the reading it is accepted with.
LEMMA ExpiringAdded ==
  ASSUME NoWrap, TypeOK, TimeInv, callback.pc # "idle",
         NEW c, Expiring(c, acceptedAt), Unknown(c, HeardFrame), clock' = clock,
         acceptedAt' = [acceptedAt EXCEPT ![HeardFrame] = callback.readAt],
         \A i \in Slots : cache'[i].active =>
           \/ /\ cache'[i].hmac = HeardFrame
              /\ cache'[i].expires_at = Plus32(CallbackNow, CACHE_TTL_MS)
           \/ /\ c[i].active
              /\ cache'[i].hmac = c[i].hmac
              /\ cache'[i].expires_at = c[i].expires_at
  PROVE  Expiring(cache, acceptedAt)'
<1>1. HeardFrame \in Frames /\ clock \in Nat
  BY ActivationType DEF HeardFrame, TypeOK
<1>2. /\ callback.readAt \in 0 .. clock
      /\ Plus32(CallbackNow, CACHE_TTL_MS) = callback.readAt + CACHE_TTL_MS
  BY <1>1, CallbackTime
<1>3. /\ acceptedAt'[HeardFrame] = callback.readAt
      /\ \A f \in Frames : f # HeardFrame => acceptedAt'[f] = acceptedAt[f]
  BY <1>1 DEF TypeOK
<1>4. ASSUME NEW i \in Slots, cache'[i].active
      PROVE  /\ cache'[i].hmac \in Frames
             /\ acceptedAt'[cache'[i].hmac] \in 0 .. clock
             /\ cache'[i].expires_at = acceptedAt'[cache'[i].hmac] + CACHE_TTL_MS
  <2>1. CASE cache'[i].hmac = HeardFrame /\ cache'[i].expires_at = Plus32(CallbackNow, CACHE_TTL_MS)
    BY <1>1, <1>2, <1>3, <2>1
  <2>2. CASE c[i].active /\ cache'[i].hmac = c[i].hmac /\ cache'[i].expires_at = c[i].expires_at
    BY <1>3, <2>2 DEF Expiring, Unknown
  <2> QED
    BY <1>4, <2>1, <2>2
<1> QED
  BY <1>4 DEF Expiring

\* The cache after the lookup of a callback that has its turn.
LEMMA CheckedCacheTime ==
  ASSUME NoWrap, TypeOK, TimeInv, InCallback
  PROVE  /\ CheckedCache \in [Slots -> CacheEntries]
         /\ Expiring(CheckedCache, acceptedAt)
         /\ \A i \in Slots :
              /\ CheckedCache[i].hmac = cache[i].hmac
              /\ CheckedCache[i].expires_at = cache[i].expires_at
              /\ CheckedCache[i].active => cache[i].active
              /\ cache[i].active /\ ~Expired(cache[i], CallbackNow) => CheckedCache[i].active
<1>1. callback.mac \in Macs /\ cache \in [Slots -> CacheEntries]
  BY ActivationType DEF InCallback, TypeOK
<1>2. CheckedCache \in [Slots -> CacheEntries]
  BY <1>1, CheckCacheType DEF CheckedCache
<1>3. ASSUME NEW i \in Slots
      PROVE  /\ CheckedCache[i].hmac = cache[i].hmac
             /\ CheckedCache[i].expires_at = cache[i].expires_at
             /\ CheckedCache[i].active => cache[i].active
             /\ cache[i].active /\ ~Expired(cache[i], CallbackNow) => CheckedCache[i].active
  BY <1>1, CheckCachePurges DEF CheckedCache
<1>4. Expiring(CheckedCache, acceptedAt)
  BY <1>3 DEF TimeInv, Expiring
<1> QED
  BY <1>2, <1>3, <1>4

\* Queueing a new frame ties its entry's expiry to the time it was accepted.
LEMMA QueueTime ==
  ASSUME NoWrap, IInv, TimeInv, Queue
  PROVE  Expiring(cache, acceptedAt)'
<1>1. /\ InCallback
      /\ HeardLocation = NotCached
      /\ Ttl(callback.packet.flags) > 1
      /\ clock' = clock
      /\ acceptedAt' = [acceptedAt EXCEPT ![HeardFrame] = callback.readAt]
      /\ callback.pc # "idle"
  BY DEF Queue, InCallback
<1> DEFINE next == NextHop(callback.packet)
<1>2. next \in Packets /\ next.hmac_sig = HeardFrame /\ callback.mac \in Macs
  BY <1>1, ActivationType, NextHopType DEF HeardFrame, IInv
<1>3. PICK jitter \in Jitters :
        cache' = AddToCache(CheckedCache, next, CallbackNow, jitter, callback.mac)
  BY DEF Queue
<1> HIDE DEF next
<1>4. /\ CheckedCache \in [Slots -> CacheEntries]
      /\ \A i \in Slots : Counted(CheckedCache[i])
      /\ Unique(CheckedCache)
      /\ Unknown(CheckedCache, HeardFrame)
  BY <1>1, CheckedCacheKeeps DEF IInv
<1>5. \A i \in Slots : cache'[i].active =>
        cache'[i] = IF cache'[i].hmac = HeardFrame
                    THEN NewEntry(next, CallbackNow, jitter, callback.mac)
                    ELSE CheckedCache[i]
  BY <1>2, <1>3, <1>4, AddToCacheKeeps
<1>6. Expiring(CheckedCache, acceptedAt)
  BY <1>1, CheckedCacheTime DEF IInv
<1>7. \A i \in Slots : cache'[i].active =>
        \/ /\ cache'[i].hmac = HeardFrame
           /\ cache'[i].expires_at = Plus32(CallbackNow, CACHE_TTL_MS)
        \/ /\ CheckedCache[i].active
           /\ cache'[i].hmac = CheckedCache[i].hmac
           /\ cache'[i].expires_at = CheckedCache[i].expires_at
  BY <1>5 DEF NewEntry
<1> QED
  BY <1>1, <1>4, <1>6, <1>7, ExpiringAdded DEF IInv

\* What is left of the cache with the frame just forwarded in it.
LEMMA MarkForwardedTime ==
  ASSUME NEW added \in [Slots -> CacheEntries], callback.mac \in Macs, NEW i \in Slots,
         NEW d, d = MarkForwarded(added)
  PROVE  /\ d[i].hmac = added[i].hmac
         /\ d[i].expires_at = added[i].expires_at
         /\ d[i].active => added[i].active
         /\ added[i].active /\ ~Expired(added[i], CallbackNow) => d[i].active
<1> DEFINE checked == CheckCache(added, HeardFrame, CallbackNow, callback.mac)
           newLoc == Location(added, HeardFrame, CallbackNow)
<1>1. checked \in [Slots -> CacheEntries]
  BY CheckCacheType
<1>2. /\ checked[i].hmac = added[i].hmac
      /\ checked[i].expires_at = added[i].expires_at
      /\ checked[i].active => added[i].active
      /\ added[i].active /\ ~Expired(added[i], CallbackNow) => checked[i].active
  BY CheckCachePurges
<1>3. d = checked \/ d = [checked EXCEPT ![newLoc].broadcasted = TRUE]
  BY DEF MarkForwarded
<1> HIDE DEF checked, newLoc
<1>4. /\ d[i].hmac = checked[i].hmac
      /\ d[i].expires_at = checked[i].expires_at
      /\ d[i].active = checked[i].active
  BY <1>1, <1>3 DEF CacheEntries
<1> QED
  BY <1>2, <1>4

\* So does the end of forwarding, with the time read before the datagrams were sent.
LEMMA FinishForwardTime ==
  ASSUME NoWrap, IInv, TimeInv, FinishForward
  PROVE  Expiring(cache, acceptedAt)'
<1>1. /\ callback.pc = "sending"
      /\ clock' = clock
      /\ acceptedAt' = [acceptedAt EXCEPT ![HeardFrame] = callback.readAt]
      /\ callback.pc # "idle"
  BY DEF FinishForward
<1>2. /\ callback.packet \in Packets
      /\ callback.mac \in Macs
      /\ CallbackNow \in Millis
      /\ callback.packet.hmac_sig = HeardFrame
  BY <1>1, ActivationType DEF HeardFrame, IInv
<1>3. /\ cache \in [Slots -> CacheEntries]
      /\ \A i \in Slots : Counted(cache[i])
      /\ Unique(cache)
      /\ Unknown(cache, HeardFrame)
  BY <1>1 DEF IInv, TypeOK, CacheInv
<1> DEFINE added == AddToCache(cache, callback.packet, CallbackNow, 0, callback.mac)
<1>4. added \in [Slots -> CacheEntries]
  BY <1>2, <1>3, AddToCacheType
<1>5. \A i \in Slots : added[i].active =>
        added[i] = IF added[i].hmac = HeardFrame
                   THEN NewEntry(callback.packet, CallbackNow, 0, callback.mac)
                   ELSE cache[i]
  BY <1>2, <1>3, AddToCacheKeeps
<1>6. cache' = MarkForwarded(added)
  BY DEF FinishForward
<1> HIDE DEF added
<1>7. ASSUME NEW i \in Slots
      PROVE  /\ cache'[i].hmac = added[i].hmac
             /\ cache'[i].expires_at = added[i].expires_at
             /\ cache'[i].active => added[i].active
  BY <1>2, <1>4, <1>6, MarkForwardedTime
<1>8. Expiring(cache, acceptedAt)
  BY DEF TimeInv
<1>9. \A i \in Slots : cache'[i].active =>
        \/ /\ cache'[i].hmac = HeardFrame
           /\ cache'[i].expires_at = Plus32(CallbackNow, CACHE_TTL_MS)
        \/ /\ cache[i].active
           /\ cache'[i].hmac = cache[i].hmac
           /\ cache'[i].expires_at = cache[i].expires_at
  BY <1>5, <1>7 DEF NewEntry
<1> QED
  BY <1>1, <1>3, <1>8, <1>9, ExpiringAdded DEF IInv

\* Every step keeps expiry and acceptance tied together.
LEMMA TimeInvKept ==
  ASSUME NoWrap, IInv, TimeInv, [Next]_vars
  PROVE  TimeInv'
<1>1. clock \in Nat /\ loopReadAt \in Nat /\ (callback.pc # "idle" => callback.readAt \in Nat)
  BY ActivationType DEF IInv, TypeOK
<1>2. Expiring(cache, acceptedAt) /\ cache \in [Slots -> CacheEntries]
  BY DEF TimeInv, IInv, TypeOK
<1>3. CASE Tick
  <2>1. clock' = clock + 1 /\ clock + 1 <= MAX_CLOCK /\ cache' = cache /\ acceptedAt' = acceptedAt
        /\ callback' = callback /\ loopReadAt' = loopReadAt
    BY <1>1, <1>3, RelayAssumption DEF Tick, loopVars
  <2>2. \A n \in 0 .. clock : n \in 0 .. clock + 1
    BY <1>1
  <2>3. Expiring(cache, acceptedAt)'
    BY <1>2, <2>1, <2>2 DEF Expiring
  <2> QED
    BY <1>1, <2>1, <2>3 DEF TimeInv
<1>4. CASE Arrival
  <2>1. /\ callback'.readAt = clock
        /\ clock' = clock /\ cache' = cache /\ acceptedAt' = acceptedAt
        /\ loopReadAt' = loopReadAt
    BY <1>4 DEF Arrival, Hear, loopVars
  <2> QED
    BY <1>1, <2>1 DEF TimeInv, Expiring
<1>5. CASE OnResult
  <2>1. clock' = clock /\ loopReadAt' = loopReadAt
    BY <1>5 DEF OnResult, DropDuplicate, DropExhausted, Queue, StartForward, SendDatagram,
                FinishForward, loopVars
  <2>2. callback'.pc # "idle" => callback.pc # "idle" /\ callback'.readAt = callback.readAt
    <3>1. CASE DropDuplicate \/ DropExhausted \/ Queue \/ FinishForward
      BY <3>1 DEF DropDuplicate, DropExhausted, Queue, FinishForward, Idle
    <3>2. CASE StartForward
      BY <3>2 DEF StartForward, InCallback
    <3>3. CASE SendDatagram
      <4>1. callback.pc # "idle" /\ callback \in Activations
        BY <3>3, ActivationType DEF SendDatagram, IInv
      <4> QED
        BY <3>3, <4>1 DEF SendDatagram, Activations
    <3> QED
      BY <1>5, <3>1, <3>2, <3>3 DEF OnResult
  <2>3. Expiring(cache, acceptedAt)'
    <3>1. CASE DropDuplicate \/ DropExhausted \/ StartForward
      <4>1. InCallback /\ cache' = CheckedCache /\ acceptedAt' = acceptedAt
        BY <3>1 DEF DropDuplicate, DropExhausted, StartForward
      <4>2. Expiring(CheckedCache, acceptedAt)
        BY <4>1, CheckedCacheTime DEF IInv
      <4> QED
        BY <2>1, <4>1, <4>2 DEF Expiring
    <3>2. CASE SendDatagram
      BY <1>2, <2>1, <3>2 DEF SendDatagram, Expiring
    <3> QED
      BY <1>5, <3>1, <3>2, QueueTime, FinishForwardTime DEF OnResult
  <2> QED
    BY <2>1, <2>2, <2>3 DEF TimeInv
<1>6. CASE Loop
  <2>1. clock' = clock /\ callback' = callback /\ acceptedAt' = acceptedAt
        /\ loopReadAt' \in {0, clock, loopReadAt}
    BY <1>6 DEF Loop, EnterLoop, CancelCovered, StartBurst, KeepBurst, EndBurst, FinishBurst,
                vars, loopVars
  <2>2. cache' = cache \/ \E slots : cache' = MarkBroadcasted(slots)
    BY <1>6 DEF Loop, EnterLoop, CancelCovered, StartBurst, KeepBurst, EndBurst, FinishBurst, vars
  <2>3. ASSUME NEW i \in Slots
        PROVE  /\ cache'[i].active = cache[i].active
               /\ cache'[i].hmac = cache[i].hmac
               /\ cache'[i].expires_at = cache[i].expires_at
    BY <1>2, <2>2 DEF MarkBroadcasted, CacheEntries
  <2>4. Expiring(cache, acceptedAt)'
    BY <1>2, <2>1, <2>3, ExpiringKept
  <2> QED
    BY <1>1, <2>1, <2>4 DEF TimeInv
<1>7. CASE WifiChange \/ UNCHANGED vars
  BY <1>7 DEF WifiChange, vars, loopVars, TimeInv, Expiring
<1> QED
  BY <1>3, <1>4, <1>5, <1>6, <1>7 DEF Next

(***************************************************************************)
(* Before the wrap an entry expires a lifetime after its frame was         *)
(* accepted, whatever reading of the clock a callback waited with.         *)
(***************************************************************************)
THEOREM TimeInvariance == ASSUME NoWrap PROVE Spec => [](IInv /\ TimeInv)
<1>1. Init => IInv /\ TimeInv
  BY InitIInv, InitTimeInv
<1>2. IInv /\ TimeInv /\ [Next]_vars => (IInv /\ TimeInv)'
  BY TimeInvKept, NextType, HeardFromNeighbourKept, CacheInvKept, AirInvKept DEF IInv
<1> QED
  BY <1>1, <1>2, PTL DEF Spec

--------------------------------------------------------------------------------
(***************************************************************************)
(* What follows for a frame that is in the cache.                          *)
(***************************************************************************)
LEMMA AcceptsExpired ==
  ASSUME NoWrap, IInv, TimeInv, [Next]_vars, NEW f \in Frames,
         acceptedAt'[f] # acceptedAt[f], CachedIn(f) # {}
  PROVE  acceptedAt'[f] >= acceptedAt[f] + CACHE_TTL_MS
<1>1. PICK i \in Slots : cache[i].active /\ cache[i].hmac = f
  BY DEF CachedIn
<1>2. cache[i].expires_at = acceptedAt[f] + CACHE_TTL_MS
  BY <1>1 DEF TimeInv, Expiring
<1>3. acceptedAt' # acceptedAt
  OBVIOUS
<1>4. Queue \/ FinishForward
  BY <1>3 DEF Next, Tick, Arrival, Hear, OnResult, DropDuplicate, DropExhausted, StartForward,
              SendDatagram, Loop, EnterLoop, CancelCovered, StartBurst, KeepBurst, EndBurst,
              FinishBurst, WifiChange, vars
<1>5. callback.pc # "idle" /\ acceptedAt' = [acceptedAt EXCEPT ![HeardFrame] = callback.readAt]
  BY <1>4 DEF Queue, FinishForward, InCallback
<1>6. f = HeardFrame /\ acceptedAt'[f] = callback.readAt
  BY <1>5 DEF IInv, TypeOK
<1>7. CASE Queue
  <2>1. Hits(cache, f, CallbackNow) = {}
    BY <1>6, <1>7, LocationFindsHits DEF Queue, HeardLocation
  <2>2. CallbackNow >= cache[i].expires_at
    BY <1>1, <2>1 DEF Hits, Expired
  <2> QED
    BY <1>2, <1>5, <1>6, <2>2, CallbackTime DEF IInv
<1>8. CASE FinishForward
  BY <1>1, <1>6, <1>8 DEF FinishForward, IInv, CacheInv, Unknown
<1> QED
  BY <1>4, <1>7, <1>8

(***************************************************************************)
(* A frame that is in the cache is accepted again a lifetime after it was  *)
(* last accepted at the earliest, although the cache is purged no further  *)
(* than a search goes.                                                     *)
(***************************************************************************)
THEOREM AcceptOncePerLifetimeHolds == ASSUME NoWrap PROVE Spec => AcceptOncePerLifetime
<1>1. IInv /\ TimeInv /\ [Next]_vars =>
        [\A f \in Frames :
           acceptedAt'[f] # acceptedAt[f] /\ acceptedAt[f] # -1 /\ CachedIn(f) # {} =>
             acceptedAt'[f] >= acceptedAt[f] + CACHE_TTL_MS]_vars
  BY AcceptsExpired
<1> QED
  BY <1>1, TimeInvariance, PTL DEF Spec, AcceptOncePerLifetime

\* A copy with a hop left is accepted, or its frame was within the last lifetime.
LEMMA AcceptsUnlessKnown ==
  ASSUME NoWrap, IInv, TimeInv, [Next]_vars,
         callback.pc # "idle", callback'.pc = "idle", Ttl(callback.packet.flags) > 1
  PROVE  \/ acceptedAt'[HeardFrame] = callback.readAt
         \/ /\ acceptedAt[HeardFrame] # -1
            /\ callback.readAt < acceptedAt[HeardFrame] + CACHE_TTL_MS
<1>1. HeardFrame \in Frames /\ callback.readAt \in Nat
  BY ActivationType DEF IInv, HeardFrame
<1>2. callback' # callback
  OBVIOUS
<1>3. ~DropExhausted
  <2>1. callback.packet.flags \in Byte
    BY ActivationType DEF IInv
  <2>2. Ttl(callback.packet.flags) \in Nat
    BY <2>1 DEF Ttl, Byte, TTL_VALUES
  <2> QED
    BY <2>2 DEF DropExhausted
<1>4. DropDuplicate \/ Queue \/ FinishForward
  <2>1. ~StartForward
    BY DEF StartForward
  <2>2. ~SendDatagram
    <3>1. SendDatagram => callback'.pc = callback.pc
      BY ActivationType DEF SendDatagram, Activations, IInv
    <3> QED
      BY <3>1
  <2> QED
    BY <1>2, <1>3, <2>1, <2>2
    DEF Next, Tick, Arrival, Hear, OnResult, Loop, EnterLoop, CancelCovered, StartBurst,
        KeepBurst, EndBurst, FinishBurst, WifiChange, vars
<1>5. CASE Queue \/ FinishForward
  <2>1. acceptedAt' = [acceptedAt EXCEPT ![HeardFrame] = callback.readAt]
    BY <1>5 DEF Queue, FinishForward
  <2> QED
    BY <1>1, <2>1 DEF IInv, TypeOK
<1>6. CASE DropDuplicate
  <2>1. PICK i \in Hits(cache, HeardFrame, CallbackNow) : TRUE
    BY <1>6, LocationFindsHits DEF DropDuplicate, HeardLocation
  <2>2. /\ acceptedAt[HeardFrame] \in Nat
        /\ cache[i].expires_at = acceptedAt[HeardFrame] + CACHE_TTL_MS
    BY <2>1 DEF Hits, TimeInv, Expiring
  <2>3. CallbackNow < cache[i].expires_at
    <3>1. i \in Slots /\ ~(CallbackNow >= cache[i].expires_at)
      BY <2>1 DEF Hits, Expired
    <3>2. CallbackNow \in Nat /\ cache[i].expires_at \in Nat
      BY <3>1, CallbackTime DEF IInv, TypeOK, CacheEntries, Millis
    <3> QED
      BY <3>1, <3>2
  <2> QED
    BY <2>2, <2>3, CallbackTime DEF IInv
<1> QED
  BY <1>4, <1>5, <1>6

(***************************************************************************)
(* A copy that still has a hop is dropped only within a lifetime of the    *)
(* frame's acceptance: the copies on their last hop that came before it,   *)
(* and the neighbours' order, do not matter.                               *)
(***************************************************************************)
THEOREM AcceptsWhateverCameFirstHolds == ASSUME NoWrap PROVE Spec => AcceptsWhateverCameFirst
<1>1. IInv /\ TimeInv /\ [Next]_vars =>
        [callback.pc # "idle" /\ callback'.pc = "idle" /\ Ttl(callback.packet.flags) > 1 =>
           \/ acceptedAt'[HeardFrame] = callback.readAt
           \/ /\ acceptedAt[HeardFrame] # -1
              /\ callback.readAt < acceptedAt[HeardFrame] + CACHE_TTL_MS]_vars
  BY AcceptsUnlessKnown
<1> QED
  BY <1>1, TimeInvariance, PTL DEF Spec, AcceptsWhateverCameFirst

\* An entry whose lifetime is not over has not expired for a callback.
LEMMA NotYetExpired ==
  ASSUME NoWrap, TypeOK, TimeInv, callback.pc # "idle",
         NEW i \in Slots, cache[i].active, ~LifetimeOver(cache[i].hmac)
  PROVE  ~Expired(cache[i], CallbackNow)
<1>1. cache[i].expires_at = acceptedAt[cache[i].hmac] + CACHE_TTL_MS
  BY DEF TimeInv, Expiring
<1>2. clock < cache[i].expires_at
  <2>1. acceptedAt[cache[i].hmac] \in Nat /\ CACHE_TTL_MS \in Nat /\ clock \in Nat
    BY CacheAssumption DEF TimeInv, Expiring, TypeOK
  <2> QED
    BY <1>1, <2>1 DEF LifetimeOver
<1>3. CallbackNow \in Nat /\ CallbackNow <= clock
  BY CallbackTime
<1>4. clock \in Nat /\ cache[i].expires_at \in Nat
  BY DEF TypeOK, CacheEntries, Millis
<1> QED
  BY <1>2, <1>3, <1>4 DEF Expired

\* The other entries of a cache that is full of live frames were accepted later.
LEMMA OldestFrame ==
  ASSUME TypeOK, TimeInv, NEW i \in Slots,
         \A j \in Slots : cache[j].active /\ cache[i].expires_at <= cache[j].expires_at
  PROVE  \A j \in Slots : cache[j].active /\ acceptedAt[cache[j].hmac] >= acceptedAt[cache[i].hmac]
<1>1. ASSUME NEW j \in Slots
      PROVE  /\ acceptedAt[cache[j].hmac] \in Nat
             /\ cache[j].expires_at = acceptedAt[cache[j].hmac] + CACHE_TTL_MS
  BY DEF TimeInv, Expiring, TypeOK
<1>2. CACHE_TTL_MS \in Nat
  BY CacheAssumption
<1> QED
  BY <1>1, <1>2

\* addToCache gives up a live entry only when all are, and the one accepted first.
LEMMA EvictsOldest ==
  ASSUME NoWrap, IInv, TimeInv, [Next]_vars, NEW f \in Frames,
         CachedIn(f) # {}, CachedIn(f)' = {}, ~LifetimeOver(f)
  PROVE  \A j \in Slots : cache[j].active /\ acceptedAt[cache[j].hmac] >= acceptedAt[f]
<1>1. PICK i \in Slots : cache[i].active /\ cache[i].hmac = f
  BY DEF CachedIn
<1>2. ~(cache'[i].active /\ cache'[i].hmac = f)
  BY DEF CachedIn
<1>3. cache \in [Slots -> CacheEntries] /\ TypeOK
  BY DEF IInv, TypeOK
<1>4. \A slots : cache' # MarkBroadcasted(slots)
  BY <1>1, <1>2, <1>3 DEF MarkBroadcasted, CacheEntries
<1>5. cache' # cache
  BY <1>1, <1>2
<1>6. \/ DropDuplicate \/ DropExhausted \/ StartForward
      \/ Queue \/ FinishForward
  BY <1>4, <1>5 DEF Next, Tick, Arrival, Hear, OnResult, SendDatagram, Loop, EnterLoop,
                    CancelCovered, StartBurst, KeepBurst, EndBurst, FinishBurst, WifiChange, vars
<1>7. callback.pc # "idle" /\ callback.mac \in Macs
  BY <1>3, <1>6, ActivationType DEF DropDuplicate, DropExhausted, StartForward, Queue,
                                   FinishForward, InCallback
<1>8. ~Expired(cache[i], CallbackNow)
  BY <1>1, <1>3, <1>7, NotYetExpired
<1>9. InCallback =>
        /\ CheckedCache \in [Slots -> CacheEntries]
        /\ CheckedCache[i].active
        /\ \A j \in Slots :
             /\ CheckedCache[j].hmac = cache[j].hmac
             /\ CheckedCache[j].expires_at = cache[j].expires_at
             /\ CheckedCache[j].active => cache[j].active
  BY <1>1, <1>3, <1>8, CheckedCacheTime
<1>10. CASE DropDuplicate \/ DropExhausted \/ StartForward
  BY <1>1, <1>2, <1>9, <1>10 DEF DropDuplicate, DropExhausted, StartForward
<1>11. CASE Queue
  <2>1. PICK jitter \in Jitters :
          cache' = AddToCache(CheckedCache, NextHop(callback.packet), CallbackNow, jitter,
                              callback.mac)
    BY <1>11 DEF Queue
  <2>2. InCallback
    BY <1>11 DEF Queue
  <2>3. ~Expired(CheckedCache[i], CallbackNow)
    BY <1>8, <1>9, <2>2 DEF Expired
  <2>4. cache'[i] # CheckedCache[i]
    BY <1>1, <1>2, <1>9, <2>2
  <2>5. \A j \in Slots :
          CheckedCache[j].active /\ CheckedCache[i].expires_at <= CheckedCache[j].expires_at
    BY <1>9, <2>1, <2>2, <2>3, <2>4, AddToCacheEvicts
  <2>6. \A j \in Slots : cache[j].active /\ cache[i].expires_at <= cache[j].expires_at
    BY <1>9, <2>2, <2>5
  <2> QED
    BY <1>1, <1>3, <2>6, OldestFrame
<1>12. CASE FinishForward
  <2> DEFINE added == AddToCache(cache, callback.packet, CallbackNow, 0, callback.mac)
  <2>1. cache' = MarkForwarded(added)
    BY <1>12 DEF FinishForward
  <2>2. added \in [Slots -> CacheEntries]
    BY <1>3, <1>7, ActivationType, AddToCacheType
  <2>3. CASE added[i] = cache[i]
    <3> HIDE DEF added
    <3>1. /\ cache'[i].hmac = added[i].hmac
          /\ added[i].active /\ ~Expired(added[i], CallbackNow) => cache'[i].active
      BY <1>7, <2>1, <2>2, MarkForwardedTime
    <3> QED
      BY <1>1, <1>2, <1>8, <2>3, <3>1
  <2>4. CASE added[i] # cache[i]
    <3>1. \A j \in Slots : cache[j].active /\ cache[i].expires_at <= cache[j].expires_at
      BY <1>1, <1>3, <1>8, <2>4, AddToCacheEvicts
    <3> QED
      BY <1>1, <1>3, <3>1, OldestFrame
  <2> QED
    BY <2>3, <2>4
<1> QED
  BY <1>6, <1>10, <1>11, <1>12

(***************************************************************************)
(* A frame is forgotten before its lifetime is over only by a cache whose  *)
(* slots are all taken, and none by a frame accepted before it.            *)
(***************************************************************************)
THEOREM EvictsOldestWhenFullHolds == ASSUME NoWrap PROVE Spec => EvictsOldestWhenFull
<1>1. IInv /\ TimeInv /\ [Next]_vars =>
        [\A f \in Frames : CachedIn(f) # {} /\ CachedIn(f)' = {} /\ ~LifetimeOver(f) =>
           \A i \in Slots :
             /\ cache[i].active
             /\ acceptedAt[cache[i].hmac] >= acceptedAt[f]]_vars
  BY EvictsOldest
<1> QED
  BY <1>1, TimeInvariance, PTL DEF Spec, EvictsOldestWhenFull

--------------------------------------------------------------------------------
(***************************************************************************)
(* The burst, when both tasks keep up with the clock: loop waits for the   *)
(* mutex for less than a unit of time, and a burst ends when it is over.   *)
(***************************************************************************)
BurstInv ==
  /\ clock \in 0 .. MAX_CLOCK
  /\ loopReadAt \in 0 .. clock
  /\ loopPc = "waiting" => loopReadAt = clock /\ ~isBroadcasting /\ ~advertising
  /\ isBroadcasting /\ loopPc = "top" => advertising
  /\ advertising =>
       /\ isBroadcasting
       /\ loopPc = "top"
       /\ broadcastEndTime = loopReadAt + BROADCAST_BURST
       /\ clock <= broadcastEndTime

\* No burst is going on when the relay starts.
LEMMA InitBurstInv == Init => BurstInv
BY RelayAssumption DEF Init, BurstInv

\* Every step of a relay that keeps up with the clock ends a burst when it is due.
LEMMA BurstInvKept ==
  ASSUME NoBurstWrap, BurstInv, [PromptNext]_vars
  PROVE  /\ BurstInv'
         /\ advertising' => clock' <= loopReadAt' + BROADCAST_BURST
         /\ advertising /\ ~advertising' => clock = loopReadAt + BROADCAST_BURST
<1> USE DEF BurstInv, loopVars, radioVars
<1>1. /\ UINT32 \in Nat \ {0} /\ MAX_CLOCK \in Nat /\ BROADCAST_BURST \in Nat
      /\ MAX_CLOCK + BROADCAST_BURST < UINT32
  BY CacheAssumption, RelayAssumption DEF NoBurstWrap
<1>2. ASSUME NEW time \in 0 .. MAX_CLOCK
      PROVE  /\ MillisAt(time) = time
             /\ Plus32(time, BROADCAST_BURST) = time + BROADCAST_BURST
  <2>1. \A a \in Nat, b \in Nat \ {0} : a < b => a % b = a
    OBVIOUS
  <2>2. time \in Nat /\ time < UINT32 /\ time + BROADCAST_BURST \in Nat
        /\ time + BROADCAST_BURST < UINT32
    BY <1>1
  <2> QED
    BY <1>1, <2>1, <2>2 DEF MillisAt, Plus32
<1>3. CASE PromptTick
  <2>1. /\ clock' = clock + 1 /\ clock < MAX_CLOCK
        /\ loopPc = "top" /\ (isBroadcasting => ~(Now >= broadcastEndTime))
        /\ UNCHANGED <<loopVars, radioVars>>
    BY <1>3 DEF PromptTick, Tick, LoopIdle, BurstOver
  <2>2. Now = clock
    BY <1>2 DEF Now
  <2> QED
    BY <1>1, <2>1, <2>2
<1>4. CASE Arrival \/ OnResult \/ WifiChange \/ UNCHANGED vars
  <2>1. UNCHANGED <<clock, loopVars, radioVars>>
    BY <1>4 DEF Arrival, Hear, OnResult, DropDuplicate, DropExhausted, Queue, StartForward,
                SendDatagram, FinishForward, WifiChange, vars
  <2> QED
    BY <1>1, <2>1
<1>5. CASE EnterLoop
  BY <1>1, <1>5 DEF EnterLoop
<1>6. CASE CancelCovered
  BY <1>1, <1>6 DEF CancelCovered, InLoop
<1>7. CASE StartBurst
  <2>1. /\ loopReadAt = clock
        /\ broadcastEndTime' = loopReadAt + BROADCAST_BURST
        /\ isBroadcasting' /\ advertising' /\ loopPc' = "top"
        /\ clock' = clock /\ loopReadAt' = loopReadAt
        /\ ~advertising
    BY <1>2, <1>7 DEF StartBurst, InLoop
  <2> QED
    BY <1>1, <2>1
<1>8. CASE KeepBurst
  BY <1>1, <1>8 DEF KeepBurst, vars
<1>9. CASE EndBurst
  <2>1. /\ loopPc' = "ending" /\ ~advertising'
        /\ UNCHANGED <<clock, loopReadAt>>
        /\ advertising /\ clock >= broadcastEndTime
    BY <1>2, <1>9 DEF EndBurst, BurstOver, BackToScanning, Now
  <2> QED
    BY <1>1, <2>1
<1>10. CASE FinishBurst
  <2>1. ~isBroadcasting' /\ loopPc' = "top" /\ loopReadAt' = 0 /\ clock' = clock
        /\ ~advertising /\ ~advertising'
    BY <1>10 DEF FinishBurst
  <2> QED
    BY <1>1, <2>1
<1> QED
  BY <1>3, <1>4, <1>5, <1>6, <1>7, <1>8, <1>9, <1>10 DEF PromptNext, PromptLoop, Loop

(***************************************************************************)
(* The radio advertises for BROADCAST_BURST from the reading of the clock  *)
(* the burst started with, neither longer nor less.                        *)
(***************************************************************************)
THEOREM BurstIsBoundedHolds == ASSUME NoBurstWrap PROVE PromptSpec => BurstIsBounded
<1>1. BurstInv /\ [PromptNext]_vars => BurstInv'
  BY BurstInvKept
<1>2. BurstInv /\ [PromptNext]_vars =>
        [/\ advertising' => clock' <= loopReadAt' + BROADCAST_BURST
         /\ advertising /\ ~advertising' => clock = loopReadAt + BROADCAST_BURST]_vars
  BY BurstInvKept
<1> QED
  BY InitBurstInv, <1>1, <1>2, PTL DEF PromptSpec, BurstIsBounded

--------------------------------------------------------------------------------
(***************************************************************************)
(* The life cycle of a frame.  A relay departs from FrameLifecycle in one  *)
(* way only, the loss of an entry that was not sent (the runs              *)
(* relay_backlog and relay_race show it lost): a relay that keeps its      *)
(* unsent entries implements the life cycle, whatever else happens.        *)
(*                                                                         *)
(* A cache and the frame on the air give each frame its status and its     *)
(* senders; written with both as parameters, what follows holds before and *)
(* after a step.                                                           *)
(***************************************************************************)
Airing == IF isBroadcasting THEN advData.hmac_sig ELSE NoFrame

StatusIn(c, air, frame) ==
  IF air = frame THEN "airing"
  ELSE IF \E i \in Slots : c[i].active /\ c[i].hmac = frame /\ ~c[i].broadcasted THEN "queued"
  ELSE IF Unknown(c, frame) THEN "unknown" ELSE "done"

SendersIn(c, frame) ==
  UNION {c[i].seen_macs : i \in {j \in Slots : c[j].active /\ c[j].hmac = frame}}

\* The refinement mapping of Relay, before and after a step.
LEMMA FrameStatusIs ==
  ASSUME NEW f \in Frames
  PROVE  /\ FrameStatus(f) = StatusIn(cache, Airing, f)
         /\ HeardFrom(f) = SendersIn(cache, f)
         /\ FrameStatus(f)' = StatusIn(cache', Airing', f)
         /\ HeardFrom(f)' = SendersIn(cache', f)
<1>1. NoFrame # f
  BY FramesAssumption
<1>2. FrameStatus(f) = StatusIn(cache, Airing, f)
  BY <1>1 DEF FrameStatus, OnAir, Queued, CachedIn, StatusIn, Airing, Unknown
<1>3. FrameStatus(f)' = StatusIn(cache', Airing', f)
  BY <1>1 DEF FrameStatus, OnAir, Queued, CachedIn, StatusIn, Airing, Unknown
<1>4. HeardFrom(f) = SendersIn(cache, f) /\ HeardFrom(f)' = SendersIn(cache', f)
  BY DEF HeardFrom, CachedIn, SendersIn
<1> QED
  BY <1>2, <1>3, <1>4

\* The one entry of a frame tells its status and its senders.
LEMMA EntryStatus ==
  ASSUME NEW c, Unique(c), NEW air, NEW i \in Slots, c[i].active, NEW f, c[i].hmac = f
  PROVE  /\ StatusIn(c, air, f) =
              IF air = f THEN "airing" ELSE IF c[i].broadcasted THEN "done" ELSE "queued"
         /\ SendersIn(c, f) = c[i].seen_macs
<1>1. {j \in Slots : c[j].active /\ c[j].hmac = f} = {i}
  BY DEF Unique
<1>2. SendersIn(c, f) = c[i].seen_macs
  BY <1>1 DEF SendersIn
<1>3. (\E j \in Slots : c[j].active /\ c[j].hmac = f /\ ~c[j].broadcasted) <=> ~c[i].broadcasted
  BY DEF Unique
<1>4. ~Unknown(c, f)
  BY DEF Unknown
<1> QED
  BY <1>2, <1>3, <1>4 DEF StatusIn

\* A frame without an entry has no senders.
LEMMA UnknownStatus ==
  ASSUME NEW c, NEW air, NEW f, Unknown(c, f)
  PROVE  /\ StatusIn(c, air, f) = IF air = f THEN "airing" ELSE "unknown"
         /\ SendersIn(c, f) = {}
<1>1. {j \in Slots : c[j].active /\ c[j].hmac = f} = {}
  BY DEF Unknown
<1> QED
  BY <1>1 DEF StatusIn, SendersIn, Unknown

(***************************************************************************)
(* What may become of a frame in a step that is not about it: nothing, or  *)
(* it is forgotten because it was done.                                    *)
(***************************************************************************)
LeftAlone(c, d, air, frame) ==
  \/ /\ StatusIn(d, air, frame) = StatusIn(c, air, frame)
     /\ SendersIn(d, frame) = SendersIn(c, frame)
  \/ /\ StatusIn(c, air, frame) = "done"
     /\ StatusIn(d, air, frame) = "unknown"
     /\ SendersIn(d, frame) = {}

Forgotten(c, d, air) ==
  {f \in Frames : StatusIn(c, air, f) = "done" /\ StatusIn(d, air, f) = "unknown"}

\* No unsent entry of a cache is missing from the next.
Keeping(c, d) ==
  \A i \in Slots : c[i].active /\ ~c[i].broadcasted => d[i].active /\ d[i].hmac = c[i].hmac

\* What is on the air has an unsent entry.
HasUnsent(c, frame) == \E i \in Slots : c[i].active /\ c[i].hmac = frame /\ ~c[i].broadcasted

\* A frame whose entry is kept as it is, or dropped after it was sent, is left alone.
LEMMA EntryLeftAlone ==
  ASSUME NEW c, NEW d, Unique(c), Unique(d), Keeping(c, d), NEW air, NEW f,
         air = f => HasUnsent(c, f),
         \A i \in Slots : d[i].active /\ d[i].hmac = f =>
           /\ c[i].active
           /\ c[i].hmac = f
           /\ d[i].broadcasted = c[i].broadcasted
           /\ d[i].seen_macs = c[i].seen_macs
  PROVE  LeftAlone(c, d, air, f)
<1>1. CASE Unknown(c, f)
  <2>1. Unknown(d, f) /\ air # f
    BY <1>1 DEF Unknown, HasUnsent
  <2> QED
    BY <1>1, <2>1, UnknownStatus DEF LeftAlone
<1>2. CASE ~Unknown(c, f)
  <2>1. PICK i \in Slots : c[i].active /\ c[i].hmac = f
    BY <1>2 DEF Unknown
  <2>2. CASE d[i].active /\ d[i].hmac = f
    <3>1. /\ StatusIn(c, air, f) =
               IF air = f THEN "airing" ELSE IF c[i].broadcasted THEN "done" ELSE "queued"
          /\ SendersIn(c, f) = c[i].seen_macs
      BY <2>1, EntryStatus
    <3>2. /\ StatusIn(d, air, f) =
               IF air = f THEN "airing" ELSE IF d[i].broadcasted THEN "done" ELSE "queued"
          /\ SendersIn(d, f) = d[i].seen_macs
      BY <2>2, EntryStatus
    <3>3. d[i].broadcasted = c[i].broadcasted /\ d[i].seen_macs = c[i].seen_macs
      BY <2>2
    <3> QED
      BY <3>1, <3>2, <3>3 DEF LeftAlone
  <2>3. CASE ~(d[i].active /\ d[i].hmac = f)
    <3>1. c[i].broadcasted
      BY <2>1, <2>3 DEF Keeping
    <3>2. air # f
      BY <2>1, <3>1 DEF HasUnsent, Unique
    <3>3. Unknown(d, f)
      BY <2>1, <2>3 DEF Unknown, Unique
    <3>4. StatusIn(c, air, f) = "done"
      BY <2>1, <3>1, <3>2, EntryStatus
    <3>5. StatusIn(d, air, f) = "unknown"
      BY <3>2, <3>3, UnknownStatus
    <3>6. SendersIn(d, f) = {}
      BY <3>3, UnknownStatus
    <3> QED
      BY <3>4, <3>5, <3>6 DEF LeftAlone
  <2> QED
    BY <2>2, <2>3
<1> QED
  BY <1>1, <1>2

(***************************************************************************)
(* The steps of FrameLifecycle, from what becomes of each frame.           *)
(***************************************************************************)
LEMMA FrameForgotten ==
  ASSUME NEW f \in Frames, LeftAlone(cache, cache', Airing, f), Airing' = Airing
  PROVE  /\ FrameStatus(f)' = IF f \in Forgotten(cache, cache', Airing) THEN "unknown"
                              ELSE FrameStatus(f)
         /\ HeardFrom(f)' = IF f \in Forgotten(cache, cache', Airing) THEN {} ELSE HeardFrom(f)
<1> DEFINE before == StatusIn(cache, Airing, f)
           after == StatusIn(cache', Airing, f)
<1>1. f \in Forgotten(cache, cache', Airing) <=> before = "done" /\ after = "unknown"
  BY DEF Forgotten
<1>2. /\ FrameStatus(f) = before /\ HeardFrom(f) = SendersIn(cache, f)
      /\ FrameStatus(f)' = after /\ HeardFrom(f)' = SendersIn(cache', f)
  BY FrameStatusIs
<1>3. \/ after = before /\ SendersIn(cache', f) = SendersIn(cache, f)
      \/ before = "done" /\ after = "unknown" /\ SendersIn(cache', f) = {}
  BY DEF LeftAlone
<1> HIDE DEF before, after
<1> QED
  BY <1>1, <1>2, <1>3

\* Those forgotten were done.
LEMMA ForgottenWereDone ==
  ASSUME NEW d, NEW f \in Forgotten(cache, d, Airing)
  PROVE  f \in Frames /\ FrameStatus(f) = "done"
BY FrameStatusIs DEF Forgotten

\* A step that leaves every frame alone forgets some.
LEMMA ForgetStep ==
  ASSUME Airing' = Airing, \A f \in Frames : LeftAlone(cache, cache', Airing, f)
  PROVE  Lifecycle!Next
<1> DEFINE frames == Forgotten(cache, cache', Airing)
<1>1. \A f \in Frames :
        /\ FrameStatus(f)' = IF f \in frames THEN "unknown" ELSE FrameStatus(f)
        /\ HeardFrom(f)' = IF f \in frames THEN {} ELSE HeardFrom(f)
  BY FrameForgotten
<1>2. \A f \in frames : f \in Frames /\ FrameStatus(f) = "done"
  BY ForgottenWereDone
<1> HIDE DEF frames
<1>3. Lifecycle!Forget(frames)
  BY <1>1, <1>2 DEF Lifecycle!Forget
<1>4. frames \in SUBSET Frames
  BY <1>2
<1> QED
  BY <1>3, <1>4 DEF Lifecycle!Next

\* A step about one frame that leaves the others alone hears it again.
LEMMA HearAgainStep ==
  ASSUME NEW h \in Frames, NEW mac \in Macs, Airing' = Airing,
         \A f \in Frames \ {h} : LeftAlone(cache, cache', Airing, f),
         FrameStatus(h) # "unknown", FrameStatus(h)' = FrameStatus(h),
         HeardFrom(h)' = HeardFrom(h) \cup {mac}
  PROVE  Lifecycle!Next
<1> DEFINE frames == Forgotten(cache, cache', Airing)
<1>1. \A f \in Frames \ {h} :
        /\ FrameStatus(f)' = IF f \in frames THEN "unknown" ELSE FrameStatus(f)
        /\ HeardFrom(f)' = IF f \in frames THEN {} ELSE HeardFrom(f)
  BY FrameForgotten
<1>2. \A f \in frames : f \in Frames /\ FrameStatus(f) = "done"
  BY ForgottenWereDone
<1>3. h \notin frames
  BY FrameStatusIs DEF Forgotten
<1> HIDE DEF frames
<1>4. Lifecycle!HearAgain(h, mac, frames)
  BY <1>1, <1>2, <1>3 DEF Lifecycle!HearAgain
<1>5. frames \in SUBSET Frames
  BY <1>2
<1> QED
  BY <1>4, <1>5 DEF Lifecycle!Next

\* A frame that was unknown, or done and forgotten, is accepted, and the others are left alone.
LEMMA AcceptStep ==
  ASSUME NEW h \in Frames, NEW mac \in Macs, Airing' = Airing,
         \A f \in Frames \ {h} : LeftAlone(cache, cache', Airing, f),
         FrameStatus(h) \in {"unknown", "done"}, FrameStatus(h)' \in {"queued", "done"},
         HeardFrom(h)' = {mac}
  PROVE  Lifecycle!Next
<1> DEFINE frames == Forgotten(cache, cache', Airing)
           replaced == IF FrameStatus(h) = "done" THEN {h} ELSE {}
           gone == frames \cup replaced
<1>1. \A f \in Frames \ {h} :
        /\ FrameStatus(f)' = IF f \in frames THEN "unknown" ELSE FrameStatus(f)
        /\ HeardFrom(f)' = IF f \in frames THEN {} ELSE HeardFrom(f)
  BY FrameForgotten
<1>2. \A f \in gone : f \in Frames /\ FrameStatus(f) = "done"
  BY ForgottenWereDone
<1>3. \A f \in Frames \ {h} : f \in gone <=> f \in frames
  OBVIOUS
<1>4. FrameStatus(h) = "unknown" \/ h \in gone
  OBVIOUS
<1> HIDE DEF gone, frames
<1>5. Lifecycle!Accept(h, mac, gone)
  BY <1>1, <1>2, <1>3, <1>4 DEF Lifecycle!Accept
<1>6. gone \in SUBSET Frames
  BY <1>2
<1> QED
  BY <1>5, <1>6 DEF Lifecycle!Next

(***************************************************************************)
(* The strengthening, for a relay that keeps its unsent entries: the slot  *)
(* of a burst holds, unsent, the frame whose packet is on the air.         *)
(***************************************************************************)
Named(c) == \A i \in Slots : c[i].active => c[i].hmac \in Frames

BurstSlot(c) ==
  /\ currentBroadcastIndex \in Slots
  /\ c[currentBroadcastIndex].active
  /\ ~c[currentBroadcastIndex].broadcasted
  /\ c[currentBroadcastIndex].hmac = advData.hmac_sig

LifeInv ==
  /\ Named(cache)
  /\ isBroadcasting => BurstSlot(cache)
  /\ loopPc = "waiting" => ~isBroadcasting
  /\ loopPc = "ending" => isBroadcasting

\* A frame on the air has its unsent entry.
LEMMA AiringHasUnsent ==
  ASSUME LifeInv, NEW f \in Frames, Airing = f
  PROVE  HasUnsent(cache, f)
<1>1. isBroadcasting /\ advData.hmac_sig = f
  BY FramesAssumption DEF Airing
<1> QED
  BY <1>1 DEF LifeInv, BurstSlot, HasUnsent

\* Cached frames and the radio before a step of the BLE task, and what it leaves alone.
LEMMA CallbackLeavesRadio ==
  ASSUME OnResult
  PROVE  Airing' = Airing /\ UNCHANGED <<loopVars, advData>>
BY DEF OnResult, DropDuplicate, DropExhausted, Queue, StartForward, SendDatagram, FinishForward,
       Airing, loopVars, radioVars

\* A lookup changes an entry in nothing but its senders, and those of the one it finds.
LEMMA CheckCacheEntry ==
  ASSUME NEW c \in [Slots -> CacheEntries], NEW hmac, NEW now, NEW mac \in Macs,
         NEW d, d = CheckCache(c, hmac, now, mac), NEW i \in Slots
  PROVE  /\ d[i].active => c[i].active
         /\ d[i].hmac = c[i].hmac
         /\ d[i].broadcasted = c[i].broadcasted
         /\ i # Location(c, hmac, now) => d[i].seen_macs = c[i].seen_macs
         /\ i = Location(c, hmac, now) =>
              /\ d[i].active = c[i].active
              /\ d[i].seen_macs \in {c[i].seen_macs, c[i].seen_macs \cup {mac}}
<1>1. i = Location(c, hmac, now) => d[i] = RecordSender(c[i], mac)
  <2>1. i # NotCached /\ ~(i < i)
    BY CacheAssumption DEF Slots, NotCached
  <2> QED
    BY <2>1 DEF CheckCache
<1>2. i # Location(c, hmac, now) => d[i] = Deactivate(c[i]) \/ d[i] = c[i]
  BY DEF CheckCache
<1>3. c[i] \in CacheEntries
  OBVIOUS
<1>4. /\ RecordSender(c[i], mac).active = c[i].active
      /\ RecordSender(c[i], mac).hmac = c[i].hmac
      /\ RecordSender(c[i], mac).broadcasted = c[i].broadcasted
      /\ RecordSender(c[i], mac).seen_macs \in {c[i].seen_macs, c[i].seen_macs \cup {mac}}
  BY <1>3 DEF RecordSender, CacheEntries
<1>5. /\ ~Deactivate(c[i]).active
      /\ Deactivate(c[i]).hmac = c[i].hmac
      /\ Deactivate(c[i]).broadcasted = c[i].broadcasted
      /\ Deactivate(c[i]).seen_macs = c[i].seen_macs
  BY <1>3 DEF Deactivate, CacheEntries
<1> QED
  BY <1>1, <1>2, <1>4, <1>5

\* The cache after the lookup of a callback that has its turn, entry by entry.
LEMMA CheckedCacheEntry ==
  ASSUME TypeOK, InCallback, NEW i \in Slots
  PROVE  /\ CheckedCache[i].active => cache[i].active
         /\ CheckedCache[i].hmac = cache[i].hmac
         /\ CheckedCache[i].broadcasted = cache[i].broadcasted
         /\ i # HeardLocation => CheckedCache[i].seen_macs = cache[i].seen_macs
         /\ i = HeardLocation =>
              /\ CheckedCache[i].active = cache[i].active
              /\ CheckedCache[i].seen_macs
                   \in {cache[i].seen_macs, cache[i].seen_macs \cup {callback.mac}}
<1>1. callback.mac \in Macs /\ cache \in [Slots -> CacheEntries]
  BY ActivationType DEF InCallback, TypeOK
<1> QED
  BY <1>1, CheckCacheEntry DEF CheckedCache, HeardLocation

\* What finds a frame counts its sender, and leaves the other frames alone.
LEMMA DropDuplicateLife ==
  ASSUME IInv, IInv', LifeInv, DropDuplicate, Keeping(cache, cache'), Airing' = Airing
  PROVE  Lifecycle!Next
<1>1. /\ InCallback /\ HeardLocation # NotCached /\ cache' = CheckedCache
      /\ TypeOK /\ Unique(cache) /\ Unique(cache')
  BY DEF DropDuplicate, IInv, CacheInv
<1>2. PICK h \in Frames, mac \in Macs : h = HeardFrame /\ mac = callback.mac
  BY <1>1, ActivationType DEF InCallback, HeardFrame
<1>3. PICK here \in Slots : here = HeardLocation /\ cache[here].active /\ cache[here].hmac = h
  BY <1>1, <1>2, LocationFindsHits DEF HeardLocation, Hits
<1>4. ASSUME NEW f \in Frames \ {h}
      PROVE  LeftAlone(cache, cache', Airing, f)
  <2>1. \A i \in Slots : cache'[i].active /\ cache'[i].hmac = f =>
          /\ cache[i].active
          /\ cache[i].hmac = f
          /\ cache'[i].broadcasted = cache[i].broadcasted
          /\ cache'[i].seen_macs = cache[i].seen_macs
    BY <1>1, <1>3, CheckedCacheEntry
  <2>2. Airing = f => HasUnsent(cache, f)
    BY AiringHasUnsent
  <2> QED
    BY <1>1, <2>1, <2>2, EntryLeftAlone
<1>5. /\ cache'[here].active /\ cache'[here].hmac = h
      /\ cache'[here].broadcasted = cache[here].broadcasted
      /\ cache'[here].seen_macs \in {cache[here].seen_macs, cache[here].seen_macs \cup {mac}}
  BY <1>1, <1>2, <1>3, CheckedCacheEntry
<1>6. /\ StatusIn(cache, Airing, h) =
           IF Airing = h THEN "airing" ELSE IF cache[here].broadcasted THEN "done" ELSE "queued"
      /\ SendersIn(cache, h) = cache[here].seen_macs
  BY <1>1, <1>3, EntryStatus
<1>7. /\ StatusIn(cache', Airing, h) =
           IF Airing = h THEN "airing" ELSE IF cache'[here].broadcasted THEN "done" ELSE "queued"
      /\ SendersIn(cache', h) = cache'[here].seen_macs
  BY <1>1, <1>5, EntryStatus
<1>8. /\ StatusIn(cache', Airing, h) = StatusIn(cache, Airing, h)
      /\ StatusIn(cache, Airing, h) # "unknown"
  BY <1>5, <1>6, <1>7
<1>9. /\ FrameStatus(h)' = FrameStatus(h) /\ FrameStatus(h) # "unknown"
      /\ HeardFrom(h) = cache[here].seen_macs /\ HeardFrom(h)' = cache'[here].seen_macs
  BY <1>6, <1>7, <1>8, FrameStatusIs
<1>10. CASE cache'[here].seen_macs = cache[here].seen_macs
  <2>1. LeftAlone(cache, cache', Airing, h)
    BY <1>6, <1>7, <1>8, <1>10 DEF LeftAlone
  <2> QED
    BY <1>4, <2>1, ForgetStep
<1>11. CASE cache'[here].seen_macs = cache[here].seen_macs \cup {mac}
  <2>1. HeardFrom(h)' = HeardFrom(h) \cup {mac}
    BY <1>9, <1>11
  <2> QED
    BY <1>4, <1>9, <2>1, HearAgainStep
<1> QED
  BY <1>5, <1>10, <1>11

\* A lookup that finds nothing leaves every frame alone.
LEMMA NothingFoundLife ==
  ASSUME IInv, IInv', LifeInv, InCallback, HeardLocation = NotCached, cache' = CheckedCache,
         Keeping(cache, cache'), Airing' = Airing
  PROVE  Lifecycle!Next
<1>1. TypeOK /\ Unique(cache) /\ Unique(cache')
  BY DEF IInv, CacheInv
<1>2. \A i \in Slots : i # HeardLocation
  BY CacheAssumption DEF Slots, NotCached
<1>3. ASSUME NEW f \in Frames
      PROVE  LeftAlone(cache, cache', Airing, f)
  <2>1. \A i \in Slots : cache'[i].active /\ cache'[i].hmac = f =>
          /\ cache[i].active
          /\ cache[i].hmac = f
          /\ cache'[i].broadcasted = cache[i].broadcasted
          /\ cache'[i].seen_macs = cache[i].seen_macs
    BY <1>1, <1>2, CheckedCacheEntry
  <2>2. Airing = f => HasUnsent(cache, f)
    BY AiringHasUnsent
  <2> QED
    BY <1>1, <2>1, <2>2, EntryLeftAlone
<1> QED
  BY <1>3, ForgetStep

\* A new entry is written to one slot of the table.
LEMMA AddToCacheAdds ==
  ASSUME NEW c \in [Slots -> CacheEntries], NEW packet, NEW now, NEW jitter, NEW mac
  PROVE  \E i \in Slots :
           AddToCache(c, packet, now, jitter, mac)[i] = NewEntry(packet, now, jitter, mac)
<1>1. FreeSlots(c, now) \subseteq Slots /\ OldestSlots(c) \subseteq Slots
  BY DEF FreeSlots, OldestSlots
<1>2. TargetSlot(c, now) \in Slots
  BY <1>1, MinIsLeast, OldestExists DEF TargetSlot
<1> QED
  BY <1>2 DEF AddToCache

\* A frame that is queued, having been unknown or forgotten, begins its life
\* cycle; one that is replaced by itself before it was sent goes on with it.
LEMMA QueueLife ==
  ASSUME IInv, IInv', LifeInv, Queue, UnsentStays, Airing' = Airing
  PROVE  Lifecycle!Next
<1>1. /\ InCallback /\ HeardLocation = NotCached
      /\ TypeOK /\ Unique(cache) /\ Unique(cache') /\ Keeping(cache, cache')
      /\ Ttl(callback.packet.flags) > 1
  BY DEF Queue, IInv, CacheInv, UnsentStays, Keeping
<1>2. PICK h \in Frames, mac \in Macs, now \in Millis, next \in Packets :
        /\ h = HeardFrame /\ mac = callback.mac /\ now = CallbackNow
        /\ next = NextHop(callback.packet) /\ next.hmac_sig = h
  BY <1>1, ActivationType, NextHopType DEF InCallback, HeardFrame
<1>3. PICK jitter \in Jitters : cache' = AddToCache(CheckedCache, next, now, jitter, mac)
  BY <1>2 DEF Queue
<1>4. /\ CheckedCache \in [Slots -> CacheEntries]
      /\ \A i \in Slots : Counted(CheckedCache[i])
      /\ Unique(CheckedCache)
      /\ Unknown(CheckedCache, h)
  BY <1>1, <1>2, CheckedCacheKeeps DEF IInv
<1> DEFINE new == NewEntry(next, now, jitter, mac)
<1>5. \A i \in Slots : cache'[i].active =>
        cache'[i] = IF cache'[i].hmac = h THEN new ELSE CheckedCache[i]
  BY <1>2, <1>3, <1>4, AddToCacheKeeps
<1>6. PICK i \in Slots : cache'[i] = new
  BY <1>3, <1>4, AddToCacheAdds
<1>7. new.active /\ new.hmac = h /\ ~new.broadcasted /\ new.seen_macs = {mac}
  BY <1>2 DEF NewEntry
<1> HIDE DEF new
<1>8. \A j \in Slots : j # HeardLocation
  BY <1>1, CacheAssumption DEF Slots, NotCached
<1>9. ASSUME NEW f \in Frames \ {h}
      PROVE  LeftAlone(cache, cache', Airing, f)
  <2>1. \A j \in Slots : cache'[j].active /\ cache'[j].hmac = f =>
          /\ cache[j].active
          /\ cache[j].hmac = f
          /\ cache'[j].broadcasted = cache[j].broadcasted
          /\ cache'[j].seen_macs = cache[j].seen_macs
    BY <1>1, <1>5, <1>8, CheckedCacheEntry
  <2>2. Airing = f => HasUnsent(cache, f)
    BY AiringHasUnsent
  <2> QED
    BY <1>1, <2>1, <2>2, EntryLeftAlone
<1>10. /\ StatusIn(cache', Airing, h) = IF Airing = h THEN "airing" ELSE "queued"
       /\ SendersIn(cache', h) = {mac}
  <2>1. cache'[i].active /\ cache'[i].hmac = h /\ ~cache'[i].broadcasted /\ cache'[i].seen_macs = {mac}
    BY <1>6, <1>7
  <2> QED
    BY <1>1, <2>1, EntryStatus
<1>11. CASE HasUnsent(cache, h)
  <2>1. PICK j \in Slots : cache[j].active /\ cache[j].hmac = h /\ ~cache[j].broadcasted
    BY <1>11 DEF HasUnsent
  <2>2. cache[j].seen_macs \subseteq {mac}
    <3>1. /\ cache'[j].active /\ cache'[j].hmac = h
          /\ cache[j].seen_macs \subseteq cache'[j].seen_macs
      BY <2>1 DEF UnsentStays
    <3> QED
      BY <1>5, <1>7, <3>1
  <2>3. cache[j].seen_macs # {}
    <3>1. Counted(cache[j])
      BY DEF IInv, CacheInv
    <3>2. Cardinality({}) = 0
      BY FS_EmptySet
    <3> QED
      BY <2>1, <3>1, <3>2 DEF Counted
  <2>4. /\ StatusIn(cache, Airing, h) = IF Airing = h THEN "airing" ELSE "queued"
        /\ SendersIn(cache, h) = {mac}
    BY <1>1, <2>1, <2>2, <2>3, EntryStatus
  <2>5. LeftAlone(cache, cache', Airing, h)
    BY <1>10, <2>4 DEF LeftAlone
  <2> QED
    BY <1>9, <2>5, ForgetStep
<1>12. CASE ~HasUnsent(cache, h)
  <2>1. Airing # h
    BY <1>12, AiringHasUnsent
  <2>2. StatusIn(cache, Airing, h) \in {"unknown", "done"}
    BY <1>12, <2>1 DEF StatusIn, HasUnsent
  <2>3. FrameStatus(h) \in {"unknown", "done"} /\ FrameStatus(h)' = "queued" /\ HeardFrom(h)' = {mac}
    BY <1>10, <2>1, <2>2, FrameStatusIs
  <2> QED
    BY <1>9, <2>3, AcceptStep
<1> QED
  BY <1>11, <1>12

\* The end of forwarding, entry by entry: the new one is found and marked, or
\* purged already, and the others are as they were or gone.
LEMMA FinishForwardEntries ==
  ASSUME IInv, FinishForward
  PROVE  /\ \A j \in Slots : cache'[j].active /\ cache'[j].hmac # HeardFrame =>
              /\ cache[j].active
              /\ cache[j].hmac = cache'[j].hmac
              /\ cache'[j].broadcasted = cache[j].broadcasted
              /\ cache'[j].seen_macs = cache[j].seen_macs
         /\ \/ Unknown(cache', HeardFrame)
            \/ \E i \in Slots : /\ cache'[i].active /\ cache'[i].hmac = HeardFrame
                                /\ cache'[i].broadcasted /\ cache'[i].seen_macs = {callback.mac}
<1>1. /\ TypeOK /\ Unique(cache) /\ Unknown(cache, HeardFrame)
      /\ cache \in [Slots -> CacheEntries]
      /\ \A i \in Slots : Counted(cache[i])
  BY DEF FinishForward, IInv, CacheInv, TypeOK
<1>2. /\ callback.packet \in Packets /\ callback.packet.hmac_sig = HeardFrame
      /\ callback.mac \in Macs /\ CallbackNow \in Millis
  BY <1>1, ActivationType DEF FinishForward, HeardFrame
<1> DEFINE added == AddToCache(cache, callback.packet, CallbackNow, 0, callback.mac)
           new == NewEntry(callback.packet, CallbackNow, 0, callback.mac)
           checked == CheckCache(added, HeardFrame, CallbackNow, callback.mac)
           newLoc == Location(added, HeardFrame, CallbackNow)
<1>3. /\ Unique(added) /\ \A i \in Slots : Counted(added[i])
      /\ \A i \in Slots : added[i].active =>
           added[i] = IF added[i].hmac = HeardFrame THEN new ELSE cache[i]
  BY <1>1, <1>2, AddToCacheKeeps
<1>4. added \in [Slots -> CacheEntries]
  BY <1>1, <1>2, AddToCacheType
<1>5. new.hmac = HeardFrame /\ new.seen_macs = {callback.mac}
  BY <1>2 DEF NewEntry
<1>6. cache' = IF newLoc = NotCached THEN checked
               ELSE [checked EXCEPT ![newLoc].broadcasted = TRUE]
  BY DEF FinishForward, MarkForwarded
<1> HIDE DEF added, new
<1>7. checked \in [Slots -> CacheEntries]
  BY <1>2, <1>4, CheckCacheType
<1>8. \A j \in Slots :
        /\ checked[j].active => added[j].active
        /\ checked[j].hmac = added[j].hmac
        /\ checked[j].broadcasted = added[j].broadcasted
        /\ j # newLoc => checked[j].seen_macs = added[j].seen_macs
        /\ j = newLoc =>
             /\ checked[j].active = added[j].active
             /\ checked[j].seen_macs \in {added[j].seen_macs, added[j].seen_macs \cup {callback.mac}}
  BY <1>2, <1>4, CheckCacheEntry
<1>9. newLoc = NotCached => Unknown(checked, HeardFrame)
  BY <1>2, <1>3, <1>4, CheckCacheKeeps
<1>10. newLoc # NotCached =>
         newLoc \in Slots /\ added[newLoc].active /\ added[newLoc].hmac = HeardFrame
  BY LocationFindsHits DEF Hits
<1> HIDE DEF checked, newLoc
<1>11. ASSUME NEW j \in Slots
       PROVE  /\ cache'[j].active = checked[j].active
              /\ cache'[j].hmac = checked[j].hmac
              /\ cache'[j].seen_macs = checked[j].seen_macs
              /\ IF newLoc # NotCached /\ j = newLoc THEN cache'[j].broadcasted
                 ELSE cache'[j].broadcasted = checked[j].broadcasted
  BY <1>6, <1>7, <1>10 DEF CacheEntries
<1>12. ASSUME NEW j \in Slots, cache'[j].active, cache'[j].hmac # HeardFrame
       PROVE  /\ cache[j].active
              /\ cache[j].hmac = cache'[j].hmac
              /\ cache'[j].broadcasted = cache[j].broadcasted
              /\ cache'[j].seen_macs = cache[j].seen_macs
  <2>1. added[j].active /\ added[j].hmac = cache'[j].hmac
    BY <1>8, <1>11, <1>12
  <2>2. j # newLoc
    <3>1. newLoc \in Slots => newLoc # NotCached
      BY CacheAssumption DEF Slots, NotCached
    <3> QED
      BY <1>10, <1>12, <2>1, <3>1
  <2>3. cache'[j].broadcasted = added[j].broadcasted /\ cache'[j].seen_macs = added[j].seen_macs
    BY <1>8, <1>11, <2>2
  <2>4. added[j] = cache[j]
    BY <1>3, <1>12, <2>1
  <2> QED
    BY <2>1, <2>3, <2>4
<1>13. CASE newLoc = NotCached
  BY <1>6, <1>9, <1>12, <1>13
<1>14. CASE newLoc # NotCached
  <2>1. added[newLoc].seen_macs = {callback.mac}
    BY <1>3, <1>5, <1>10, <1>14
  <2>2. /\ cache'[newLoc].active /\ cache'[newLoc].hmac = HeardFrame
        /\ cache'[newLoc].broadcasted /\ cache'[newLoc].seen_macs = {callback.mac}
    BY <1>8, <1>10, <1>11, <1>14, <2>1
  <2> QED
    BY <1>10, <1>12, <1>14, <2>2
<1> QED
  BY <1>13, <1>14

\* A frame that was sent upstream is done at once, unless it expired meanwhile.
LEMMA FinishForwardLife ==
  ASSUME IInv, IInv', LifeInv, FinishForward, Keeping(cache, cache'), Airing' = Airing
  PROVE  Lifecycle!Next
<1>1. /\ TypeOK /\ Unique(cache) /\ Unique(cache') /\ callback.pc # "idle"
      /\ Unknown(cache, HeardFrame)
  BY DEF FinishForward, IInv, CacheInv
<1>2. PICK h \in Frames, mac \in Macs : h = HeardFrame /\ mac = callback.mac
  BY <1>1, ActivationType DEF HeardFrame
<1>3. ASSUME NEW f \in Frames \ {h}
      PROVE  LeftAlone(cache, cache', Airing, f)
  <2>1. \A j \in Slots : cache'[j].active /\ cache'[j].hmac = f =>
          /\ cache[j].active
          /\ cache[j].hmac = f
          /\ cache'[j].broadcasted = cache[j].broadcasted
          /\ cache'[j].seen_macs = cache[j].seen_macs
    BY <1>2, FinishForwardEntries
  <2>2. Airing = f => HasUnsent(cache, f)
    BY AiringHasUnsent
  <2> QED
    BY <1>1, <2>1, <2>2, EntryLeftAlone
<1>4. Airing # h
  BY <1>1, <1>2, AiringHasUnsent DEF HasUnsent, Unknown
<1>5. StatusIn(cache, Airing, h) = "unknown" /\ SendersIn(cache, h) = {}
  <2>1. StatusIn(cache, Airing, h) = "unknown"
    BY <1>1, <1>2, <1>4, UnknownStatus
  <2>2. SendersIn(cache, h) = {}
    BY <1>1, <1>2, UnknownStatus
  <2> QED
    BY <2>1, <2>2
<1>6. CASE Unknown(cache', h)
  <2>1. StatusIn(cache', Airing, h) = "unknown"
    BY <1>4, <1>6, UnknownStatus
  <2>2. SendersIn(cache', h) = {}
    BY <1>6, UnknownStatus
  <2>3. LeftAlone(cache, cache', Airing, h)
    BY <1>5, <2>1, <2>2 DEF LeftAlone
  <2> QED
    BY <1>3, <2>3, ForgetStep
<1>7. CASE ~Unknown(cache', h)
  <2>1. PICK i \in Slots : /\ cache'[i].active /\ cache'[i].hmac = h
                           /\ cache'[i].broadcasted /\ cache'[i].seen_macs = {mac}
    BY <1>2, <1>7, FinishForwardEntries
  <2>2. StatusIn(cache', Airing, h) = "done" /\ SendersIn(cache', h) = {mac}
    BY <1>1, <1>4, <2>1, EntryStatus
  <2>3. FrameStatus(h) = "unknown" /\ FrameStatus(h)' = "done" /\ HeardFrom(h)' = {mac}
    BY <1>5, <2>2, FrameStatusIs
  <2> QED
    BY <1>3, <2>3, AcceptStep
<1> QED
  BY <1>6, <1>7

\* Covered, as FrameLifecycle reads it under the refinement mapping.
LEMMA CoveredIs ==
  ASSUME NEW f \in Frames
  PROVE  Lifecycle!Covered(f) <=> Cardinality(HeardFrom(f)) >= REDUNDANCY
<1>1. ASSUME NEW S
      PROVE  Lifecycle!Cardinality(S) = Cardinality(S)
  BY DEF Lifecycle!Cardinality, Cardinality
<1> QED
  BY <1>1 DEF Lifecycle!Covered

\* What a mark changes of a frame.
LEMMA MarkedFrame ==
  ASSUME TypeOK, Unique(cache), NEW slots, slots \subseteq {i \in Slots : cache[i].active},
         cache' = MarkBroadcasted(slots), NEW air, NEW f, air # f
  PROVE  /\ SendersIn(cache', f) = SendersIn(cache, f)
         /\ StatusIn(cache', air, f) = IF \E i \in slots : cache[i].hmac = f THEN "done"
                                       ELSE StatusIn(cache, air, f)
<1>1. ASSUME NEW i \in Slots
      PROVE  /\ cache'[i].active = cache[i].active
             /\ cache'[i].hmac = cache[i].hmac
             /\ cache'[i].seen_macs = cache[i].seen_macs
             /\ i \in slots => cache'[i].broadcasted
             /\ i \notin slots => cache'[i] = cache[i]
  BY DEF MarkBroadcasted, TypeOK, CacheEntries
<1>2. Unique(cache')
  BY <1>1 DEF Unique
<1>3. CASE Unknown(cache, f)
  <2>1. Unknown(cache', f) /\ ~\E i \in slots : cache[i].hmac = f
    BY <1>1, <1>3 DEF Unknown
  <2>2. SendersIn(cache, f) = {} /\ SendersIn(cache', f) = {}
    BY <1>3, <2>1, UnknownStatus
  <2>3. StatusIn(cache, air, f) = "unknown"
    BY <1>3, UnknownStatus
  <2>4. StatusIn(cache', air, f) = "unknown"
    BY <2>1, UnknownStatus
  <2> QED
    BY <2>1, <2>2, <2>3, <2>4
<1>4. CASE ~Unknown(cache, f)
  <2>1. PICK i \in Slots : cache[i].active /\ cache[i].hmac = f
    BY <1>4 DEF Unknown
  <2>2. cache'[i].active /\ cache'[i].hmac = f /\ cache'[i].seen_macs = cache[i].seen_macs
    BY <1>1, <2>1
  <2>3. (\E j \in slots : cache[j].hmac = f) <=> i \in slots
    BY <2>1 DEF Unique
  <2>4. /\ StatusIn(cache, air, f) = IF cache[i].broadcasted THEN "done" ELSE "queued"
        /\ SendersIn(cache, f) = cache[i].seen_macs
    BY <2>1, EntryStatus
  <2>5. /\ StatusIn(cache', air, f) = IF cache'[i].broadcasted THEN "done" ELSE "queued"
        /\ SendersIn(cache', f) = cache'[i].seen_macs
    BY <1>2, <2>2, EntryStatus
  <2>6. CASE i \in slots
    BY <1>1, <2>2, <2>3, <2>4, <2>5, <2>6
  <2>7. CASE i \notin slots
    BY <1>1, <2>2, <2>3, <2>4, <2>5, <2>7
  <2> QED
    BY <2>6, <2>7
<1> QED
  BY <1>3, <1>4

\* An entry whose turn has come is of a queued frame, and counts its senders.
LEMMA DueFrame ==
  ASSUME IInv, ~isBroadcasting, NEW now, NEW i \in Due(now), NEW f \in Frames, cache[i].hmac = f
  PROVE  /\ FrameStatus(f) = "queued"
         /\ Cardinality(HeardFrom(f)) = cache[i].rx_count
         /\ cache[i].rx_count \in Nat
<1>1. i \in Slots /\ cache[i].active /\ ~cache[i].broadcasted
  BY DEF Due
<1>2. Unique(cache) /\ Counted(cache[i])
  BY <1>1 DEF IInv, CacheInv
<1>3. Airing # f
  BY FramesAssumption DEF Airing
<1>4. StatusIn(cache, Airing, f) = "queued" /\ SendersIn(cache, f) = cache[i].seen_macs
  BY <1>1, <1>2, <1>3, EntryStatus
<1>5. cache[i].rx_count = Cardinality(cache[i].seen_macs) /\ cache[i].rx_count \in Nat
  BY <1>1, <1>2, CacheAssumption DEF Counted
<1> QED
  BY <1>4, <1>5, FrameStatusIs

\* A pass of loop that finds only covered entries cancels their frames.
LEMMA CancelCoveredLife ==
  ASSUME IInv, LifeInv, CancelCovered
  PROVE  Lifecycle!Next
<1> DEFINE due == Due(MillisAt(loopReadAt))
           frames == {f \in Frames : \E i \in due : cache[i].hmac = f}
<1>1. Uncovered(due) = {} /\ ~isBroadcasting /\ ~isBroadcasting'
  BY DEF LifeInv, CancelCovered, InLoop
<1>2. /\ TypeOK /\ Unique(cache) /\ cache' = MarkBroadcasted(due)
      /\ due \subseteq {i \in Slots : cache[i].active}
  BY DEF IInv, CacheInv, CancelCovered, Due
<1>3. Airing = NoFrame /\ Airing' = NoFrame
  BY <1>1 DEF Airing
<1>4. ASSUME NEW f \in frames
      PROVE  f \in Frames /\ FrameStatus(f) = "queued" /\ Lifecycle!Covered(f)
  <2>1. PICK i \in due : cache[i].hmac = f
    OBVIOUS
  <2>2. /\ FrameStatus(f) = "queued"
        /\ Cardinality(HeardFrom(f)) = cache[i].rx_count
        /\ cache[i].rx_count \in Nat
    BY <1>1, <2>1, DueFrame
  <2>3. ~(cache[i].rx_count < REDUNDANCY)
    BY <1>1 DEF Uncovered
  <2>4. REDUNDANCY \in Nat
    BY RelayAssumption, CacheAssumption
  <2> QED
    BY <2>2, <2>3, <2>4, CoveredIs
<1> HIDE DEF due, frames
<1>5. ASSUME NEW f \in Frames
      PROVE  /\ FrameStatus(f)' = IF f \in frames THEN "done" ELSE FrameStatus(f)
             /\ HeardFrom(f)' = HeardFrom(f)
  <2>1. NoFrame # f
    BY FramesAssumption
  <2>2. /\ SendersIn(cache', f) = SendersIn(cache, f)
        /\ StatusIn(cache', NoFrame, f) = IF \E i \in due : cache[i].hmac = f THEN "done"
                                          ELSE StatusIn(cache, NoFrame, f)
    BY <1>2, <2>1, MarkedFrame
  <2>3. f \in frames <=> \E i \in due : cache[i].hmac = f
    BY DEF frames
  <2>4. /\ FrameStatus(f) = StatusIn(cache, NoFrame, f) /\ HeardFrom(f) = SendersIn(cache, f)
        /\ FrameStatus(f)' = StatusIn(cache', NoFrame, f) /\ HeardFrom(f)' = SendersIn(cache', f)
    BY <1>3, FrameStatusIs
  <2> QED
    BY <2>2, <2>3, <2>4
<1>6. frames \in SUBSET Frames
  BY DEF frames
<1>7. Lifecycle!Cancel(frames)
  BY <1>4, <1>5, <1>6 DEF Lifecycle!Cancel
<1> QED
  BY <1>6, <1>7 DEF Lifecycle!Next

\* The entry a burst starts with goes on the air, after the covered ones were cancelled.
LEMMA StartBurstLife ==
  ASSUME IInv, LifeInv, StartBurst
  PROVE  Lifecycle!Next
<1> DEFINE due == Due(MillisAt(loopReadAt))
<1>1. Uncovered(due) # {} /\ Uncovered(due) \subseteq due /\ due \subseteq Slots
  BY DEF StartBurst, Uncovered, Due
<1>2. PICK s \in Uncovered(due) : s = Min(Uncovered(due)) /\ \A i \in Uncovered(due) : s <= i
  BY <1>1, MinIsLeast
<1> DEFINE before == {i \in due : i < s}
<1>3. /\ cache' = MarkBroadcasted(before) /\ advData' = cache[s].packet
      /\ isBroadcasting' /\ ~isBroadcasting
      /\ TypeOK /\ Unique(cache)
  BY <1>2 DEF StartBurst, InLoop, LifeInv, IInv, CacheInv
<1>4. s \in due /\ s \in Slots /\ cache[s].active /\ ~cache[s].broadcasted
      /\ cache[s].rx_count < REDUNDANCY
  BY <1>1, <1>2 DEF Uncovered, Due
<1>5. PICK a \in Frames : a = cache[s].hmac
  BY <1>4 DEF LifeInv, Named
<1>6. Airing = NoFrame /\ Airing' = a
  <2>1. cache[s].packet.hmac_sig = a
    BY <1>4, <1>5 DEF IInv, CacheInv, Sendable, OneHopLess
  <2> QED
    BY <1>3, <2>1 DEF Airing
<1>7. before \subseteq {i \in Slots : cache[i].active} /\ \A i \in before : i \notin Uncovered(due)
  <2>1. \A i \in due : i \in Int /\ cache[i].active
    BY CacheAssumption DEF Due, Slots
  <2> QED
    BY <1>1, <1>2, <2>1
<1> DEFINE frames == {f \in Frames : \E i \in before : cache[i].hmac = f}
<1>8. REDUNDANCY \in Nat
  BY RelayAssumption, CacheAssumption
<1>9. ASSUME NEW f \in frames
      PROVE  f \in Frames /\ FrameStatus(f) = "queued" /\ Lifecycle!Covered(f)
  <2>1. PICK i \in before : cache[i].hmac = f
    OBVIOUS
  <2>2. /\ FrameStatus(f) = "queued"
        /\ Cardinality(HeardFrom(f)) = cache[i].rx_count
        /\ cache[i].rx_count \in Nat
    BY <1>3, <2>1, DueFrame
  <2>3. ~(cache[i].rx_count < REDUNDANCY)
    BY <1>7, <2>1 DEF Uncovered
  <2> QED
    BY <1>8, <2>2, <2>3, CoveredIs
<1>10. FrameStatus(a) = "queued" /\ ~Lifecycle!Covered(a)
  <2>1. /\ FrameStatus(a) = "queued"
        /\ Cardinality(HeardFrom(a)) = cache[s].rx_count
        /\ cache[s].rx_count \in Nat
    BY <1>3, <1>4, <1>5, DueFrame
  <2> QED
    BY <1>4, <1>8, <2>1, CoveredIs
<1>11. \A f \in Frames : FrameStatus(f) # "airing"
  BY <1>3 DEF FrameStatus, OnAir
<1> HIDE DEF due, before
<1>12. ASSUME NEW f \in Frames
       PROVE  /\ FrameStatus(f)' = IF f = a THEN "airing"
                                   ELSE IF f \in frames THEN "done" ELSE FrameStatus(f)
              /\ HeardFrom(f)' = HeardFrom(f)
  <2>1. NoFrame # f
    BY FramesAssumption
  <2>2. /\ SendersIn(cache', f) = SendersIn(cache, f)
        /\ StatusIn(cache', NoFrame, f) = IF \E i \in before : cache[i].hmac = f THEN "done"
                                          ELSE StatusIn(cache, NoFrame, f)
    BY <1>3, <1>7, <2>1, MarkedFrame
  <2>3. f \in frames <=> \E i \in before : cache[i].hmac = f
    OBVIOUS
  <2> HIDE DEF frames
  <2>4. /\ FrameStatus(f) = StatusIn(cache, NoFrame, f) /\ HeardFrom(f) = SendersIn(cache, f)
        /\ FrameStatus(f)' = StatusIn(cache', a, f) /\ HeardFrom(f)' = SendersIn(cache', f)
    BY <1>6, FrameStatusIs
  <2>5. StatusIn(cache', a, f) = IF f = a THEN "airing" ELSE StatusIn(cache', NoFrame, f)
    BY <2>1 DEF StatusIn
  <2> QED
    BY <2>2, <2>3, <2>4, <2>5
<1>13. frames \in SUBSET Frames
  OBVIOUS
<1> HIDE DEF frames
<1>14. Lifecycle!Air(a, frames)
  BY <1>9, <1>10, <1>11, <1>12, <1>13 DEF Lifecycle!Air
<1> QED
  BY <1>13, <1>14 DEF Lifecycle!Next

\* The mark at the end of a burst hits the frame that was on the air.
LEMMA FinishBurstLife ==
  ASSUME IInv, LifeInv, FinishBurst
  PROVE  Lifecycle!Next
<1>1. PICK s \in Slots : s = currentBroadcastIndex
  BY DEF FinishBurst, LifeInv, BurstSlot
<1>2. /\ cache' = MarkBroadcasted({s}) /\ isBroadcasting /\ ~isBroadcasting'
      /\ cache[s].active /\ cache[s].hmac = advData.hmac_sig
      /\ TypeOK /\ Unique(cache)
  BY <1>1 DEF FinishBurst, LifeInv, BurstSlot, IInv, CacheInv
<1>3. PICK a \in Frames : a = cache[s].hmac
  BY <1>2 DEF LifeInv, Named
<1>4. Airing = a /\ Airing' = NoFrame
  BY <1>2, <1>3 DEF Airing
<1>5. ASSUME NEW f \in Frames
      PROVE  /\ FrameStatus(f) = IF f = a THEN "airing" ELSE StatusIn(cache, NoFrame, f)
             /\ FrameStatus(f)' = IF f = a THEN "done" ELSE FrameStatus(f)
             /\ HeardFrom(f)' = HeardFrom(f)
  <2>1. NoFrame # f
    BY FramesAssumption
  <2>2. {s} \subseteq {i \in Slots : cache[i].active}
    BY <1>2
  <2>3. /\ SendersIn(cache', f) = SendersIn(cache, f)
        /\ StatusIn(cache', NoFrame, f) = IF \E i \in {s} : cache[i].hmac = f THEN "done"
                                          ELSE StatusIn(cache, NoFrame, f)
    BY <1>2, <2>1, <2>2, MarkedFrame
  <2>4. (\E i \in {s} : cache[i].hmac = f) <=> f = a
    BY <1>3
  <2>5. /\ FrameStatus(f) = StatusIn(cache, a, f) /\ HeardFrom(f) = SendersIn(cache, f)
        /\ FrameStatus(f)' = StatusIn(cache', NoFrame, f) /\ HeardFrom(f)' = SendersIn(cache', f)
    BY <1>4, FrameStatusIs
  <2>6. StatusIn(cache, a, f) = IF f = a THEN "airing" ELSE StatusIn(cache, NoFrame, f)
    BY <2>1 DEF StatusIn
  <2> QED
    BY <2>3, <2>4, <2>5, <2>6
<1>6. Lifecycle!EndAir(a)
  BY <1>5 DEF Lifecycle!EndAir
<1> QED
  BY <1>6 DEF Lifecycle!Next

(***************************************************************************)
(* The strengthening is inductive as long as unsent entries are kept.      *)
(***************************************************************************)
LEMMA InitLifeInv == Init => LifeInv
<1> SUFFICES ASSUME Init PROVE LifeInv
  OBVIOUS
<1>1. \A i \in Slots : ~cache[i].active
  BY DEF Init, EmptyCache, EmptyEntry
<1>2. ~isBroadcasting /\ loopPc = "top"
  BY DEF Init
<1> QED
  BY <1>1, <1>2 DEF LifeInv, Named

\* A step of the BLE task adds entries of frames only, and marks none that waits.
LEMMA CallbackEntries ==
  ASSUME IInv, Named(cache), OnResult, NEW j \in Slots, cache'[j].active
  PROVE  /\ cache'[j].hmac \in Frames
         /\ cache[j].active /\ ~cache[j].broadcasted /\ cache'[j].hmac = cache[j].hmac =>
              ~cache'[j].broadcasted
<1>1. TypeOK /\ CacheInv /\ Named(cache)
  BY DEF IInv
<1>2. CASE SendDatagram
  BY <1>1, <1>2 DEF SendDatagram, Named
<1>3. CASE DropDuplicate \/ DropExhausted \/ StartForward
  <2>1. InCallback /\ cache' = CheckedCache
    BY <1>3 DEF DropDuplicate, DropExhausted, StartForward
  <2> QED
    BY <1>1, <2>1, CheckedCacheEntry DEF Named
<1>4. CASE Queue
  <2> DEFINE next == NextHop(callback.packet)
  <2>1. /\ InCallback /\ HeardLocation = NotCached
        /\ callback.packet \in Packets /\ callback.mac \in Macs
        /\ HeardFrame = callback.packet.hmac_sig
        /\ next \in Packets /\ next.hmac_sig = HeardFrame /\ HeardFrame \in Frames
    BY <1>1, <1>4, ActivationType, NextHopType DEF Queue, InCallback, HeardFrame
  <2>2. PICK jitter \in Jitters :
          cache' = AddToCache(CheckedCache, next, CallbackNow, jitter, callback.mac)
    BY <1>4 DEF Queue
  <2> HIDE DEF next
  <2>3. /\ CheckedCache \in [Slots -> CacheEntries]
        /\ \A i \in Slots : Counted(CheckedCache[i])
        /\ Unique(CheckedCache)
        /\ Unknown(CheckedCache, HeardFrame)
    BY <1>1, <2>1, CheckedCacheKeeps
  <2>4. cache'[j] = IF cache'[j].hmac = HeardFrame
                    THEN NewEntry(next, CallbackNow, jitter, callback.mac)
                    ELSE CheckedCache[j]
    BY <2>1, <2>2, <2>3, AddToCacheKeeps
  <2>5. ~NewEntry(next, CallbackNow, jitter, callback.mac).broadcasted
    BY DEF NewEntry
  <2>6. /\ CheckedCache[j].active => cache[j].active
        /\ CheckedCache[j].hmac = cache[j].hmac
        /\ CheckedCache[j].broadcasted = cache[j].broadcasted
    BY <1>1, <2>1, CheckedCacheEntry
  <2>7. CASE cache'[j].hmac = HeardFrame
    BY <2>1, <2>4, <2>5, <2>7
  <2>8. CASE cache'[j].hmac # HeardFrame
    BY <1>1, <2>4, <2>6, <2>8 DEF Named
  <2> QED
    BY <2>7, <2>8
<1>5. CASE FinishForward
  <2>1. HeardFrame \in Frames /\ Unknown(cache, HeardFrame)
    BY <1>1, <1>5, ActivationType DEF FinishForward, HeardFrame, CacheInv
  <2>2. CASE cache'[j].hmac = HeardFrame
    BY <2>1, <2>2 DEF Unknown
  <2>3. CASE cache'[j].hmac # HeardFrame
    BY <1>1, <1>5, <2>3, FinishForwardEntries DEF Named
  <2> QED
    BY <2>2, <2>3
<1> QED
  BY <1>2, <1>3, <1>4, <1>5 DEF OnResult

\* A mark leaves the entries in their slots, and those it does not hit unsent.
LEMMA MarkedEntry ==
  ASSUME TypeOK, NEW slots, cache' = MarkBroadcasted(slots), NEW i \in Slots
  PROVE  /\ cache'[i].active = cache[i].active
         /\ cache'[i].hmac = cache[i].hmac
         /\ i \notin slots => cache'[i].broadcasted = cache[i].broadcasted
BY DEF MarkBroadcasted, TypeOK, CacheEntries

\* Every step keeps the slot of a burst occupied by what is on the air.
LEMMA LifeInvKept ==
  ASSUME IInv, LifeInv, [Next]_vars, UnsentStays
  PROVE  LifeInv'
<1>1. CASE Tick \/ Arrival \/ EnterLoop \/ KeepBurst \/ EndBurst \/ WifiChange \/ UNCHANGED vars
  <2>1. /\ cache' = cache /\ advData' = advData
        /\ currentBroadcastIndex' = currentBroadcastIndex
        /\ isBroadcasting' = isBroadcasting
    BY <1>1 DEF Tick, Arrival, Hear, EnterLoop, KeepBurst, EndBurst, WifiChange, vars, loopVars,
                radioVars
  <2>2. /\ loopPc' = "waiting" => loopPc = "waiting" \/ ~isBroadcasting
        /\ loopPc' = "ending" => loopPc = "ending" \/ isBroadcasting
    BY <1>1 DEF Tick, Arrival, Hear, EnterLoop, KeepBurst, EndBurst, WifiChange, vars, loopVars
  <2> QED
    BY <2>1, <2>2 DEF LifeInv, Named, BurstSlot
<1>2. CASE OnResult
  <2>1. UNCHANGED <<loopVars, advData>>
    BY <1>2, CallbackLeavesRadio
  <2>2. Named(cache)'
    BY <1>2, CallbackEntries DEF LifeInv, Named
  <2>3. ASSUME isBroadcasting
        PROVE  BurstSlot(cache)'
    <3>1. PICK s \in Slots : s = currentBroadcastIndex
      BY <2>3 DEF LifeInv, BurstSlot
    <3>2. cache[s].active /\ ~cache[s].broadcasted /\ cache[s].hmac = advData.hmac_sig
      BY <2>3, <3>1 DEF LifeInv, BurstSlot
    <3>3. cache'[s].active /\ cache'[s].hmac = cache[s].hmac
      BY <3>2 DEF UnsentStays
    <3>4. ~cache'[s].broadcasted
      BY <1>2, <3>2, <3>3, CallbackEntries DEF LifeInv
    <3>5. currentBroadcastIndex' = s /\ advData' = advData
      BY <2>1, <3>1 DEF loopVars
    <3> QED
      BY <3>2, <3>3, <3>4, <3>5 DEF BurstSlot
  <2>4. isBroadcasting' = isBroadcasting /\ loopPc' = loopPc
    BY <2>1 DEF loopVars
  <2> QED
    BY <2>2, <2>3, <2>4 DEF LifeInv
<1>3. CASE CancelCovered \/ FinishBurst
  <2>1. /\ \E slots : cache' = MarkBroadcasted(slots)
        /\ loopPc' = "top" /\ ~isBroadcasting'
    BY <1>3 DEF CancelCovered, FinishBurst, InLoop, LifeInv
  <2>2. Named(cache)'
    BY <2>1, MarkedEntry DEF IInv, LifeInv, Named
  <2> QED
    BY <2>1, <2>2 DEF LifeInv
<1>4. CASE StartBurst
  <2> DEFINE due == Due(MillisAt(loopReadAt))
  <2>1. Uncovered(due) # {} /\ Uncovered(due) \subseteq due /\ due \subseteq Slots
    BY <1>4 DEF StartBurst, Uncovered, Due
  <2>2. PICK s \in Uncovered(due) : s = Min(Uncovered(due))
    BY <2>1, MinIsLeast
  <2>3. s \in Slots /\ cache[s].active /\ ~cache[s].broadcasted
    BY <2>1 DEF Due
  <2>4. /\ cache' = MarkBroadcasted({i \in due : i < s})
        /\ currentBroadcastIndex' = s /\ advData' = cache[s].packet
        /\ loopPc' = "top"
    BY <1>4, <2>2 DEF StartBurst
  <2>5. cache[s].packet.hmac_sig = cache[s].hmac
    BY <2>3 DEF IInv, CacheInv, Sendable, OneHopLess
  <2> HIDE DEF due
  <2>6. Named(cache)'
    BY <2>4, MarkedEntry DEF IInv, LifeInv, Named
  <2>7. s \notin {i \in due : i < s}
    BY <2>3, CacheAssumption DEF Slots
  <2>8. cache'[s].active /\ ~cache'[s].broadcasted /\ cache'[s].hmac = cache[s].hmac
    BY <2>3, <2>4, <2>7, MarkedEntry DEF IInv
  <2>9. BurstSlot(cache)'
    BY <2>3, <2>4, <2>5, <2>8 DEF BurstSlot
  <2>10. isBroadcasting'
    BY <1>4 DEF StartBurst
  <2> QED
    BY <2>4, <2>6, <2>9, <2>10 DEF LifeInv
<1> QED
  BY <1>1, <1>2, <1>3, <1>4 DEF Next, Loop

\* Before anything is heard every frame is unknown.
LEMMA InitLife == Init => Lifecycle!Init
<1> SUFFICES ASSUME Init PROVE Lifecycle!Init
  OBVIOUS
<1>1. \A i \in Slots : ~cache[i].active
  BY DEF Init, EmptyCache, EmptyEntry
<1>2. Airing = NoFrame
  BY DEF Init, Airing
<1>3. ASSUME NEW f \in Frames
      PROVE  FrameStatus(f) = "unknown" /\ HeardFrom(f) = {}
  <2>1. Unknown(cache, f)
    BY <1>1 DEF Unknown
  <2>2. Airing # f
    BY <1>2, FramesAssumption
  <2>3. StatusIn(cache, Airing, f) = "unknown"
    BY <2>1, <2>2, UnknownStatus
  <2>4. SendersIn(cache, f) = {}
    BY <2>1, UnknownStatus
  <2> QED
    BY <2>3, <2>4, FrameStatusIs
<1> QED
  BY <1>3 DEF Lifecycle!Init

\* Every step of a relay that keeps its unsent entries is a step of the life cycle, or none.
LEMMA LifeStep ==
  ASSUME IInv, IInv', LifeInv, [Next]_vars, UnsentStays
  PROVE  [Lifecycle!Next]_Lifecycle!vars
<1>1. CASE Tick \/ Arrival \/ SendDatagram \/ EnterLoop \/ KeepBurst \/ EndBurst \/ WifiChange
           \/ UNCHANGED vars
  <2>1. cache' = cache /\ advData' = advData /\ isBroadcasting' = isBroadcasting
    BY <1>1 DEF Tick, Arrival, Hear, SendDatagram, EnterLoop, KeepBurst, EndBurst, WifiChange, vars,
                loopVars, radioVars
  <2>2. ASSUME NEW f \in Frames
        PROVE  FrameStatus(f)' = FrameStatus(f) /\ HeardFrom(f)' = HeardFrom(f)
    BY <2>1, FrameStatusIs DEF Airing
  <2> QED
    BY <2>2 DEF Lifecycle!vars
<1>2. Keeping(cache, cache')
  BY DEF UnsentStays, Keeping
<1>3. OnResult => Airing' = Airing
  BY CallbackLeavesRadio
<1>4. CASE DropDuplicate
  BY <1>2, <1>3, <1>4, DropDuplicateLife DEF OnResult
<1>5. CASE DropExhausted \/ StartForward
  <2>1. InCallback /\ HeardLocation = NotCached /\ cache' = CheckedCache
    BY <1>5 DEF DropExhausted, StartForward
  <2> QED
    BY <1>2, <1>3, <1>5, <2>1, NothingFoundLife DEF OnResult
<1>6. CASE Queue
  BY <1>3, <1>6, QueueLife DEF OnResult
<1>7. CASE FinishForward
  BY <1>2, <1>3, <1>7, FinishForwardLife DEF OnResult
<1> QED
  BY <1>1, <1>4, <1>5, <1>6, <1>7, CancelCoveredLife, StartBurstLife, FinishBurstLife
  DEF Next, OnResult, Loop

(***************************************************************************)
(* A relay that never loses an unsent entry takes every frame through the  *)
(* life cycle of managed flooding: queued when it is new, aired once and   *)
(* alone or cancelled for REDUNDANCY neighbours, then done until it is     *)
(* forgotten.  Old readings of the clock, callbacks during a burst,        *)
(* forwarding, purges, evictions and a clock that wraps change nothing.    *)
(***************************************************************************)
THEOREM UnsentKeptImplementsLifecycle == Spec /\ KeepsUnsent => ImplementsLifecycle
<1>1. Init => LifeInv /\ Lifecycle!Init
  BY InitLifeInv, InitLife
<1>2. IInv /\ LifeInv /\ [Next]_vars /\ [UnsentStays]_vars => LifeInv'
  <2>1. UNCHANGED vars => UnsentStays
    BY DEF vars, UnsentStays
  <2> QED
    BY <2>1, LifeInvKept
<1>3. IInv /\ IInv' /\ LifeInv /\ [Next]_vars /\ [UnsentStays]_vars =>
        [Lifecycle!Next]_Lifecycle!vars
  <2>1. UNCHANGED vars => UnsentStays
    BY DEF vars, UnsentStays
  <2> QED
    BY <2>1, LifeStep
<1> QED
  BY <1>1, <1>2, <1>3, Invariance, PTL
  DEF Spec, KeepsUnsent, ImplementsLifecycle, Lifecycle!Spec

\* A frame that leaves the queue is on the air or covered.
LEMMA LeavesQueue ==
  ASSUME [Lifecycle!Next]_Lifecycle!vars, NEW f \in Frames, Queued(f), ~Queued(f)'
  PROVE  OnAir(f)' \/ Cardinality(HeardFrom(f)) >= REDUNDANCY
<1>1. FrameStatus(f) = "queued"
  BY DEF FrameStatus, Queued
<1>2. FrameStatus(f)' # "queued"
  BY DEF FrameStatus
<1>3. FrameStatus(f)' = "airing" => OnAir(f)'
  BY DEF FrameStatus
<1>4. CASE UNCHANGED Lifecycle!vars
  <2>1. FrameStatus(f)' = FrameStatus(f)
    BY <1>4 DEF Lifecycle!vars
  <2> QED
    BY <1>1, <1>2, <2>1
<1>5. ASSUME NEW frames \in SUBSET Frames, Lifecycle!Forget(frames)
      PROVE  FALSE
  BY <1>1, <1>2, <1>5 DEF Lifecycle!Forget
<1>6. ASSUME NEW frames \in SUBSET Frames, Lifecycle!Cancel(frames)
      PROVE  Lifecycle!Covered(f)
  BY <1>1, <1>2, <1>6 DEF Lifecycle!Cancel
<1>7. ASSUME NEW frames \in SUBSET Frames, NEW frame \in Frames, Lifecycle!Air(frame, frames)
      PROVE  FrameStatus(f)' = "airing" \/ Lifecycle!Covered(f)
  BY <1>1, <1>2, <1>7 DEF Lifecycle!Air
<1>8. ASSUME NEW frames \in SUBSET Frames, NEW frame \in Frames, NEW mac \in Macs,
             Lifecycle!Accept(frame, mac, frames) \/ Lifecycle!HearAgain(frame, mac, frames)
      PROVE  FALSE
  <2>1. CASE Lifecycle!Accept(frame, mac, frames)
    BY <1>1, <1>2, <2>1 DEF Lifecycle!Accept
  <2>2. CASE Lifecycle!HearAgain(frame, mac, frames)
    BY <1>1, <1>2, <2>2 DEF Lifecycle!HearAgain
  <2> QED
    BY <1>8, <2>1, <2>2
<1>9. ASSUME NEW frame \in Frames, Lifecycle!EndAir(frame)
      PROVE  FALSE
  BY <1>1, <1>2, <1>9 DEF Lifecycle!EndAir
<1> QED
  BY <1>3, <1>4, <1>5, <1>6, <1>7, <1>8, <1>9, CoveredIs DEF Lifecycle!Next

(***************************************************************************)
(* The silent loss of a queued frame that relay_backlog shows has no other *)
(* cause than an unsent entry that was purged or evicted.                  *)
(***************************************************************************)
THEOREM UnsentKeptLosesNothing == Spec /\ KeepsUnsent => NoSilentLoss
<1>1. [Lifecycle!Next]_Lifecycle!vars =>
        [\A f \in Frames : Queued(f) /\ ~Queued(f)' =>
           OnAir(f)' \/ Cardinality(HeardFrom(f)) >= REDUNDANCY]_vars
  BY LeavesQueue
<1> QED
  BY <1>1, UnsentKeptImplementsLifecycle, PTL
  DEF ImplementsLifecycle, Lifecycle!Spec, NoSilentLoss

(***************************************************************************)
(* Nor has the mark of relay_race that hits another frame: the slot of a   *)
(* burst is not reused while its entry is kept.                            *)
(***************************************************************************)
THEOREM UnsentKeptMarksAired == Spec /\ KeepsUnsent => MarksWhatWasAired
<1>1. IInv /\ LifeInv /\ [Next]_vars /\ [UnsentStays]_vars => LifeInv'
  <2>1. UNCHANGED vars => UnsentStays
    BY DEF vars, UnsentStays
  <2> QED
    BY <2>1, LifeInvKept
<1>2. IInv /\ LifeInv /\ [Next]_vars =>
        [loopPc = "ending" /\ loopPc' = "top" =>
           \A i \in Slots : cache[i].active /\ ~cache[i].broadcasted /\ cache'[i].broadcasted =>
             cache[i].hmac = advData.hmac_sig]_vars
  <2> SUFFICES ASSUME IInv, LifeInv, [Next]_vars, loopPc = "ending", loopPc' = "top",
                      NEW i \in Slots, ~cache[i].broadcasted, cache'[i].broadcasted
               PROVE  cache[i].hmac = advData.hmac_sig
    OBVIOUS
  <2>1. cache' = MarkBroadcasted({currentBroadcastIndex})
    BY DEF Next, Tick, Arrival, Hear, OnResult, DropDuplicate, DropExhausted, Queue, StartForward,
           SendDatagram, FinishForward, Loop, EnterLoop, CancelCovered, StartBurst, KeepBurst,
           EndBurst, FinishBurst, InLoop, WifiChange, vars, loopVars
  <2>2. i \in {currentBroadcastIndex}
    BY <2>1, MarkedEntry DEF IInv
  <2> QED
    BY <2>2 DEF LifeInv, BurstSlot
<1> QED
  BY InitLifeInv, <1>1, <1>2, Invariance, PTL DEF Spec, KeepsUnsent, MarksWhatWasAired

--------------------------------------------------------------------------------
(***************************************************************************)
(* The counters and the neighbours heard.  An entry has the addresses of   *)
(* neighbours that were heard since, and of all of them until the array is *)
(* full.                                                                   *)
(***************************************************************************)
Tracks(entry, heard) ==
  entry.active =>
    /\ entry.hmac \in Frames
    /\ entry.seen_macs \subseteq heard[entry.hmac]
    /\ entry.rx_count < MAX_TRACKED_MACS => entry.seen_macs = heard[entry.hmac]

HeardInv ==
  /\ heardSince \in [Frames -> SUBSET Macs]
  /\ \A f \in Frames : IsFiniteSet(heardSince[f])
  /\ \A i \in Slots : Tracks(cache[i], heardSince)

\* The history does not stand in the way of the relay.
LEMMA CountedIsRelay == CountedSpec => Spec
<1>1. CountedInit => Init
  BY DEF CountedInit
<1>2. [CountedNext]_countedVars => [Next]_vars
  BY DEF CountedNext, Accepts, HearsAgain, HearsNothing, Next, OnResult, countedVars
<1> QED
  BY <1>1, <1>2, PTL DEF CountedSpec, Spec

\* Nothing is heard of a frame whose entries a step leaves alone or drops.
LEMMA TracksKept ==
  ASSUME NEW entry, NEW old, NEW heard, NEW since, Tracks(old, heard),
         entry.active => /\ old.active
                         /\ entry.hmac = old.hmac
                         /\ entry.seen_macs = old.seen_macs
                         /\ entry.rx_count = old.rx_count
                         /\ since[entry.hmac] = heard[entry.hmac]
  PROVE  Tracks(entry, since)
BY DEF Tracks

\* What was heard of a frame is kept with its entries.
LEMMA HeardOfCachedKeeps ==
  ASSUME NEW heard, heard \in [Frames -> SUBSET Macs], \A f \in Frames : IsFiniteSet(heard[f]),
         heardSince' = HeardOfCached(heard)
  PROVE  /\ heardSince' \in [Frames -> SUBSET Macs]
         /\ \A f \in Frames : IsFiniteSet(heardSince'[f])
         /\ \A i \in Slots : cache'[i].active /\ cache'[i].hmac \in Frames =>
              heardSince'[cache'[i].hmac] = heard[cache'[i].hmac]
<1>1. \A f \in Frames : heardSince'[f] = IF CachedIn(f)' = {} THEN {} ELSE heard[f]
  BY DEF HeardOfCached
<1>2. heardSince' \in [Frames -> SUBSET Macs]
  BY DEF HeardOfCached
<1>3. ASSUME NEW f \in Frames
      PROVE  IsFiniteSet(heardSince'[f])
  BY <1>1, FS_EmptySet
<1>4. ASSUME NEW i \in Slots, cache'[i].active, cache'[i].hmac \in Frames
      PROVE  heardSince'[cache'[i].hmac] = heard[cache'[i].hmac]
  <2>1. i \in CachedIn(cache[i].hmac)'
    BY <1>4 DEF CachedIn
  <2> QED
    BY <1>1, <1>4, <2>1
<1> QED
  BY <1>2, <1>3, <1>4

\* An accepted frame is heard anew, by its new entry if it has one.
LEMMA AcceptsHeard ==
  ASSUME IInv, IInv', HeardInv, Accepts
  PROVE  HeardInv'
<1> DEFINE heard == [heardSince EXCEPT ![HeardFrame] = {callback.mac}]
<1>1. callback.pc # "idle" /\ heardSince' = HeardOfCached(heard)
  BY DEF Accepts, Queue, FinishForward, InCallback
<1>2. HeardFrame \in Frames /\ callback.mac \in Macs /\ IsFiniteSet({callback.mac})
  BY <1>1, ActivationType, FS_Singleton DEF IInv, HeardFrame
<1>3. /\ heard \in [Frames -> SUBSET Macs]
      /\ \A f \in Frames : IsFiniteSet(heard[f])
      /\ heard[HeardFrame] = {callback.mac}
      /\ \A f \in Frames : f # HeardFrame => heard[f] = heardSince[f]
  BY <1>1, <1>2 DEF HeardInv
<1> HIDE DEF heard
<1>0. /\ heardSince' \in [Frames -> SUBSET Macs]
      /\ \A f \in Frames : IsFiniteSet(heardSince'[f])
      /\ \A i \in Slots : cache'[i].active /\ cache'[i].hmac \in Frames =>
           heardSince'[cache'[i].hmac] = heard[cache'[i].hmac]
  BY <1>1, <1>3, HeardOfCachedKeeps
<1>4. ASSUME NEW i \in Slots, cache'[i].active, cache'[i].hmac = HeardFrame
      PROVE  cache'[i].seen_macs = {callback.mac}
  <2>1. CASE Queue
    <3>1. PICK jitter \in Jitters :
            cache' = AddToCache(CheckedCache, NextHop(callback.packet), CallbackNow, jitter,
                                callback.mac)
      BY <2>1 DEF Queue
    <3>2. /\ callback.packet \in Packets /\ Ttl(callback.packet.flags) > 1
          /\ InCallback /\ HeardLocation = NotCached
      BY <1>1, <2>1, ActivationType DEF Queue, IInv
    <3>3. NextHop(callback.packet) \in Packets
          /\ NextHop(callback.packet).hmac_sig = HeardFrame
      BY <3>2, NextHopType DEF HeardFrame
    <3>4. cache'[i] = NewEntry(NextHop(callback.packet), CallbackNow, jitter, callback.mac)
      BY <1>2, <1>4, <3>1, <3>2, <3>3, CheckedCacheKeeps, AddToCacheKeeps DEF IInv
    <3> QED
      BY <3>4 DEF NewEntry
  <2>2. CASE FinishForward
    BY <1>4, <2>2, FinishForwardEntries DEF Unknown, Unique, IInv, CacheInv
  <2> QED
    BY <2>1, <2>2 DEF Accepts
<1>5. ASSUME NEW i \in Slots, cache'[i].active, cache'[i].hmac # HeardFrame
      PROVE  /\ cache[i].active
             /\ cache'[i].hmac = cache[i].hmac
             /\ cache'[i].seen_macs = cache[i].seen_macs
  <2>1. CASE Queue
    <3>1. PICK jitter \in Jitters :
            cache' = AddToCache(CheckedCache, NextHop(callback.packet), CallbackNow, jitter,
                                callback.mac)
      BY <2>1 DEF Queue
    <3>2. /\ callback.packet \in Packets /\ Ttl(callback.packet.flags) > 1
          /\ InCallback /\ HeardLocation = NotCached
      BY <1>1, <2>1, ActivationType DEF Queue, IInv
    <3>3. NextHop(callback.packet) \in Packets
          /\ NextHop(callback.packet).hmac_sig = HeardFrame
      BY <3>2, NextHopType DEF HeardFrame
    <3>4. cache'[i] = CheckedCache[i]
      BY <1>2, <1>5, <3>1, <3>2, <3>3, CheckedCacheKeeps, AddToCacheKeeps DEF IInv
    <3>5. i # HeardLocation
      BY <3>2, CacheAssumption DEF NotCached, Slots
    <3> QED
      BY <1>5, <3>2, <3>4, <3>5, CheckedCacheEntry DEF IInv
  <2>2. CASE FinishForward
    BY <1>5, <2>2, FinishForwardEntries
  <2> QED
    BY <2>1, <2>2 DEF Accepts
<1>6. ASSUME NEW i \in Slots
      PROVE  Tracks(cache'[i], heardSince')
  <2>1. CASE cache'[i].active /\ cache'[i].hmac = HeardFrame
    BY <1>0, <1>2, <1>3, <1>4, <2>1 DEF Tracks
  <2>2. CASE cache'[i].active /\ cache'[i].hmac # HeardFrame
    <3>1. /\ cache[i].active
          /\ cache'[i].hmac = cache[i].hmac
          /\ cache'[i].seen_macs = cache[i].seen_macs
      BY <1>5, <2>2
    <3>2. cache'[i].rx_count = cache[i].rx_count
      BY <2>2, <3>1 DEF IInv, CacheInv, Counted
    <3>3. Tracks(cache[i], heardSince)
      BY DEF HeardInv
    <3>4. cache[i].hmac \in Frames
      BY <3>1, <3>3 DEF Tracks
    <3> QED
      BY <1>0, <1>3, <2>2, <3>1, <3>2, <3>3, <3>4, TracksKept
  <2>3. CASE ~cache'[i].active
    BY <2>3 DEF Tracks
  <2> QED
    BY <2>1, <2>2, <2>3
<1> QED
  BY <1>0, <1>6 DEF HeardInv

\* A copy of a cached frame is of a neighbour the entry has, or takes, or has no room for.
LEMMA HearsAgainHeard ==
  ASSUME IInv, IInv', HeardInv, HearsAgain
  PROVE  HeardInv'
<1> DEFINE heard == [heardSince EXCEPT ![HeardFrame] = @ \cup {callback.mac}]
<1>1. /\ InCallback /\ HeardLocation # NotCached /\ cache' = CheckedCache
      /\ heardSince' = HeardOfCached(heard)
      /\ TypeOK /\ Unique(cache)
  BY DEF HearsAgain, DropDuplicate, IInv, CacheInv
<1>2. HeardFrame \in Frames /\ callback.mac \in Macs
  BY <1>1, ActivationType DEF InCallback, HeardFrame
<1>3. /\ heard \in [Frames -> SUBSET Macs]
      /\ \A f \in Frames : IsFiniteSet(heard[f])
      /\ heard[HeardFrame] = heardSince[HeardFrame] \cup {callback.mac}
      /\ \A f \in Frames : f # HeardFrame => heard[f] = heardSince[f]
  <2>1. IsFiniteSet(heardSince[HeardFrame] \cup {callback.mac})
    BY <1>2, FS_AddElement DEF HeardInv
  <2> QED
    BY <1>2, <2>1 DEF HeardInv
<1> HIDE DEF heard
<1>0. /\ heardSince' \in [Frames -> SUBSET Macs]
      /\ \A f \in Frames : IsFiniteSet(heardSince'[f])
      /\ \A i \in Slots : cache'[i].active /\ cache'[i].hmac \in Frames =>
           heardSince'[cache'[i].hmac] = heard[cache'[i].hmac]
  BY <1>1, <1>3, HeardOfCachedKeeps
<1>4. PICK here \in Slots :
        here = HeardLocation /\ cache[here].active /\ cache[here].hmac = HeardFrame
  BY <1>1, LocationFindsHits DEF HeardLocation, Hits
<1>5. cache'[here] = RecordSender(cache[here], callback.mac)
  <2>1. ~(here < here) /\ here # NotCached
    BY CacheAssumption DEF Slots, NotCached
  <2> QED
    BY <1>1, <1>4, <2>1 DEF CheckedCache, CheckCache, HeardLocation
<1>6. Tracks(cache[here], heardSince) /\ cache[here] \in CacheEntries
  BY <1>1 DEF HeardInv, TypeOK
<1>7. Tracks(cache'[here], heardSince')
  <2>1. CASE callback.mac \notin cache[here].seen_macs /\ cache[here].rx_count < MAX_TRACKED_MACS
    <3>1. /\ cache'[here].hmac = HeardFrame
          /\ cache'[here].seen_macs = cache[here].seen_macs \cup {callback.mac}
      BY <1>4, <1>5, <1>6, <2>1 DEF RecordSender, CacheEntries
    <3>2. cache[here].seen_macs = heardSince[HeardFrame]
      BY <1>4, <1>6, <2>1 DEF Tracks
    <3> QED
      BY <1>0, <1>2, <1>3, <3>1, <3>2 DEF Tracks
  <2>2. CASE callback.mac \in cache[here].seen_macs
    <3>1. cache'[here] = cache[here]
      BY <1>5, <2>2 DEF RecordSender
    <3> QED
      BY <1>0, <1>2, <1>3, <1>4, <1>6, <2>2, <3>1 DEF Tracks
  <2>3. CASE ~(cache[here].rx_count < MAX_TRACKED_MACS)
    <3>1. cache'[here] = cache[here]
      BY <1>5, <2>3 DEF RecordSender
    <3> QED
      BY <1>0, <1>2, <1>3, <1>4, <1>6, <2>3, <3>1 DEF Tracks
  <2> QED
    BY <2>1, <2>2, <2>3
<1>8. ASSUME NEW i \in Slots, i # here
      PROVE  Tracks(cache'[i], heardSince')
  <2>1. Tracks(cache[i], heardSince)
    BY DEF HeardInv
  <2>2. cache'[i].active =>
          /\ cache[i].active
          /\ cache'[i].hmac = cache[i].hmac
          /\ cache'[i].seen_macs = cache[i].seen_macs
    BY <1>1, <1>4, <1>8, CheckedCacheEntry
  <2>3. cache'[i].active => cache'[i].rx_count = cache[i].rx_count
    BY <2>2 DEF IInv, CacheInv, Counted
  <2>4. cache'[i].active => heardSince'[cache'[i].hmac] = heardSince[cache'[i].hmac]
    BY <1>0, <1>1, <1>3, <1>4, <1>8, <2>1, <2>2 DEF Unique, Tracks
  <2> QED
    BY <2>1, <2>2, <2>3, <2>4, TracksKept
<1> QED
  BY <1>0, <1>7, <1>8 DEF HeardInv

\* The other steps hear nothing: they purge, mark or leave the cache as it is.
LEMMA HearsNothingHeard ==
  ASSUME IInv, IInv', HeardInv, HearsNothing \/ UNCHANGED countedVars
  PROVE  HeardInv'
<1>1. /\ heardSince' \in [Frames -> SUBSET Macs]
      /\ \A f \in Frames : IsFiniteSet(heardSince'[f])
      /\ \A i \in Slots : cache'[i].active /\ cache'[i].hmac \in Frames =>
           heardSince'[cache'[i].hmac] = heardSince[cache'[i].hmac]
  <2>1. CASE HearsNothing
    BY <2>1, HeardOfCachedKeeps DEF HeardInv, HearsNothing
  <2>2. CASE UNCHANGED countedVars
    BY <2>2 DEF HeardInv, countedVars
  <2> QED
    BY <2>1, <2>2
<1>2. ASSUME NEW i \in Slots, cache'[i].active
      PROVE  /\ cache[i].active
             /\ cache'[i].hmac = cache[i].hmac
             /\ cache'[i].seen_macs = cache[i].seen_macs
  <2>1. CASE DropExhausted \/ StartForward
    <3>1. InCallback /\ HeardLocation = NotCached /\ cache' = CheckedCache /\ TypeOK
      BY <2>1 DEF DropExhausted, StartForward, IInv
    <3>2. i # HeardLocation
      BY <3>1, CacheAssumption DEF NotCached, Slots
    <3> QED
      BY <1>2, <3>1, <3>2, CheckedCacheEntry
  <2>2. CASE Loop
    <3>1. cache' = cache \/ \E slots : cache' = MarkBroadcasted(slots)
      BY <2>2 DEF Loop, EnterLoop, CancelCovered, StartBurst, KeepBurst, EndBurst, FinishBurst, vars
    <3> QED
      BY <1>2, <3>1 DEF MarkBroadcasted, IInv, TypeOK, CacheEntries
  <2>3. CASE Tick \/ Arrival \/ SendDatagram \/ WifiChange \/ UNCHANGED countedVars
    <3>1. cache' = cache
      BY <2>3 DEF Tick, Arrival, Hear, SendDatagram, WifiChange, countedVars, vars
    <3> QED
      BY <1>2, <3>1
  <2> QED
    BY <2>1, <2>2, <2>3 DEF HearsNothing
<1>3. ASSUME NEW i \in Slots
      PROVE  Tracks(cache'[i], heardSince')
  <2>1. cache'[i].active => cache'[i].rx_count = cache[i].rx_count
    BY <1>2 DEF IInv, CacheInv, Counted
  <2>2. Tracks(cache[i], heardSince)
    BY DEF HeardInv
  <2>3. cache'[i].active => cache'[i].hmac \in Frames
    BY <1>2, <2>2 DEF Tracks
  <2> QED
    BY <1>1, <1>2, <2>1, <2>2, <2>3, TracksKept
<1> QED
  BY <1>1, <1>3 DEF HeardInv

\* What the invariant says of a counter.
LEMMA CountOfHeard ==
  ASSUME IInv, HeardInv
  PROVE  CountsNeighboursHeard
<1> SUFFICES ASSUME NEW i \in Slots, cache[i].active
             PROVE  cache[i].rx_count
                      = Min({Cardinality(heardSince[cache[i].hmac]), MAX_TRACKED_MACS})
  BY DEF CountsNeighboursHeard
<1> DEFINE heard == heardSince[cache[i].hmac]
           seen == cache[i].seen_macs
<1>1. /\ IsFiniteSet(heard) /\ seen \subseteq heard
      /\ cache[i].rx_count < MAX_TRACKED_MACS => seen = heard
  BY DEF HeardInv, Tracks
<1>2. /\ cache[i].rx_count = Cardinality(seen)
      /\ cache[i].rx_count \in 1 .. MAX_TRACKED_MACS
  BY DEF IInv, CacheInv, Counted
<1>3. Cardinality(heard) \in Nat /\ Cardinality(seen) <= Cardinality(heard)
  BY <1>1, FS_Subset, FS_CardinalityType
<1>4. MAX_TRACKED_MACS \in Nat
  BY CacheAssumption
<1>5. ASSUME NEW a \in Nat, NEW b \in Nat
      PROVE  /\ a <= b => Min({a, b}) = a
             /\ b <= a => Min({a, b}) = b
  BY DEF Min
<1> HIDE DEF heard, seen
<1>6. cache[i].rx_count = Min({Cardinality(heard), MAX_TRACKED_MACS})
  <2>1. CASE cache[i].rx_count < MAX_TRACKED_MACS
    BY <1>1, <1>2, <1>3, <1>4, <1>5, <2>1
  <2>2. CASE cache[i].rx_count = MAX_TRACKED_MACS
    BY <1>2, <1>3, <1>4, <1>5, <2>2
  <2> QED
    BY <1>2, <1>4, <2>1, <2>2
<1> QED
  BY <1>6 DEF heard

(***************************************************************************)
(* The counter of an entry is the number of different neighbours that were *)
(* heard since its frame was accepted, up to the size of the array: for    *)
(* any neighbours, in any order, at any width of the clock.                *)
(***************************************************************************)
THEOREM CountsNeighboursHeardHolds == CountedSpec => []CountsNeighboursHeard
<1>1. CountedInit => HeardInv
  <2> SUFFICES ASSUME CountedInit PROVE HeardInv
    OBVIOUS
  <2>1. \A i \in Slots : ~cache[i].active
    BY DEF CountedInit, Init, EmptyCache, EmptyEntry
  <2>2. heardSince = [f \in Frames |-> {}] /\ IsFiniteSet({})
    BY FS_EmptySet DEF CountedInit
  <2> QED
    BY <2>1, <2>2 DEF HeardInv, Tracks
<1>2. IInv /\ IInv' /\ HeardInv /\ [CountedNext]_countedVars => HeardInv'
  BY AcceptsHeard, HearsAgainHeard, HearsNothingHeard DEF CountedNext
<1>3. IInv /\ HeardInv => CountsNeighboursHeard
  BY CountOfHeard
<1>4. CountedSpec => []IInv
  BY CountedIsRelay, Invariance, PTL
<1> QED
  BY <1>1, <1>2, <1>3, <1>4, PTL DEF CountedSpec

--------------------------------------------------------------------------------
(***************************************************************************)
(* What a relay airs, as its neighbours hear it.                           *)
(***************************************************************************)

\* The radio advertises during a burst only, and then a packet of a frame.
AirtimeInv ==
  /\ Named(cache)
  /\ isBroadcasting => advData.hmac_sig \in Frames
  /\ advertising => isBroadcasting
  /\ loopPc = "ending" => ~advertising

LEMMA InitAirtimeInv == Init => AirtimeInv
BY DEF Init, EmptyCache, EmptyEntry, AirtimeInv, Named

LEMMA AirtimeInvKept ==
  ASSUME IInv, AirtimeInv, [Next]_vars
  PROVE  AirtimeInv'
<1>1. CASE Tick \/ Arrival \/ EnterLoop \/ KeepBurst \/ WifiChange \/ UNCHANGED vars
  <2>1. /\ cache' = cache /\ advData' = advData
        /\ isBroadcasting' = isBroadcasting /\ advertising' = advertising
        /\ loopPc' = "ending" => loopPc = "ending"
    BY <1>1 DEF Tick, Arrival, Hear, EnterLoop, KeepBurst, WifiChange, vars, loopVars, radioVars
  <2> QED
    BY <2>1 DEF AirtimeInv, Named
<1>2. CASE OnResult
  <2>1. UNCHANGED <<loopVars, advData, advertising>>
    BY <1>2 DEF OnResult, DropDuplicate, DropExhausted, Queue, StartForward, SendDatagram,
                FinishForward, radioVars
  <2>2. Named(cache)'
    BY <1>2, CallbackEntries DEF AirtimeInv, Named
  <2> QED
    BY <2>1, <2>2 DEF AirtimeInv, loopVars
<1>3. CASE CancelCovered \/ StartBurst \/ FinishBurst
  <2>1. PICK slots : cache' = MarkBroadcasted(slots)
    BY <1>3 DEF CancelCovered, StartBurst, FinishBurst
  <2>2. Named(cache)'
    BY <2>1, MarkedEntry DEF IInv, AirtimeInv, Named
  <2>3. CASE CancelCovered \/ FinishBurst
    BY <2>2, <2>3 DEF CancelCovered, FinishBurst, AirtimeInv, radioVars
  <2>4. CASE StartBurst
    <3> DEFINE uncovered == Uncovered(Due(MillisAt(loopReadAt)))
    <3>0. uncovered # {} /\ uncovered \subseteq Slots
      BY <2>4 DEF StartBurst, Uncovered, Due
    <3>1. PICK slot \in uncovered : slot = Min(uncovered)
      BY <3>0, MinIsLeast
    <3>2. slot \in Slots /\ cache[slot].active /\ ~cache[slot].broadcasted
      BY <3>1 DEF Uncovered, Due
    <3>3. advData' = cache[slot].packet /\ loopPc' = "top" /\ isBroadcasting'
      BY <2>4, <3>1 DEF StartBurst
    <3>4. cache[slot].packet.hmac_sig = cache[slot].hmac
      BY <3>2 DEF IInv, CacheInv, Sendable, OneHopLess
    <3> QED
      BY <2>2, <3>2, <3>3, <3>4 DEF AirtimeInv, Named
  <2> QED
    BY <1>3, <2>3, <2>4
<1>4. CASE EndBurst
  BY <1>4 DEF EndBurst, BackToScanning, AirtimeInv, Named
<1> QED
  BY <1>1, <1>2, <1>3, <1>4 DEF Next, Loop

(***************************************************************************)
(* What StartBurst puts on the air is, to the letter, a packet that Hear   *)
(* takes from a neighbour: the body a victim signed, and a TTL a hop less  *)
(* than one that may be heard, with a hop left.  A mesh of relays keeps    *)
(* the assumption each of them makes of its neighbours.                    *)
(***************************************************************************)
AirsWhatIsHeard ==
  advertising => \E frame \in Frames, ttl \in 1 .. TTL_VALUES - 1 :
                   advData = BuildEmergencyPacket(frame, ttl) /\ ttl + 1 \in ArrivingTtls

LEMMA AirtimeIsHeard ==
  ASSUME IInv, AirtimeInv
  PROVE  AirsWhatIsHeard
<1> SUFFICES ASSUME advertising PROVE AirsWhatIsHeard
  BY DEF AirsWhatIsHeard
<1>1. /\ advData.hmac_sig \in Frames
      /\ VerifyHmac(advData)
      /\ Ttl(advData.flags) > 0 /\ Ttl(advData.flags) + 1 \in ArrivingTtls
      /\ advData \in Packets
  BY DEF IInv, AirInv, AirtimeInv, OneHopLess, TypeOK, Packets
<1>2. PICK flags \in Byte : flags = advData.flags
  BY <1>1 DEF Packets
<1>3. /\ Ttl(flags) \in 1 .. TTL_VALUES - 1
      /\ flags = WithTtl(SignedFlags(advData.hmac_sig), Ttl(flags))
  <2>1. UpperBits(flags) = SignedFlags(advData.hmac_sig)
    BY <1>1, <1>2 DEF VerifyHmac
  <2>2. flags = UpperBits(flags) + Ttl(flags) /\ Ttl(flags) \in 0 .. TTL_VALUES - 1
    BY DEF UpperBits, Ttl, TTL_VALUES, Byte
  <2>3. UpperBits(SignedFlags(advData.hmac_sig)) = SignedFlags(advData.hmac_sig)
    BY DEF UpperBits, SignedFlags, GPS_BIT, TTL_VALUES
  <2> QED
    BY <1>1, <1>2, <2>1, <2>2, <2>3 DEF WithTtl
<1>4. advData = BuildEmergencyPacket(advData.hmac_sig, Ttl(flags))
  BY <1>1, <1>2, <1>3 DEF BuildEmergencyPacket, Packets
<1> QED
  BY <1>1, <1>2, <1>3, <1>4 DEF AirsWhatIsHeard

\* A relay airs nothing that another could not have been told to expect.
THEOREM AirsWhatIsHeardHolds == Spec => []AirsWhatIsHeard
<1>1. Init => IInv /\ AirtimeInv
  BY InitIInv, InitAirtimeInv
<1>2. IInv /\ AirtimeInv /\ [Next]_vars => IInv' /\ AirtimeInv'
  BY IInvKept, AirtimeInvKept
<1>3. IInv /\ AirtimeInv => AirsWhatIsHeard
  BY AirtimeIsHeard
<1> QED
  BY <1>1, <1>2, <1>3, PTL DEF Spec

--------------------------------------------------------------------------------
(***************************************************************************)
(* A relay whose neighbours air one frame at a time, with time between one *)
(* and the next to relay and to forget it.  start is when the first of the *)
(* neighbours began to air the frame, longest the longest jitter.          *)
(***************************************************************************)

\* Nothing was accepted since, and what is left in the cache was sent and has expired.
Unheard(start) ==
  /\ \A f \in Frames : acceptedAt[f] < start
  /\ \A i \in Slots : cache[i].active => cache[i].broadcasted /\ cache[i].expires_at <= start
  /\ ~isBroadcasting
  /\ loopPc = "top"

\* The entry of the frame is the only one.
Alone(start, frame, longest) ==
  /\ acceptedAt[frame] \in start .. clock
  /\ \A f \in Frames \ {frame} : acceptedAt[f] < start
  /\ cache[0].active /\ cache[0].hmac = frame
  /\ cache[0].expires_at = acceptedAt[frame] + CACHE_TTL_MS
  /\ cache[0].broadcast_time \in acceptedAt[frame] .. acceptedAt[frame] + longest
  /\ \A i \in Slots \ {0} : ~cache[i].active

\* It gets its turn when it is due, at once and for one burst, or REDUNDANCY
\* neighbours were heard.
InTurn(start, frame, longest) ==
  /\ ~cache[0].broadcasted /\ ~isBroadcasting => clock <= cache[0].broadcast_time
  /\ isBroadcasting =>
       /\ ~cache[0].broadcasted
       /\ currentBroadcastIndex = 0
       /\ advData.hmac_sig = frame
       /\ loopReadAt \in acceptedAt[frame] .. acceptedAt[frame] + longest
       /\ broadcastEndTime = loopReadAt + BROADCAST_BURST
       /\ clock <= broadcastEndTime
  /\ loopPc = "waiting" =>
       /\ ~isBroadcasting /\ ~cache[0].broadcasted
       /\ loopReadAt = clock /\ cache[0].broadcast_time <= clock
  /\ loopPc = "ending" => isBroadcasting
  /\ cache[0].broadcasted =>
       \/ broadcastEndTime >= start + BROADCAST_BURST
       \/ Cardinality(cache[0].seen_macs) >= REDUNDANCY

\* A callback that waits has just heard the frame.
Hearing(frame) ==
  callback.pc # "idle" =>
    callback.pc = "waiting" /\ callback.readAt = clock /\ HeardFrame = frame

RelaysOne(start, frame, longest) ==
  /\ Hearing(frame)
  /\ Unheard(start) \/ (Alone(start, frame, longest) /\ InTurn(start, frame, longest))

(***************************************************************************)
(* Its timing: a frame gets its turn and is through with it long before    *)
(* its entry expires.                                                      *)
(***************************************************************************)
BurstFits(longest) ==
  /\ NoWrap
  /\ longest \in Nat /\ Jitters \subseteq 0 .. longest
  /\ 0 < BROADCAST_BURST
  /\ longest + BROADCAST_BURST < CACHE_TTL_MS

\* The readings and sums of the clock that such a relay makes do not wrap.
LEMMA SumsFit ==
  ASSUME NEW longest, BurstFits(longest), NEW time \in Nat, time <= MAX_CLOCK
  PROVE  /\ MillisAt(time) = time
         /\ \A length \in 0 .. CACHE_TTL_MS : Plus32(time, length) = time + length
<1>1. \A a \in Nat, b \in Nat \ {0} : a < b => a % b = a
  OBVIOUS
<1>2. UINT32 \in Nat \ {0} /\ CACHE_TTL_MS \in Nat /\ MAX_CLOCK \in Nat
      /\ MAX_CLOCK + CACHE_TTL_MS < UINT32
  BY CacheAssumption, RelayAssumption DEF BurstFits, NoWrap
<1>3. time < UINT32
  BY <1>2
<1>4. ASSUME NEW length \in 0 .. CACHE_TTL_MS
      PROVE  time + length \in Nat /\ time + length < UINT32
  BY <1>2
<1> QED
  BY <1>1, <1>2, <1>3, <1>4 DEF MillisAt, Plus32

\* Time goes on when the relay has nothing to do.
LEMMA OneTicks ==
  ASSUME NEW longest, BurstFits(longest), TypeOK, NEW start \in 0 .. clock, NEW frame \in Frames,
         RelaysOne(start, frame, longest), PromptTick
  PROVE  RelaysOne(start, frame, longest)'
<1>1. /\ clock \in Nat /\ clock <= MAX_CLOCK /\ clock' = clock + 1
      /\ UNCHANGED <<cache, callback, loopVars, advData, acceptedAt>>
  BY RelayAssumption DEF PromptTick, Tick, TypeOK, radioVars
<1>2. Now = clock
  BY <1>1, SumsFit DEF Now
<1>3. /\ loopPc = "top" /\ callback.pc = "idle"
      /\ isBroadcasting => clock < broadcastEndTime
      /\ ~isBroadcasting => Due(clock) = {}
  <2>1. callback.pc = "idle"
    BY DEF PromptTick, RelaysOne, Hearing
  <2>2. broadcastEndTime \in Nat
    BY DEF TypeOK, Millis
  <2> QED
    BY <1>1, <1>2, <2>1, <2>2 DEF PromptTick, LoopIdle, BurstOver
<1>4. Hearing(frame)'
  BY <1>1, <1>3 DEF Hearing
<1>5. CASE Unheard(start)
  BY <1>1, <1>4, <1>5 DEF RelaysOne, Unheard, loopVars
<1>6. CASE Alone(start, frame, longest) /\ InTurn(start, frame, longest)
  <2>1. 0 \in Slots /\ cache[0].active
    BY <1>6, CacheAssumption DEF Alone, Slots
  <2>2. cache[0].broadcast_time \in Nat /\ broadcastEndTime \in Nat
    BY <2>1 DEF TypeOK, CacheEntries, Millis
  <2>3. Alone(start, frame, longest)'
    BY <1>1, <1>6 DEF Alone
  <2>4. ~cache[0].broadcasted /\ ~isBroadcasting => clock + 1 <= cache[0].broadcast_time
    BY <1>1, <1>3, <2>1, <2>2 DEF Due
  <2>5. isBroadcasting => clock + 1 <= broadcastEndTime
    BY <1>1, <1>3, <2>2
  <2>6. InTurn(start, frame, longest)'
    BY <1>1, <1>3, <1>6, <2>4, <2>5 DEF InTurn, loopVars
  <2> QED
    BY <1>4, <2>3, <2>6 DEF RelaysOne
<1> QED
  BY <1>5, <1>6 DEF RelaysOne

\* It hears the frame.
LEMMA OneHears ==
  ASSUME NEW longest, NEW start, NEW frame, RelaysOne(start, frame, longest),
         NEW packet, packet.hmac_sig = frame, NEW mac, Hear(packet, mac)
  PROVE  RelaysOne(start, frame, longest)' /\ callback'.pc = "waiting" /\ callback'.mac = mac
<1>1. /\ callback' = [pc |-> "waiting", packet |-> packet, mac |-> mac, readAt |-> clock]
      /\ UNCHANGED <<clock, cache, loopVars, advData, acceptedAt>>
  BY DEF Hear, radioVars
<1>2. callback'.pc = "waiting" /\ callback'.mac = mac /\ callback'.readAt = clock
      /\ callback'.packet = packet
  BY <1>1
<1>3. Hearing(frame)'
  BY <1>1, <1>2 DEF Hearing, HeardFrame
<1>4. Unheard(start) => Unheard(start)'
  BY <1>1 DEF Unheard, loopVars
<1>5. Alone(start, frame, longest) => Alone(start, frame, longest)'
  BY <1>1 DEF Alone
<1>6. InTurn(start, frame, longest) => InTurn(start, frame, longest)'
  BY <1>1 DEF InTurn, loopVars
<1> QED
  BY <1>2, <1>3, <1>4, <1>5, <1>6 DEF RelaysOne

\* It airs no other frame, from a moment after it accepted it and not for long.
LEMMA OneAirs ==
  ASSUME NEW longest, BurstFits(longest), TypeOK, NEW start \in 0 .. clock, NEW frame \in Frames,
         RelaysOne(start, frame, longest), isBroadcasting
  PROVE  /\ advData.hmac_sig = frame
         /\ acceptedAt[frame] \in start .. clock
         /\ clock <= acceptedAt[frame] + longest + BROADCAST_BURST
         /\ broadcastEndTime >= start + BROADCAST_BURST
<1>1. Alone(start, frame, longest) /\ InTurn(start, frame, longest)
  BY DEF RelaysOne, Unheard
<1>2. acceptedAt[frame] \in Nat /\ clock \in Nat /\ longest \in Nat /\ BROADCAST_BURST \in Nat
  BY <1>1, RelayAssumption DEF Alone, BurstFits, TypeOK
<1>3. /\ loopReadAt \in acceptedAt[frame] .. acceptedAt[frame] + longest
      /\ broadcastEndTime = loopReadAt + BROADCAST_BURST
      /\ clock <= broadcastEndTime
      /\ advData.hmac_sig = frame
      /\ acceptedAt[frame] \in start .. clock
  BY <1>1 DEF Alone, InTurn
<1> QED
  BY <1>2, <1>3

\* A lifetime after it accepted the frame it is through with it.
LEMMA OneForgets ==
  ASSUME NEW longest, BurstFits(longest), TypeOK, NEW start \in 0 .. clock, NEW frame \in Frames,
         RelaysOne(start, frame, longest),
         acceptedAt[frame] >= start => clock >= acceptedAt[frame] + CACHE_TTL_MS,
         start < clock
  PROVE  Unheard(clock)
<1>0. clock \in Nat /\ longest \in Nat /\ BROADCAST_BURST \in Nat /\ CACHE_TTL_MS \in Nat
      /\ longest + BROADCAST_BURST < CACHE_TTL_MS
      /\ \A f \in Frames : acceptedAt[f] \in Nat \cup {-1}
  BY RelayAssumption, CacheAssumption DEF BurstFits, TypeOK
<1>1. CASE Unheard(start)
  <2>1. \A i \in Slots : cache[i].expires_at \in Nat
    BY DEF TypeOK, CacheEntries, Millis
  <2> QED
    BY <1>0, <1>1, <2>1 DEF Unheard
<1>2. CASE Alone(start, frame, longest) /\ InTurn(start, frame, longest)
  <2>1. /\ acceptedAt[frame] \in Nat
        /\ clock >= acceptedAt[frame] + CACHE_TTL_MS
    BY <1>0, <1>2 DEF Alone
  <2>2. ~isBroadcasting
    BY <1>0, <1>2, <2>1, OneAirs
  <2>3. cache[0].broadcasted
    BY <1>0, <1>2, <2>1, <2>2 DEF Alone, InTurn
  <2>4. loopPc = "top"
    BY <1>2, <2>2, <2>3 DEF InTurn, TypeOK
  <2>5. cache[0].expires_at <= clock
    BY <1>2, <2>1 DEF Alone
  <2>6. ASSUME NEW f \in Frames
        PROVE  acceptedAt[f] < clock
    <3>1. CASE f = frame
      BY <1>0, <2>1, <3>1
    <3>2. CASE f # frame
      <4>1. acceptedAt[f] < start /\ acceptedAt[f] \in Int
        BY <1>0, <1>2, <3>2 DEF Alone
      <4> QED
        BY <1>0, <4>1
    <3> QED
      BY <3>1, <3>2
  <2>7. \A i \in Slots : cache[i].active => i = 0
    BY <1>2 DEF Alone
  <2> QED
    BY <2>2, <2>3, <2>4, <2>5, <2>6, <2>7 DEF Unheard
<1> QED
  BY <1>1, <1>2 DEF RelaysOne

\* What a pass of loop does to the senders heard, the acceptances and the burst.
PassOf(start) ==
  /\ cache'[0].seen_macs = cache[0].seen_macs
  /\ UNCHANGED <<clock, callback, acceptedAt>>
  /\ broadcastEndTime' = broadcastEndTime \/ broadcastEndTime' >= start + BROADCAST_BURST

\* A pass of loop takes the frame one step further on its turn.
LEMMA OnePasses ==
  ASSUME NEW longest, BurstFits(longest), IInv, clock <= MAX_CLOCK, NEW start \in 0 .. clock,
         NEW frame \in Frames, RelaysOne(start, frame, longest), PromptLoop
  PROVE  RelaysOne(start, frame, longest)' /\ UnsentStays /\ PassOf(start)
<1>0. /\ TypeOK /\ clock \in Nat /\ 0 \in Slots /\ longest \in Nat /\ BROADCAST_BURST \in Nat
      /\ BROADCAST_BURST \in 0 .. CACHE_TTL_MS /\ MillisAt(clock) = clock /\ Now = clock
  <2>1. TypeOK /\ clock \in Nat /\ 0 \in Slots
    BY CacheAssumption DEF IInv, TypeOK, Slots
  <2>2. /\ longest \in Nat /\ BROADCAST_BURST \in Nat /\ CACHE_TTL_MS \in Nat
        /\ longest + BROADCAST_BURST < CACHE_TTL_MS
    BY CacheAssumption, RelayAssumption DEF BurstFits
  <2>3. MillisAt(clock) = clock /\ Now = clock
    BY <2>1, SumsFit DEF Now
  <2> QED
    BY <2>1, <2>2, <2>3
<1>1. ~Unheard(start)
  BY DEF Unheard, PromptLoop, Due, Loop, EnterLoop, CancelCovered, StartBurst, InLoop, KeepBurst,
         EndBurst, FinishBurst
<1>2. Alone(start, frame, longest) /\ InTurn(start, frame, longest) /\ Hearing(frame)
  BY <1>1 DEF RelaysOne
<1>3. /\ cache[0] \in CacheEntries /\ cache[0].active /\ cache[0].hmac = frame
      /\ cache[0].broadcast_time \in Nat
      /\ acceptedAt[frame] \in start .. clock
      /\ cache[0].broadcast_time \in acceptedAt[frame] .. acceptedAt[frame] + longest
      /\ \A i \in Slots : cache[i].active => i = 0
  BY <1>0, <1>2 DEF Alone, TypeOK, CacheEntries, Millis
<1>4. ASSUME NEW time
      PROVE  Due(time) = IF ~cache[0].broadcasted /\ time >= cache[0].broadcast_time
                         THEN {0} ELSE {}
  BY <1>0, <1>3 DEF Due
<1>5. UNCHANGED <<clock, callback, acceptedAt>>
  BY DEF PromptLoop, Loop, EnterLoop, CancelCovered, StartBurst, KeepBurst, EndBurst, FinishBurst,
         vars
<1>6. Hearing(frame)'
  BY <1>2, <1>5 DEF Hearing, HeardFrame
<1>7. CASE EnterLoop
  <2>1. 0 \in Due(clock)
    BY <1>0, <1>4, <1>7 DEF PromptLoop, EnterLoop
  <2>2. ~cache[0].broadcasted /\ cache[0].broadcast_time <= clock
    BY <1>0, <1>3, <2>1 DEF Due
  <2>3. /\ cache' = cache /\ loopPc' = "waiting" /\ loopReadAt' = clock
        /\ ~isBroadcasting /\ isBroadcasting' = isBroadcasting
        /\ broadcastEndTime' = broadcastEndTime
    BY <1>7 DEF EnterLoop
  <2>4. Alone(start, frame, longest)'
    BY <1>2, <1>5, <2>3 DEF Alone
  <2>5. InTurn(start, frame, longest)'
    BY <1>2, <1>5, <2>2, <2>3 DEF InTurn
  <2> QED
    BY <1>5, <1>6, <2>3, <2>4, <2>5 DEF RelaysOne, UnsentStays, PassOf
<1>8. CASE KeepBurst
  <2>1. /\ UNCHANGED <<cache, loopPc, loopReadAt, isBroadcasting, broadcastEndTime,
                       currentBroadcastIndex, advData>>
    BY <1>8 DEF KeepBurst, vars, loopVars, radioVars
  <2>2. Alone(start, frame, longest)'
    BY <1>2, <1>5, <2>1 DEF Alone
  <2>3. InTurn(start, frame, longest)'
    BY <1>2, <1>5, <2>1 DEF InTurn
  <2> QED
    BY <1>5, <1>6, <2>1, <2>2, <2>3 DEF RelaysOne, UnsentStays, PassOf
<1>9. CASE EndBurst
  <2>1. /\ isBroadcasting /\ loopPc' = "ending"
        /\ UNCHANGED <<cache, loopReadAt, isBroadcasting, broadcastEndTime,
                       currentBroadcastIndex, advData>>
    BY <1>9 DEF EndBurst
  <2>2. Alone(start, frame, longest)'
    BY <1>2, <1>5, <2>1 DEF Alone
  <2>3. InTurn(start, frame, longest)'
    BY <1>2, <1>5, <2>1 DEF InTurn
  <2> QED
    BY <1>5, <1>6, <2>1, <2>2, <2>3 DEF RelaysOne, UnsentStays, PassOf
<1>10. ASSUME NEW slots, cache' = MarkBroadcasted(slots), NEW i \in Slots
       PROVE  /\ cache'[i].active = cache[i].active /\ cache'[i].hmac = cache[i].hmac
              /\ cache'[i].seen_macs = cache[i].seen_macs
              /\ cache'[i].expires_at = cache[i].expires_at
              /\ cache'[i].broadcast_time = cache[i].broadcast_time
              /\ cache'[i].broadcasted = (i \in slots \/ cache[i].broadcasted)
  <2>1. cache[i] \in CacheEntries
    BY <1>0 DEF TypeOK
  <2>2. cache'[i] = IF i \in slots THEN [cache[i] EXCEPT !.broadcasted = TRUE] ELSE cache[i]
    BY <1>10 DEF MarkBroadcasted
  <2> QED
    BY <2>1, <2>2 DEF CacheEntries
<1>11. ASSUME NEW slots, cache' = MarkBroadcasted(slots)
       PROVE  /\ Alone(start, frame, longest)' /\ UnsentStays
              /\ cache'[0].seen_macs = cache[0].seen_macs
              /\ cache'[0].broadcasted = (0 \in slots \/ cache[0].broadcasted)
              /\ cache'[0].broadcast_time = cache[0].broadcast_time
  <2>1. /\ cache'[0].active = cache[0].active /\ cache'[0].hmac = cache[0].hmac
        /\ cache'[0].expires_at = cache[0].expires_at
        /\ cache'[0].broadcast_time = cache[0].broadcast_time
        /\ cache'[0].seen_macs = cache[0].seen_macs
        /\ cache'[0].broadcasted = (0 \in slots \/ cache[0].broadcasted)
    BY <1>0, <1>10, <1>11
  <2>2. \A i \in Slots : cache'[i].active = cache[i].active
    BY <1>10, <1>11
  <2>3. Alone(start, frame, longest)'
    BY <1>2, <1>5, <2>1, <2>2 DEF Alone
  <2>4. UnsentStays
    BY <1>10, <1>11 DEF UnsentStays
  <2> QED
    BY <2>1, <2>3, <2>4
<1>12. CASE CancelCovered
  <2>1. loopPc = "waiting" /\ loopReadAt = clock /\ ~isBroadcasting
        /\ ~cache[0].broadcasted /\ cache[0].broadcast_time <= clock
    BY <1>2, <1>12 DEF CancelCovered, InLoop, InTurn
  <2>2. Due(MillisAt(loopReadAt)) = {0}
    BY <1>0, <1>3, <1>4, <2>1
  <2>3. /\ Uncovered({0}) = {} /\ cache' = MarkBroadcasted({0}) /\ loopPc' = "top"
        /\ isBroadcasting' = isBroadcasting /\ broadcastEndTime' = broadcastEndTime
    BY <1>12, <2>2 DEF CancelCovered
  <2>4. /\ Alone(start, frame, longest)' /\ UnsentStays
        /\ cache'[0].seen_macs = cache[0].seen_macs
        /\ cache'[0].broadcasted
    BY <1>11, <2>3
  <2>5. Cardinality(cache[0].seen_macs) >= REDUNDANCY
    <3>1. Counted(cache[0])
      BY <1>0 DEF IInv, CacheInv
    <3>2. cache[0].rx_count = Cardinality(cache[0].seen_macs) /\ cache[0].rx_count \in Nat
      BY <1>3, <3>1, CacheAssumption DEF Counted
    <3>3. ~(cache[0].rx_count < REDUNDANCY) /\ REDUNDANCY \in Nat
      BY <2>3, RelayAssumption, CacheAssumption DEF Uncovered
    <3> QED
      BY <3>2, <3>3
  <2>6. InTurn(start, frame, longest)'
    BY <2>1, <2>3, <2>4, <2>5 DEF InTurn
  <2> QED
    BY <1>5, <1>6, <2>3, <2>4, <2>6 DEF RelaysOne, PassOf
<1>13. CASE StartBurst
  <2>1. loopPc = "waiting" /\ loopReadAt = clock /\ ~isBroadcasting
        /\ ~cache[0].broadcasted /\ cache[0].broadcast_time <= clock
    BY <1>2, <1>13 DEF StartBurst, InLoop, InTurn
  <2>2. Due(MillisAt(loopReadAt)) = {0}
    BY <1>0, <1>3, <1>4, <2>1
  <2>3. Uncovered({0}) = {0}
    <3>1. Uncovered({0}) # {} /\ Uncovered({0}) \subseteq {0}
      BY <1>13, <2>2 DEF StartBurst, Uncovered
    <3> QED
      BY <3>1
  <2>4. Min({0}) = 0
    BY <1>0, MinIsLeast
  <2>5. /\ cache' = MarkBroadcasted({i \in {0} : i < 0}) /\ advData' = cache[0].packet
        /\ currentBroadcastIndex' = 0 /\ loopPc' = "top" /\ isBroadcasting'
        /\ loopReadAt' = loopReadAt
        /\ broadcastEndTime' = Plus32(MillisAt(loopReadAt), BROADCAST_BURST)
    BY <1>13, <2>2, <2>3, <2>4 DEF StartBurst
  <2>6. 0 \notin {i \in {0} : i < 0}
    OBVIOUS
  <2>7. /\ Alone(start, frame, longest)' /\ UnsentStays
        /\ cache'[0].seen_macs = cache[0].seen_macs
        /\ ~cache'[0].broadcasted
    BY <1>11, <2>1, <2>5, <2>6
  <2>8. broadcastEndTime' = clock + BROADCAST_BURST
    BY <1>0, <2>1, <2>5, SumsFit
  <2>9. advData'.hmac_sig = frame
    <3>1. Sendable(cache[0])
      BY <1>0 DEF IInv, CacheInv
    <3> QED
      BY <1>3, <2>1, <2>5, <3>1 DEF Sendable, OneHopLess
  <2>10. clock <= cache[0].broadcast_time
    BY <1>2, <2>1 DEF InTurn
  <2>11. clock \in acceptedAt[frame] .. acceptedAt[frame] + longest
    BY <1>0, <1>3, <2>10
  <2>12. InTurn(start, frame, longest)'
    BY <1>0, <1>5, <2>1, <2>5, <2>7, <2>8, <2>9, <2>11 DEF InTurn
  <2>13. broadcastEndTime' >= start + BROADCAST_BURST
    BY <1>0, <2>8
  <2> QED
    BY <1>5, <1>6, <2>7, <2>12, <2>13 DEF RelaysOne, PassOf
<1>14. CASE FinishBurst
  <2>1. /\ isBroadcasting /\ currentBroadcastIndex = 0
        /\ broadcastEndTime = loopReadAt + BROADCAST_BURST
        /\ loopReadAt \in acceptedAt[frame] .. acceptedAt[frame] + longest
    BY <1>2, <1>14 DEF InTurn, FinishBurst
  <2>2. /\ cache' = MarkBroadcasted({0}) /\ loopPc' = "top" /\ ~isBroadcasting'
        /\ broadcastEndTime' = broadcastEndTime
    BY <1>14, <2>1 DEF FinishBurst
  <2>3. /\ Alone(start, frame, longest)' /\ UnsentStays
        /\ cache'[0].seen_macs = cache[0].seen_macs
        /\ cache'[0].broadcasted
    BY <1>11, <2>2
  <2>4. broadcastEndTime >= start + BROADCAST_BURST
    BY <1>0, <1>3, <2>1
  <2>5. InTurn(start, frame, longest)'
    BY <2>2, <2>3, <2>4 DEF InTurn
  <2> QED
    BY <1>5, <1>6, <2>2, <2>3, <2>5 DEF RelaysOne, PassOf
<1> QED
  BY <1>7, <1>8, <1>9, <1>12, <1>13, <1>14 DEF PromptLoop, Loop

\* A relay that has not heard of the frame does not find it, and purges the rest.
LEMMA UnheardLookup ==
  ASSUME TypeOK, NEW start \in 0 .. clock, Unheard(start), InCallback, CallbackNow = clock
  PROVE  HeardLocation = NotCached /\ \A i \in Slots : ~CheckedCache[i].active
<1>1. ASSUME NEW i \in Slots, cache[i].active
      PROVE  Expired(cache[i], CallbackNow)
  <2>1. cache[i].expires_at <= start /\ cache[i].expires_at \in Nat /\ clock \in Nat
    BY <1>1 DEF Unheard, TypeOK, CacheEntries, Millis
  <2> QED
    BY <2>1 DEF Expired
<1>2. HeardLocation = NotCached
  <2>1. Hits(cache, HeardFrame, CallbackNow) = {}
    BY <1>1 DEF Hits
  <2> QED
    BY <2>1, LocationFindsHits DEF HeardLocation
<1>3. ASSUME NEW i \in Slots
      PROVE  ~CheckedCache[i].active
  <2>1. i # NotCached /\ cache[i] \in CacheEntries
    BY CacheAssumption DEF Slots, NotCached, TypeOK
  <2>2. CheckedCache[i] =
          IF Expired(cache[i], CallbackNow) THEN Deactivate(cache[i]) ELSE cache[i]
    BY <1>2, <2>1 DEF CheckedCache, CheckCache, HeardLocation
  <2>3. ~Deactivate(cache[i]).active
    BY <2>1 DEF Deactivate, CacheEntries
  <2> QED
    BY <1>1, <2>2, <2>3
<1> QED
  BY <1>2, <1>3

\* One that has accepted it counts one more sender, and nothing else changes.
LEMMA AloneLookup ==
  ASSUME NEW longest, BurstFits(longest), TypeOK, clock <= MAX_CLOCK, NEW start \in 0 .. clock,
         NEW frame \in Frames, Alone(start, frame, longest),
         InCallback, CallbackNow = clock, HeardFrame = frame,
         clock < acceptedAt[frame] + CACHE_TTL_MS
  PROVE  /\ HeardLocation = 0
         /\ CheckedCache[0] = RecordSender(cache[0], callback.mac)
         /\ \A i \in Slots \ {0} : ~CheckedCache[i].active
<1>1. 0 \in Slots /\ 0 # NotCached
  BY CacheAssumption DEF Slots, NotCached
<1>2. Hits(cache, HeardFrame, CallbackNow) = {0}
  <2>1. ~Expired(cache[0], clock)
    <3>1. /\ cache[0].expires_at = acceptedAt[frame] + CACHE_TTL_MS
          /\ acceptedAt[frame] \in Nat /\ CACHE_TTL_MS \in Nat /\ clock \in Nat
      BY CacheAssumption DEF Alone, TypeOK
    <3> QED
      BY <3>1 DEF Expired
  <2> QED
    BY <1>1, <2>1 DEF Alone, Hits
<1>3. HeardLocation = 0
  BY <1>2, LocationFindsHits DEF HeardLocation
<1>4. CheckedCache[0] = RecordSender(cache[0], callback.mac)
  BY <1>1, <1>3 DEF CheckedCache, CheckCache, HeardLocation
<1>5. \A i \in Slots \ {0} : ~CheckedCache[i].active
  BY <1>3, CheckedCacheEntry DEF Alone
<1> QED
  BY <1>3, <1>4, <1>5

\* An entry added to a cache with nothing in it is the only one.
LEMMA AddToEmpty ==
  ASSUME NEW c \in [Slots -> CacheEntries], \A i \in Slots : ~c[i].active,
         NEW packet, NEW now, NEW jitter, NEW mac,
         NEW d, d = AddToCache(c, packet, now, jitter, mac)
  PROVE  /\ d[0] = NewEntry(packet, now, jitter, mac)
         /\ \A i \in Slots \ {0} : ~d[i].active
<1>1. 0 \in Slots /\ \A i \in Slots : 0 <= i /\ i \in Nat
  BY CacheAssumption DEF Slots
<1>2. FreeSlots(c, now) = Slots
  BY DEF FreeSlots
<1>3. TargetSlot(c, now) = 0
  <2>1. Min(Slots) \in Slots /\ Min(Slots) <= 0
    BY <1>1, MinIsLeast
  <2>2. Min(Slots) = 0
    BY <1>1, <2>1
  <2> QED
    BY <1>1, <1>2, <2>2 DEF TargetSlot
<1>4. \A i \in Slots : ~Deactivate(c[i]).active
  BY DEF Deactivate, CacheEntries
<1>5. d[0] = NewEntry(packet, now, jitter, mac)
  BY <1>1, <1>3 DEF AddToCache
<1>6. \A i \in Slots \ {0} : d[i] = Deactivate(c[i])
  BY <1>2, <1>3 DEF AddToCache
<1> QED
  BY <1>4, <1>5, <1>6

\* What a turn of onResult does to the acceptances and the senders heard.
HeardBy(start, frame) ==
  /\ callback' = Idle
  /\ UNCHANGED <<clock, broadcastEndTime>>
  /\ \/ /\ acceptedAt' = acceptedAt
        /\ acceptedAt[frame] >= start =>
             cache'[0].seen_macs \subseteq cache[0].seen_macs \cup {callback.mac}
     \/ /\ acceptedAt[frame] < start
        /\ acceptedAt' = [acceptedAt EXCEPT ![frame] = clock]
        /\ cache'[0].seen_macs = {callback.mac}

\* A turn of onResult accepts the frame, or counts its sender, or drops it.
LEMMA OneHandles ==
  ASSUME NEW longest, BurstFits(longest), IInv, clock <= MAX_CLOCK, NEW start \in 0 .. clock,
         NEW frame \in Frames, RelaysOne(start, frame, longest), wifi = "off", OnResult,
         acceptedAt[frame] >= start => clock < acceptedAt[frame] + CACHE_TTL_MS
  PROVE  RelaysOne(start, frame, longest)' /\ UnsentStays /\ HeardBy(start, frame)
<1>1. /\ callback.pc = "waiting" /\ callback.readAt = clock /\ HeardFrame = frame
      /\ TypeOK /\ clock \in Nat /\ CallbackNow = clock /\ 0 \in Slots
  <2>1. callback.pc # "idle"
    BY DEF OnResult, DropDuplicate, DropExhausted, Queue, StartForward, SendDatagram,
           FinishForward, InCallback
  <2>2. TypeOK /\ clock \in Nat /\ 0 \in Slots
    BY CacheAssumption DEF IInv, TypeOK, Slots
  <2>3. callback.pc = "waiting" /\ callback.readAt = clock /\ HeardFrame = frame
    BY <2>1 DEF RelaysOne, Hearing
  <2> QED
    BY <2>2, <2>3, SumsFit DEF CallbackNow
<1>2. /\ DropDuplicate \/ DropExhausted \/ Queue
      /\ InCallback
      /\ callback' = Idle /\ clock' = clock
      /\ UNCHANGED <<loopVars, advData>>
  BY <1>1 DEF OnResult, DropDuplicate, DropExhausted, Queue, StartForward, SendDatagram,
              FinishForward, InCallback, radioVars
<1>3. Hearing(frame)' /\ UNCHANGED broadcastEndTime
  BY <1>2 DEF Hearing, Idle, loopVars
<1>4. CASE Unheard(start)
  <2>1. HeardLocation = NotCached /\ \A i \in Slots : ~CheckedCache[i].active
    BY <1>1, <1>2, <1>4, UnheardLookup
  <2>2. acceptedAt[frame] < start /\ \A f \in Frames : acceptedAt[f] < start
    BY <1>4 DEF Unheard
  <2>3. UnsentStays
    BY <1>4 DEF Unheard, UnsentStays
  <2>4. CASE DropExhausted
    <3>1. acceptedAt' = acceptedAt /\ \A i \in Slots : ~cache'[i].active
      BY <2>1, <2>4 DEF DropExhausted
    <3>2. Unheard(start)'
      BY <1>2, <1>4, <2>2, <3>1 DEF Unheard, loopVars
    <3>3. ~(acceptedAt[frame] >= start)
      BY <1>1, <2>2 DEF TypeOK
    <3> QED
      BY <1>2, <1>3, <2>3, <3>1, <3>2, <3>3 DEF RelaysOne, HeardBy
  <2>5. CASE Queue
    <3> DEFINE next == NextHop(callback.packet)
    <3>1. next.hmac_sig = frame
      <4>1. callback.packet \in Packets /\ callback.packet.hmac_sig = frame
        BY <1>1, ActivationType DEF HeardFrame
      <4>2. Ttl(callback.packet.flags) > 1
        BY <2>5 DEF Queue
      <4> QED
        BY <4>1, <4>2, NextHopType
    <3>2. PICK jitter \in Jitters :
            cache' = AddToCache(CheckedCache, next, CallbackNow, jitter, callback.mac)
      BY <2>5 DEF Queue
    <3> HIDE DEF next
    <3>3. CheckedCache \in [Slots -> CacheEntries]
      BY <1>1, CheckCacheType, ActivationType DEF CheckedCache, TypeOK
    <3>4. /\ cache'[0] = NewEntry(next, clock, jitter, callback.mac)
          /\ \A i \in Slots \ {0} : ~cache'[i].active
      BY <1>1, <2>1, <3>2, <3>3, AddToEmpty
    <3>5. jitter \in 0 .. longest /\ jitter \in Nat /\ longest \in Nat
      BY RelayAssumption DEF BurstFits
    <3>6. /\ Plus32(clock, CACHE_TTL_MS) = clock + CACHE_TTL_MS
          /\ Plus32(clock, jitter) = clock + jitter
      <4>1. jitter \in 0 .. CACHE_TTL_MS /\ CACHE_TTL_MS \in 0 .. CACHE_TTL_MS
        BY <3>5, RelayAssumption, CacheAssumption DEF BurstFits
      <4> QED
        BY <1>1, <4>1, SumsFit
    <3>7. /\ cache'[0].active /\ cache'[0].hmac = frame /\ ~cache'[0].broadcasted
          /\ cache'[0].expires_at = clock + CACHE_TTL_MS
          /\ cache'[0].broadcast_time = clock + jitter
          /\ cache'[0].seen_macs = {callback.mac}
      BY <3>1, <3>4, <3>6 DEF NewEntry
    <3>8. acceptedAt' = [acceptedAt EXCEPT ![frame] = clock]
      BY <1>1, <2>5 DEF Queue
    <3>9. acceptedAt'[frame] = clock /\ \A f \in Frames \ {frame} : acceptedAt'[f] < start
      BY <1>1, <2>2, <3>8 DEF TypeOK
    <3>10. clock + jitter \in clock .. clock + longest /\ clock <= clock + jitter
           /\ clock \in start .. clock
      BY <1>1, <3>5
    <3>11. Alone(start, frame, longest)'
      BY <1>2, <3>4, <3>7, <3>9, <3>10 DEF Alone
    <3>12. ~isBroadcasting' /\ loopPc' = "top"
      BY <1>2, <1>4 DEF Unheard, loopVars
    <3>13. InTurn(start, frame, longest)'
      BY <1>2, <3>7, <3>10, <3>12 DEF InTurn
    <3> QED
      BY <1>2, <1>3, <2>2, <2>3, <3>7, <3>8, <3>11, <3>13 DEF RelaysOne, HeardBy
  <2>6. ~DropDuplicate
    BY <2>1 DEF DropDuplicate
  <2> QED
    BY <1>2, <2>4, <2>5, <2>6
<1>5. CASE Alone(start, frame, longest) /\ InTurn(start, frame, longest)
  <2>1. acceptedAt[frame] >= start
    BY <1>5 DEF Alone
  <2>2. /\ HeardLocation = 0
        /\ CheckedCache[0] = RecordSender(cache[0], callback.mac)
        /\ \A i \in Slots \ {0} : ~CheckedCache[i].active
    BY <1>1, <1>2, <1>5, <2>1, AloneLookup
  <2>3. cache' = CheckedCache /\ acceptedAt' = acceptedAt
    <3>1. HeardLocation # NotCached
      BY <2>2 DEF NotCached
    <3> QED
      BY <1>2, <3>1 DEF DropDuplicate, DropExhausted, Queue
  <2>4. /\ cache[0] \in CacheEntries /\ Counted(cache[0]) /\ cache[0].active
    BY <1>1, <1>5 DEF TypeOK, IInv, CacheInv, Alone
  <2>5. /\ cache'[0].active /\ cache'[0].hmac = cache[0].hmac
        /\ cache'[0].broadcasted = cache[0].broadcasted
        /\ cache'[0].expires_at = cache[0].expires_at
        /\ cache'[0].broadcast_time = cache[0].broadcast_time
        /\ cache'[0].seen_macs \in {cache[0].seen_macs, cache[0].seen_macs \cup {callback.mac}}
    BY <2>2, <2>3, <2>4 DEF RecordSender, CacheEntries
  <2>6. Cardinality(cache[0].seen_macs) >= REDUNDANCY =>
          Cardinality(cache'[0].seen_macs) >= REDUNDANCY
    <3>1. IsFiniteSet(cache[0].seen_macs)
      BY <2>4 DEF Counted
    <3>2. IsFiniteSet(cache[0].seen_macs \cup {callback.mac})
      BY <3>1, FS_AddElement
    <3>3. /\ Cardinality(cache[0].seen_macs) \in Nat
          /\ Cardinality(cache'[0].seen_macs) \in Nat
          /\ Cardinality(cache[0].seen_macs) <= Cardinality(cache'[0].seen_macs)
      <4>1. IsFiniteSet(cache'[0].seen_macs) /\ cache[0].seen_macs \subseteq cache'[0].seen_macs
        BY <2>5, <3>1, <3>2
      <4> QED
        BY <3>1, <4>1, FS_Subset, FS_CardinalityType
    <3>4. REDUNDANCY \in Nat
      BY RelayAssumption, CacheAssumption
    <3> QED
      BY <3>3, <3>4
  <2>7. Alone(start, frame, longest)'
    BY <1>2, <1>5, <2>2, <2>3, <2>5 DEF Alone
  <2>8. InTurn(start, frame, longest)'
    BY <1>2, <1>5, <2>3, <2>5, <2>6 DEF InTurn, loopVars
  <2>9. UnsentStays
    BY <1>5, <2>5 DEF UnsentStays, Alone
  <2>10. cache'[0].seen_macs \subseteq cache[0].seen_macs \cup {callback.mac}
    BY <2>5
  <2> QED
    BY <1>2, <1>3, <2>3, <2>7, <2>8, <2>9, <2>10 DEF RelaysOne, HeardBy
<1> QED
  BY <1>4, <1>5 DEF RelaysOne

\* What it has marked it has aired, or it heard two neighbours.
LEMMA OneIsThrough ==
  ASSUME NEW longest, IInv, Named(cache), NEW start \in 0 .. clock, NEW frame \in Frames,
         RelaysOne(start, frame, longest), NEW i \in Slots,
         cache[i].active, cache[i].broadcasted, acceptedAt[cache[i].hmac] >= start
  PROVE  /\ acceptedAt[frame] >= start
         /\ \/ broadcastEndTime >= start + BROADCAST_BURST
            \/ \E x, y \in cache[0].seen_macs : x # y
<1>1. TypeOK /\ clock \in Nat /\ cache[i].hmac \in Frames
  BY DEF IInv, TypeOK, Named
<1>2. ~Unheard(start)
  BY <1>1 DEF Unheard, TypeOK
<1>3. Alone(start, frame, longest) /\ InTurn(start, frame, longest)
  BY <1>2 DEF RelaysOne
<1>4. i = 0 /\ cache[0].broadcasted /\ acceptedAt[frame] >= start
  BY <1>3 DEF Alone
<1>5. ASSUME Cardinality(cache[0].seen_macs) >= REDUNDANCY
      PROVE  \E x, y \in cache[0].seen_macs : x # y
  <2>1. PICK heard : heard = cache[0].seen_macs
    OBVIOUS
  <2>2. IsFiniteSet(heard) /\ Cardinality(heard) \in Nat /\ Cardinality(heard) >= 2
    <3>1. IsFiniteSet(heard)
      BY <1>4, <2>1 DEF IInv, CacheInv, Counted
    <3>2. Cardinality(heard) \in Nat
      BY <3>1, FS_CardinalityType
    <3> QED
      BY <1>5, <2>1, <3>1, <3>2, RelayAssumption, CacheAssumption
  <2>3. heard # {}
    BY <2>2, FS_EmptySet
  <2>4. PICK x \in heard : TRUE
    BY <2>3
  <2>5. heard # {x}
    <3>1. Cardinality({x}) = 1
      BY FS_Singleton
    <3> QED
      BY <2>2, <3>1
  <2> QED
    BY <2>1, <2>4, <2>5
<1> QED
  BY <1>3, <1>4, <1>5 DEF InTurn

================================================================================
