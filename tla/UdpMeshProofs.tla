----------------------------- MODULE UdpMeshProofs -----------------------------
(***************************************************************************)
(* Proofs about the UDP simulation, for every set of processes, however    *)
(* their networks are bridged, and every number of frames and rows.        *)
(***************************************************************************)
EXTENDS UdpMesh, SharedLemmas

\* The datagrams of a broadcast reach every socket of the zones, none elsewhere.
LEMMA BroadcastType ==
  ASSUME NEW sender \in Frames \cup Relays, NEW zones \in SUBSET Zones, NEW packet \in Packets
  PROVE  /\ Broadcast(sender, zones, packet) \subseteq Datagrams
         /\ \A d \in Broadcast(sender, zones, packet) :
              /\ d.from = sender /\ d.packet = packet
              /\ d.zone \in zones /\ d.zone \in Networks[d.to]
BY DEF Broadcast, Datagrams

\* The rings remain rings when a node remembers a signature.
LEMMA RememberType ==
  ASSUME cache \in [Nodes -> Rings], NEW d \in Datagrams, Remember(d)
  PROVE  cache' \in [Nodes -> Rings]
<1>1. \A ring \in Rings, frame \in Frames : AddToBuff(ring, frame) \in Rings
  BY WriteRowWrites DEF AddToBuff
<1>2. d.to \in Nodes /\ Frame(d) \in Frames
  BY DEF Datagrams, Packets, Frame
<1> QED
  BY <1>1, <1>2 DEF Remember

(***************************************************************************)
(* Whatever is lost or overtaken, victims, relays and exits keep datagrams *)
(* on the network well formed and their rings within bounds.               *)
(***************************************************************************)
THEOREM TypeCorrect == Spec => []TypeOK
<1>1. Init => TypeOK
  <2>1. EmptyRing \in Rings
    BY EmptyRingWellFormed DEF WellFormed
  <2>2. 0 \in 0 .. BRD_LIFETIME
    BY MeshAssumption
  <2> QED
    BY <2>1, <2>2 DEF Init, TypeOK
<1>2. ASSUME TypeOK, [Next]_vars
      PROVE  TypeOK'
  <2> USE <1>2 DEF TypeOK
  <2>1. ASSUME NEW frame \in Frames, VictimBroadcast(frame)
        PROVE  TypeOK'
    <3>1. Broadcast(frame, {VICTIM_ZONE}, BuildEmergencyPacket(frame, TTL)) \subseteq Datagrams
      BY BuildEmergencyPacketType, BroadcastType, MeshAssumption
    <3>2. broadcasts' \in [Frames -> 0 .. BRD_LIFETIME]
      BY <2>1, MeshAssumption DEF VictimBroadcast
    <3> QED
      BY <2>1, <3>1, <3>2 DEF VictimBroadcast
  <2>2. ASSUME NEW d \in network, Lose(d) \/ DropProcessed(d)
        PROVE  TypeOK'
    BY <2>2 DEF Lose, DropProcessed
  <2>3. ASSUME NEW d \in network, RelayDropExpired(d)
        PROVE  TypeOK'
    <3>1. cache' \in [Nodes -> Rings]
      BY <2>3, RememberType DEF RelayDropExpired
    <3> QED
      BY <2>3, <3>1 DEF RelayDropExpired
  <2>4. ASSUME NEW d \in network, RelayForward(d)
        PROVE  TypeOK'
    <3>1. d.packet \in Packets /\ Ttl(d.packet.flags) > 1
      <4>1. d.packet \in Packets /\ d.packet.flags \in Byte
        BY DEF Datagrams, Packets
      <4>2. Ttl(d.packet.flags) \in 0 .. TTL_VALUES - 1
        BY <4>1, TtlType
      <4> QED
        BY <2>4, <4>1, <4>2 DEF RelayForward, Expired, TTL_VALUES
    <3>2. Broadcast(d.to, Interfaces(d), NextHop(d.packet)) \subseteq Datagrams
      <4>1. NextHop(d.packet) \in Packets
        BY <3>1, NextHopType
      <4>2. d.to \in Relays /\ Interfaces(d) \in SUBSET Zones
        BY <2>4, MeshAssumption DEF RelayForward, Interfaces, Nodes
      <4> QED
        BY <4>1, <4>2, BroadcastType
    <3>3. cache' \in [Nodes -> Rings]
      BY <2>4, RememberType DEF RelayForward
    <3>4. forwarded' \in [Relays -> SUBSET Frames]
      BY <2>4 DEF RelayForward, Datagrams, Packets, Frame
    <3> QED
      BY <2>4, <3>2, <3>3, <3>4 DEF RelayForward
  <2>5. ASSUME NEW d \in network, ExitFinish(d)
        PROVE  TypeOK'
    <3>1. cache' \in [Nodes -> Rings]
      BY <2>5, RememberType DEF ExitFinish
    <3>2. finished' \in [Exits -> SUBSET Frames]
      BY <2>5 DEF ExitFinish, Datagrams, Packets, Frame
    <3> QED
      BY <2>5, <3>1, <3>2 DEF ExitFinish
  <2>6. CASE UNCHANGED vars
    BY <2>6 DEF vars
  <2> QED
    BY <2>1, <2>2, <2>3, <2>4, <2>5, <2>6
    DEF Next, VictimsBroadcast, SomethingLost, SomethingHandled, Handle
<1> QED
  BY <1>1, <1>2, PTL DEF Spec

--------------------------------------------------------------------------------
(* What a relay remembers. *)

EnoughRows == IsFiniteSet(Frames) /\ Cardinality(Frames) <= HASHES

(***************************************************************************)
(* The strengthening: a ring is well formed and still holds every frame    *)
(* its relay has passed on.                                                *)
(***************************************************************************)
CacheInv ==
  /\ \A n \in Nodes : WellFormed(cache[n])
  /\ \A r \in Relays : \A f \in forwarded[r] : ContainsBuff(cache[r], f)

\* A ring with a row for every frame forgets none that its relay passed on.
LEMMA CacheInvKept ==
  ASSUME EnoughRows, TypeOK, CacheInv, [Next]_vars
  PROVE  CacheInv'
<1> USE DEF TypeOK
\* Whoever remembers a frame forgets no other.
<1>1. ASSUME NEW d \in network, Remember(d)
      PROVE  /\ \A n \in Nodes : WellFormed(cache'[n])
             /\ \A n \in Nodes, f \in Frames : ContainsBuff(cache[n], f) => ContainsBuff(cache'[n], f)
             /\ ContainsBuff(cache'[d.to], Frame(d))
  <2>1. d.to \in Nodes /\ Frame(d) \in Frames
    BY DEF Datagrams, Packets, Frame
  <2>2. \A n \in Nodes : cache'[n] = IF n = d.to THEN AddToBuff(cache[n], Frame(d)) ELSE cache[n]
    BY <1>1, <2>1 DEF Remember
  <2>3. \A n \in Nodes : WellFormed(cache[n])
    BY DEF CacheInv
  <2>4. ASSUME NEW n \in Nodes
        PROVE  WellFormed(cache'[n])
    BY <2>1, <2>2, <2>3, AddToBuffWellFormed
  <2>5. ASSUME NEW n \in Nodes, NEW f \in Frames, ContainsBuff(cache[n], f)
        PROVE  ContainsBuff(cache'[n], f)
    BY <2>1, <2>2, <2>3, <2>5, NothingForgotten DEF EnoughRows
  <2>6. ContainsBuff(cache'[d.to], Frame(d))
    BY <2>1, <2>2, <2>3, AddToBuffWellFormed
  <2> QED
    BY <2>4, <2>5, <2>6
<1>2. CASE UNCHANGED <<cache, forwarded>>
  BY <1>2 DEF CacheInv
<1>3. ASSUME NEW d \in network, Remember(d), UNCHANGED forwarded
      PROVE  CacheInv'
  BY <1>1, <1>3 DEF CacheInv, Nodes
<1>4. ASSUME NEW d \in network, RelayForward(d)
      PROVE  CacheInv'
  <2>1. d.to \in Relays /\ Remember(d)
    BY <1>4 DEF RelayForward
  <2>2. \A r \in Relays : \A f \in forwarded'[r] : f \in forwarded[r] \/ (r = d.to /\ f = Frame(d))
    BY <1>4, <2>1 DEF RelayForward
  <2> QED
    BY <1>1, <2>1, <2>2 DEF CacheInv, Nodes
<1> QED
  BY <1>2, <1>3, <1>4
  DEF Next, VictimsBroadcast, SomethingLost, SomethingHandled, VictimBroadcast, Lose, Handle,
      DropProcessed, RelayDropExpired, ExitFinish, vars

(***************************************************************************)
(* With a row for every frame a relay never passes one on a second time:   *)
(* the ring prevents the storm its own broadcasts would cause.             *)
(***************************************************************************)
THEOREM RelaysOnceHolds ==
  ASSUME EnoughRows
  PROVE  Spec => RelaysOnce
<1>1. Init => CacheInv
  BY EmptyRingWellFormed DEF Init, CacheInv
<1>2. TypeOK /\ CacheInv /\ [Next]_vars => CacheInv'
  BY CacheInvKept
<1>3. CacheInv => [\A r \in Relays, d \in network :
                     RelayForward(d) /\ d.to = r => Frame(d) \notin forwarded[r]]_vars
  BY DEF CacheInv, RelayForward, Known
<1> QED
  BY <1>1, <1>2, <1>3, TypeCorrect, PTL DEF Spec, RelaysOnce

--------------------------------------------------------------------------------
(* What the TTL counts. *)

\* The zones of a set, and those a relay joins to one of them.
Widened(zones) == {z \in Zones : \E y \in zones : y = z \/ Bridged(y, z)}

\* The equation of Within, solved up to n hops by the function f.
Solves(f, n) ==
  f = [hops \in 0 .. n |-> IF hops = 0 THEN {VICTIM_ZONE} ELSE Widened(f[hops - 1])]

\* There is a solution for every n: a least n without one would extend that of n - 1.
LEMMA WithinSolvable ==
  ASSUME NEW n \in Nat
  PROVE  \E f : Solves(f, n)
<1> DEFINE Unsolved == {m \in Nat : ~\E f : Solves(f, m)}
<1>1. ASSUME NEW m \in Unsolved, \A k \in Unsolved : m <= k
      PROVE  FALSE
  <2>1. m \in Nat /\ ~\E f : Solves(f, m)
    OBVIOUS
  <2>2. CASE m = 0
    <3> DEFINE f == [hops \in 0 .. 0 |-> {VICTIM_ZONE}]
    <3>1. Solves(f, 0)
      BY DEF Solves
    <3> QED
      BY <2>1, <2>2, <3>1
  <2>3. CASE m # 0
    <3>1. m - 1 \in Nat /\ ~(m <= m - 1)
      BY <2>1, <2>3
    <3>2. PICK f : Solves(f, m - 1)
      BY <1>1, <3>1
    <3> DEFINE g == [hops \in 0 .. m |-> IF hops < m THEN f[hops] ELSE Widened(f[m - 1])]
    <3>3. \A hops \in 0 .. m - 1 :
            f[hops] = IF hops = 0 THEN {VICTIM_ZONE} ELSE Widened(f[hops - 1])
      BY <3>2 DEF Solves
    <3>4. \A hops \in 0 .. m - 1 : g[hops] = f[hops]
      BY <2>1
    <3>5. g[m] = Widened(g[m - 1])
      BY <2>1, <3>1, <3>4
    <3>6. \A hops \in 0 .. m :
            g[hops] = IF hops = 0 THEN {VICTIM_ZONE} ELSE Widened(g[hops - 1])
      <4>1. ASSUME NEW hops \in 0 .. m
            PROVE  g[hops] = IF hops = 0 THEN {VICTIM_ZONE} ELSE Widened(g[hops - 1])
        <5>1. CASE hops = m
          BY <2>3, <3>5, <5>1
        <5>2. CASE hops # m
          <6>1. hops \in 0 .. m - 1 /\ (hops # 0 => hops - 1 \in 0 .. m - 1)
            BY <2>1, <5>2
          <6> HIDE DEF g
          <6> QED
            BY <3>3, <3>4, <6>1
        <5> QED
          BY <5>1, <5>2
      <4> QED
        BY <4>1
    <3>7. Solves(g, m)
      <4>1. g = [hops \in 0 .. m |-> g[hops]]
        OBVIOUS
      <4> HIDE DEF g
      <4> QED
        BY <3>6, <4>1 DEF Solves
    <3> QED
      BY <2>1, <3>7
  <2> QED
    BY <2>2, <2>3
<1>2. Unsolved \subseteq Nat
  OBVIOUS
<1> HIDE DEF Unsolved
<1>3. Unsolved = {}
  BY <1>1, <1>2, LeastNat
<1> QED
  BY <1>3 DEF Unsolved

\* A zone within some hops is within more.
LEMMA WithinWidens ==
  /\ Cardinality(Zones) \in Nat
  /\ Within[0] = {VICTIM_ZONE}
  /\ \A hops \in 1 .. Cardinality(Zones) : Within[hops] = Widened(Within[hops - 1])
<1>1. Cardinality(Zones) \in Nat
  BY FS_CardinalityType, MeshAssumption
<1>2. Within = CHOOSE f : Solves(f, Cardinality(Zones))
  BY DEF Within, Solves, Widened
<1>3. Solves(Within, Cardinality(Zones))
  BY <1>1, <1>2, WithinSolvable
<1>4. \A hops \in 0 .. Cardinality(Zones) :
        Within[hops] = IF hops = 0 THEN {VICTIM_ZONE} ELSE Widened(Within[hops - 1])
  <2> DEFINE f == Within
             n == Cardinality(Zones)
  <2>1. f = [hops \in 0 .. n |-> IF hops = 0 THEN {VICTIM_ZONE} ELSE Widened(f[hops - 1])]
    BY <1>3 DEF Solves
  <2> HIDE DEF f, n
  <2>2. \A hops \in 0 .. n :
          f[hops] = IF hops = 0 THEN {VICTIM_ZONE} ELSE Widened(f[hops - 1])
    BY <2>1
  <2> QED
    BY <2>2 DEF f, n
<1>5. Within[0] = {VICTIM_ZONE}
  BY <1>1, <1>4
<1> QED
  BY <1>1, <1>4, <1>5

\* Whoever sends a datagram is attached to the zone it is in, or is a victim.
HopInv(d) ==
  LET left == Ttl(d.packet.flags) IN
  /\ d.zone \in Networks[d.to]
  /\ VerifyHmac(d.packet)
  /\ left <= TTL
  /\ left >= 1 \/ d.from = Frame(d)
  /\ TTL - left <= Cardinality(Zones) => d.zone \in Within[TTL - left]

\* What a relay passes on has come one hop further.
LEMMA HopInvForwarded ==
  ASSUME TypeOK, NEW d \in network, HopInv(d), RelayForward(d),
         NEW e \in Broadcast(d.to, Interfaces(d), NextHop(d.packet))
  PROVE  HopInv(e)
<1> DEFINE left == Ttl(d.packet.flags)
<1>1. d.packet \in Packets /\ d.packet.flags \in Byte /\ TTL \in Nat
  BY MeshAssumption DEF TypeOK, Datagrams, Packets, TTL_VALUES
<1>2. left \in Nat /\ left > 1 /\ left <= TTL
  <2>1. left \in 0 .. TTL_VALUES - 1
    BY <1>1, TtlType
  <2> QED
    BY <2>1 DEF RelayForward, Expired, TTL_VALUES, HopInv
<1>3. /\ NextHop(d.packet) \in Packets
      /\ NextHop(d.packet).hmac_sig = d.packet.hmac_sig
      /\ VerifyHmac(NextHop(d.packet))
      /\ Ttl(NextHop(d.packet).flags) = left - 1
  BY <1>1, <1>2, NextHopType DEF HopInv
<1>4. d.to \in Relays /\ Networks[d.to] \subseteq Zones
  BY MeshAssumption DEF RelayForward, Nodes
<1>5. /\ e.packet = NextHop(d.packet)
      /\ e.zone \in Networks[d.to] /\ e.zone \in Networks[e.to]
  BY <1>3, <1>4, BroadcastType DEF Interfaces
<1>6. Ttl(e.packet.flags) = left - 1
  BY <1>3, <1>5
<1>7. ASSUME TTL - (left - 1) <= Cardinality(Zones)
      PROVE  e.zone \in Within[TTL - (left - 1)]
  <2> DEFINE hops == TTL - left
  <2>1. /\ hops \in Nat /\ hops + 1 = TTL - (left - 1) /\ hops <= Cardinality(Zones)
        /\ hops + 1 \in 1 .. Cardinality(Zones) /\ (hops + 1) - 1 = hops
    BY <1>1, <1>2, <1>7, WithinWidens
  <2>2. d.zone \in Within[hops]
    BY <2>1 DEF HopInv
  <2>3. Bridged(d.zone, e.zone)
    BY <1>4, <1>5 DEF Bridged, HopInv
  <2> HIDE DEF hops
  <2>4. Within[hops + 1] = Widened(Within[hops])
    BY <2>1, WithinWidens
  <2>5. e.zone \in Widened(Within[hops])
    BY <1>4, <1>5, <2>2, <2>3 DEF Widened
  <2> QED
    BY <2>1, <2>4, <2>5
<1> HIDE DEF left
<1>8. left - 1 >= 1 /\ left - 1 <= TTL
  BY <1>1, <1>2
<1> QED
  BY <1>3, <1>5, <1>6, <1>7, <1>8 DEF HopInv

\* What a victim says has come no hop yet.
LEMMA HopInvBroadcast ==
  ASSUME NEW frame \in Frames,
         NEW e \in Broadcast(frame, {VICTIM_ZONE}, BuildEmergencyPacket(frame, TTL))
  PROVE  HopInv(e)
<1> DEFINE packet == BuildEmergencyPacket(frame, TTL)
<1>1. packet \in Packets /\ VerifyHmac(packet) /\ Ttl(packet.flags) = TTL
  BY BuildEmergencyPacketType, MeshAssumption
<1>2. packet.hmac_sig = frame
  BY DEF BuildEmergencyPacket
<1> HIDE DEF packet
<1>3. /\ e.from = frame /\ e.packet = packet
      /\ e.zone = VICTIM_ZONE /\ e.zone \in Networks[e.to]
  BY <1>1, BroadcastType, MeshAssumption DEF packet
<1>4. TTL \in Nat /\ TTL - TTL = 0
  BY MeshAssumption DEF TTL_VALUES
<1>5. VICTIM_ZONE \in Within[0]
  BY WithinWidens
<1> QED
  BY <1>1, <1>2, <1>3, <1>4, <1>5 DEF HopInv, Frame

(***************************************************************************)
(* A zone that hears a packet with k hops left is at most TTL - k relays   *)
(* away from the victim, and of the flags the relays change the TTL only.  *)
(***************************************************************************)
THEOREM TtlCountsHopsHolds == Spec => []TtlCountsHops
<1> DEFINE Inv == \A d \in network : HopInv(d)
<1>1. Init => Inv
  BY DEF Init
<1>2. ASSUME TypeOK, Inv, [Next]_vars
      PROVE  Inv'
  <2> SUFFICES ASSUME NEW e \in network'
               PROVE  HopInv(e)
    BY DEF HopInv, Frame
  <2>1. CASE e \in network
    BY <1>2, <2>1
  <2>2. ASSUME NEW frame \in Frames, VictimBroadcast(frame), e \notin network
        PROVE  HopInv(e)
    BY <2>2, HopInvBroadcast DEF VictimBroadcast
  <2>3. ASSUME NEW d \in network, RelayForward(d), e \notin network
        PROVE  HopInv(e)
    BY <1>2, <2>3, HopInvForwarded DEF RelayForward
  <2> QED
    BY <1>2, <2>1, <2>2, <2>3
    DEF Next, VictimsBroadcast, SomethingLost, SomethingHandled, Handle, Lose,
        DropProcessed, RelayDropExpired, ExitFinish, vars
<1>3. Inv => TtlCountsHops
  BY DEF HopInv, TtlCountsHops, VerifyHmac, Frame
<1> HIDE DEF Inv
<1> QED
  BY <1>1, <1>2, <1>3, TypeCorrect, PTL DEF Spec

================================================================================
