-------------------------------- MODULE UdpMesh --------------------------------
(***************************************************************************)
(* The UDP simulation: victims, relays (node.cpp) and exits (exit.cpp) as  *)
(* processes attached to bridged networks, the zones.  A datagram sent to  *)
(* the broadcast address of a zone is queued at every socket of the zone,  *)
(* the sender's own included, and may be lost at each of them.             *)
(*                                                                         *)
(* A process handles one datagram at a time and shares nothing, so the     *)
(* handling of a datagram, from recvfrom to the last sendto, is one step.  *)
(***************************************************************************)
EXTENDS CircularBuff, FiniteSets

CONSTANTS
  Relays, Exits, Zones,
  Networks,       \* the zones each relay and exit is attached to
  VICTIM_ZONE,    \* zone_1 in the composition
  TTL,
  BRD_LIFETIME    \* broadcasts of one victim, 30 in the code

Nodes == Relays \cup Exits

ASSUME MeshAssumption ==
  /\ IsFiniteSet(Zones)
  /\ Networks \in [Nodes -> SUBSET Zones]
  /\ VICTIM_ZONE \in Zones
  /\ TTL \in 0 .. TTL_VALUES - 1
  /\ BRD_LIFETIME \in Nat

VARIABLES
  broadcasts,   \* how often the victim of a frame has broadcast it
  network,      \* the datagrams in the queues of the sockets
  cache,        \* the ring of each relay and exit
  forwarded,    \* history: frames each relay has passed on
  finished      \* frames each exit has announced for the server

vars == <<broadcasts, network, cache, forwarded, finished>>

Datagrams == [from : Frames \cup Relays, zone : Zones, to : Nodes, packet : Packets]

TypeOK ==
  /\ broadcasts \in [Frames -> 0 .. BRD_LIFETIME]
  /\ network \subseteq Datagrams
  /\ cache \in [Nodes -> Rings]
  /\ forwarded \in [Relays -> SUBSET Frames]
  /\ finished \in [Exits -> SUBSET Frames]

Init ==
  /\ broadcasts = [f \in Frames |-> 0]
  /\ network = {}
  /\ cache = [n \in Nodes |-> EmptyRing]
  /\ forwarded = [r \in Relays |-> {}]
  /\ finished = [x \in Exits |-> {}]

Broadcast(sender, zones, packet) ==
  {d \in [from : {sender}, zone : zones, to : Nodes, packet : {packet}] :
     d.zone \in Networks[d.to]}

\* A victim is a process of its own per frame; it says the same BRD_LIFETIME times.
VictimBroadcast(frame) ==
  /\ broadcasts[frame] < BRD_LIFETIME
  /\ broadcasts' = [broadcasts EXCEPT ![frame] = @ + 1]
  /\ network' = network \cup
       Broadcast(frame, {VICTIM_ZONE}, BuildEmergencyPacket(frame, TTL))
  /\ UNCHANGED <<cache, forwarded, finished>>

Lose(d) ==
  /\ network' = network \ {d}
  /\ UNCHANGED <<broadcasts, cache, forwarded, finished>>

--------------------------------------------------------------------------------
Frame(d) == d.packet.hmac_sig
Known(d) == ContainsBuff(cache[d.to], Frame(d))

\* The signature is not remembered.
MutantRemember(d) == cache' = cache

Remember(d) == cache' = [cache EXCEPT ![d.to] = AddToBuff(@, Frame(d))]

\* A relay or an exit that knows the signature drops the packet.
DropProcessed(d) ==
  /\ Known(d)
  /\ network' = network \ {d}
  /\ UNCHANGED <<broadcasts, cache, forwarded, finished>>

\* The hop to this relay was the last one.
Expired(packet) == Ttl(packet.flags) <= 1

\* The signature is remembered before the TTL is looked at.
RelayDropExpired(d) ==
  /\ d.to \in Relays
  /\ ~Known(d)
  /\ Expired(d.packet)
  /\ Remember(d)
  /\ network' = network \ {d}
  /\ UNCHANGED <<broadcasts, forwarded, finished>>

\* Only the zone the datagram came from hears the relay.
MutantInterfaces(d) == {d.zone}

\* Every interface but the loopback, the one the datagram came in by included.
Interfaces(d) == Networks[d.to]

RelayForward(d) ==
  /\ d.to \in Relays
  /\ ~Known(d)
  /\ ~Expired(d.packet)
  /\ Remember(d)
  /\ network' = (network \ {d}) \cup Broadcast(d.to, Interfaces(d), NextHop(d.packet))
  /\ forwarded' = [forwarded EXCEPT ![d.to] = @ \cup {Frame(d)}]
  /\ UNCHANGED <<broadcasts, finished>>

\* An exit announces a new packet, its TTL bits cleared, for the server.
ExitFinish(d) ==
  /\ d.to \in Exits
  /\ ~Known(d)
  /\ Remember(d)
  /\ network' = network \ {d}
  /\ finished' = [finished EXCEPT ![d.to] = @ \cup {Frame(d)}]
  /\ UNCHANGED <<broadcasts, forwarded>>

Handle(d) == DropProcessed(d) \/ RelayDropExpired(d) \/ RelayForward(d) \/ ExitFinish(d)

VictimsBroadcast == \E frame \in Frames : VictimBroadcast(frame)
SomethingLost == \E d \in network : Lose(d)
SomethingHandled == \E d \in network : Handle(d)

Next == VictimsBroadcast \/ SomethingLost \/ SomethingHandled

Spec == Init /\ [][Next]_vars

(***************************************************************************)
(* Every process goes on reading its socket; the victims need not start,   *)
(* and nothing says that a datagram is or is not lost.                     *)
(***************************************************************************)
FairSpec == Spec /\ WF_vars(SomethingHandled)

\* The same on bridges that lose nothing, every victim broadcasting.
ReliableNext == VictimsBroadcast \/ SomethingHandled

ReliableSpec ==
  /\ Init /\ [][ReliableNext]_vars
  /\ WF_vars(SomethingHandled) /\ WF_vars(VictimsBroadcast)

--------------------------------------------------------------------------------
(* What the flood guarantees. *)

\* Relays to cross from the victim to a zone; more than there are if none leads there.
Bridged(a, b) == \E r \in Relays : {a, b} \subseteq Networks[r]

Within[hops \in 0 .. Cardinality(Zones)] ==
  IF hops = 0 THEN {VICTIM_ZONE}
  ELSE {z \in Zones : \E y \in Within[hops - 1] : y = z \/ Bridged(y, z)}

(***************************************************************************)
(* The TTL counts hops: what a zone hears with k hops left comes from a    *)
(* zone at most TTL - k relays away from the victim, the bits of the flags *)
(* its signature covers are those the victim signed, and what has no hop   *)
(* left is never sent.                                                     *)
(***************************************************************************)
TtlCountsHops ==
  \A d \in network :
    LET hops == TTL - Ttl(d.packet.flags) IN
    /\ UpperBits(d.packet.flags) = SignedFlags(Frame(d))
    /\ Ttl(d.packet.flags) >= 1 \/ d.from = Frame(d)
    /\ hops <= Cardinality(Zones) => d.zone \in Within[hops]

(***************************************************************************)
(* The ring prevents the storm: with a row for every signature in use a    *)
(* relay passes a packet on once, however many copies reach it on however  *)
(* many of its interfaces, its own broadcasts among them.                  *)
(***************************************************************************)
RelaysOnce ==
  [][\A r \in Relays, d \in network :
       RelayForward(d) /\ d.to = r => Frame(d) \notin forwarded[r]]_vars

(***************************************************************************)
(* The flood dies out: when the victims are done, the sockets run dry,     *)
(* even if there are more signatures than rows and relays forget.          *)
(***************************************************************************)
FloodDiesOut == <>[](network = {})

(***************************************************************************)
(* A frame reaches every exit there is a way to when no datagram is lost   *)
(* and there are fewer relays than hops, so that a copy on a detour cannot *)
(* use the TTL up and be remembered in place of the one that would arrive. *)
(***************************************************************************)
Reachable(exit) == \E z \in Networks[exit] : z \in Within[Cardinality(Zones)]

ReachesEveryExit ==
  BRD_LIFETIME > 0 /\ Cardinality(Relays) < TTL =>
    \A frame \in Frames, exit \in Exits :
      Reachable(exit) => <>(frame \in finished[exit])

================================================================================
