------------------------------ MODULE GenerateMesh ------------------------------
(***************************************************************************)
(* build_mesh of generate_mesh.py: draws the zones every relay is attached *)
(* to, measures how far from the victim's zone each zone is by a           *)
(* breadth-first search, and attaches the exits to the furthest ones.      *)
(*                                                                         *)
(* Zones are interchangeable but for the victim's; a random draw is a      *)
(* choice, and so is the order in which Python goes through a set.         *)
(***************************************************************************)
EXTENDS Naturals, Sequences, SequencesExt, FiniteSetsExt

CONSTANTS
  Zones,        \* networks 1 .. TOTAL_NETWORKS
  zone_1,       \* the victim's
  num_relays, num_exits

ASSUME GenerateMeshAssumption ==
  /\ {num_relays, num_exits} \subseteq Nat \ {0}
  /\ IsFiniteSet(Zones) /\ zone_1 \in Zones
  /\ Cardinality(Zones) = 2 * num_relays

VARIABLES
  phase,             \* which part of build_mesh runs
  relays,            \* the zones of the relays drawn so far
  active_networks,
  all_generated_networks,
  depths, queue,     \* of the search
  exit_nodes         \* the zone of each exit

vars == <<phase, relays, active_networks, all_generated_networks, depths, queue, exit_nodes>>

TypeOK ==
  /\ phase \in {"relays", "search", "exits", "done"}
  /\ relays \in Seq(SUBSET Zones) /\ Len(relays) <= num_relays
  /\ {active_networks, all_generated_networks} \subseteq SUBSET Zones
  /\ DOMAIN depths \subseteq Zones /\ \A z \in DOMAIN depths : depths[z] \in 0 .. num_relays
  /\ queue \in Seq(Zones)
  /\ exit_nodes \in Seq(Zones) /\ Len(exit_nodes) \in {0, num_exits}

Init ==
  /\ phase = "relays"
  /\ relays = <<>>
  /\ active_networks = {zone_1}
  /\ all_generated_networks = {}
  /\ depths = [z \in {zone_1} |-> 0]
  /\ queue = <<zone_1>>
  /\ exit_nodes = <<>>

--------------------------------------------------------------------------------
(* Drawing the relays. *)

Least(a, b) == IF a < b THEN a ELSE b
max_extra_interfaces == Max({2, num_relays \div 10})

InactivePool == (Zones \ {zone_1}) \ active_networks
Sample(pool, count) == kSubset(Least(count, Cardinality(pool)), pool)

AddRelay(nets) ==
  /\ relays' = Append(relays, nets)
  /\ all_generated_networks' = all_generated_networks \cup nets
  /\ phase' = IF Len(relays) + 1 = num_relays THEN "search" ELSE "relays"
  /\ UNCHANGED <<depths, queue, exit_nodes>>

\* Any zone will do for an anchor.
MutantAnchors == Zones

Anchors == active_networks

\* A relay of the main mesh: one zone of the mesh, the others not in it yet.
AddMainRelay ==
  /\ phase = "relays"
  /\ \E anchor \in Anchors, num_extra \in 1 .. max_extra_interfaces :
       \E extras \in Sample(InactivePool, num_extra) :
         /\ AddRelay({anchor} \cup extras)
         /\ active_networks' = active_networks \cup {anchor} \cup extras

\* A stranded relay: zones not in the mesh, any but the victim's if they are too few.
IslandPool(num_extra) ==
  IF Cardinality(InactivePool) < num_extra + 1 THEN Zones \ {zone_1} ELSE InactivePool

AddIslandRelay ==
  /\ phase = "relays"
  /\ \E num_extra \in 1 .. max_extra_interfaces :
       \E nets \in Sample(IslandPool(num_extra), num_extra + 1) : AddRelay(nets)
  /\ UNCHANGED active_networks

--------------------------------------------------------------------------------
(* Measuring the depths. *)

graph == [z \in Zones |-> {y \in Zones \ {z} : \E i \in DOMAIN relays : {y, z} \subseteq relays[i]}]

Current == Head(queue)

\* Zones that have a depth are not left out.
MutantNeighbours == graph[Current]

\* A zone is given its depth, once, when it is found first.
Neighbours == graph[Current] \ DOMAIN depths

\* The zones found last are visited first.
MutantEnqueue(found) == found \o Tail(queue)

Enqueue(found) == Tail(queue) \o found

VisitZone ==
  /\ phase = "search"
  /\ queue # <<>>
  /\ depths' = [z \in DOMAIN depths \cup Neighbours |->
                  IF z \in Neighbours THEN depths[Current] + 1 ELSE depths[z]]
  /\ \E found \in SetToSeqs(Neighbours) : queue' = Enqueue(found)
  /\ UNCHANGED <<phase, relays, active_networks, all_generated_networks, exit_nodes>>

EndSearch ==
  /\ phase = "search"
  /\ queue = <<>>
  /\ phase' = "exits"
  /\ UNCHANGED <<relays, active_networks, all_generated_networks, depths, queue, exit_nodes>>

--------------------------------------------------------------------------------
(* Placing the exits. *)

\* The nearest zones come first.
MutantFurthestFirst(zones) ==
  \A i, j \in DOMAIN zones : i < j => depths[zones[i]] <= depths[zones[j]]

FurthestFirst(zones) ==
  \A i, j \in DOMAIN zones : i < j => depths[zones[i]] >= depths[zones[j]]

reachable_networks == {zones \in SetToSeqs(DOMAIN depths) : FurthestFirst(zones)}

\* Only the relays' zones are declared.
MutantDeclareExits(targets) == UNCHANGED all_generated_networks

DeclareExits(targets) ==
  all_generated_networks' = all_generated_networks \cup ToSet(targets)

PlaceExits ==
  /\ phase = "exits"
  /\ \E zones \in reachable_networks :
       LET targets == SubSeq(zones, 1, Least(num_exits, Len(zones))) IN
         /\ exit_nodes' = [i \in 1 .. num_exits |-> targets[((i - 1) % Len(targets)) + 1]]
         /\ DeclareExits(targets)
  /\ phase' = "done"
  /\ UNCHANGED <<relays, active_networks, depths, queue>>

Next == AddMainRelay \/ AddIslandRelay \/ VisitZone \/ EndSearch \/ PlaceExits

Spec == Init /\ [][Next]_vars

--------------------------------------------------------------------------------
(* What the generated mesh promises to the simulation. *)

\* The zones at most so many relays away from the victim.
Within[hops \in Nat] ==
  IF hops = 0 THEN {zone_1}
  ELSE Within[hops - 1] \cup UNION {graph[z] : z \in Within[hops - 1]}

(***************************************************************************)
(* "Shouldn't we save the minimum ...?"  No: the search gives each zone    *)
(* that can be reached at all the length of a shortest way to it, although *)
(* a depth is never lowered once it is written.                            *)
(***************************************************************************)
DepthsAreDistances ==
  phase \in {"exits", "done"} =>
    /\ DOMAIN depths = Within[num_relays]
    /\ \A z \in DOMAIN depths :
         /\ z \in Within[depths[z]]
         /\ depths[z] > 0 => z \notin Within[depths[z] - 1]

(***************************************************************************)
(* "Anchor to the active mesh to guarantee reachability": there is a way   *)
(* from the victim to every zone drawn for a relay of the main mesh.       *)
(***************************************************************************)
MainMeshIsReachable == active_networks \subseteq Within[num_relays]

(***************************************************************************)
(* The exits are where the flood is put to the test: every exit can be     *)
(* reached, and no zone without an exit is further away than one with one. *)
(***************************************************************************)
ExitZones == ToSet(exit_nodes)

ExitsAreFurthest ==
  phase = "done" =>
    /\ Cardinality(ExitZones) = Least(num_exits, Cardinality(Within[num_relays]))
    /\ \A x \in ExitZones, hops \in 0 .. num_relays :
         x \in Within[hops] => Within[num_relays] \ ExitZones \subseteq Within[hops]

(***************************************************************************)
(* "the final list of networks that actually have nodes attached": the     *)
(* composition declares the zone of every container, that of the victim    *)
(* included, which is on no list and is not drawn when all the relays are  *)
(* stranded: an exit is then placed in it.                                 *)
(***************************************************************************)
DeclaresEveryZone ==
  phase = "done" =>
    all_generated_networks = {zone_1} \cup ExitZones \cup UNION ToSet(relays)

=================================================================================
