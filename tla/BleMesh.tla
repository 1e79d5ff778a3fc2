--------------------------------- MODULE BleMesh ---------------------------------
(***************************************************************************)
(* Two relays and the victim of VictimBeacon in reach of each other: what  *)
(* a relay hears is what the victim or the other relay advertises at that  *)
(* instant, under the address of the one that does.  Nobody need hear what *)
(* is on the air, so that any of the links may be as bad as it likes.      *)
(*                                                                         *)
(* The relays have no uplink, and all tasks keep up with the clock.  A     *)
(* frame is named by its timestamp, as in VictimBeacon; all have the GPS   *)
(* bit set (USE_GPS).                                                      *)
(***************************************************************************)
EXTENDS Integers

CONSTANTS
  TTL,           \* of the victim's packets
  MINUTE, AIRING, PAUSE, TIME_OFFSET,
  CACHE_SIZE, CACHE_TTL_MS, MAX_TRACKED_MACS, UINT32,
  Jitters, REDUNDANCY, BROADCAST_BURST,
  MAX_CLOCK      \* bound: the clock stops there

ASSUME BleMeshAssumption ==
  /\ TTL \in 1 .. 31
  /\ {CACHE_SIZE, UINT32, MINUTE} \subseteq Nat \ {0}
  /\ {CACHE_TTL_MS, AIRING, PAUSE, TIME_OFFSET, BROADCAST_BURST, MAX_CLOCK} \subseteq Nat
  /\ Jitters \subseteq Nat
  /\ MAX_TRACKED_MACS \in Nat /\ REDUNDANCY \in 2 .. MAX_TRACKED_MACS
  /\ TIME_OFFSET > MAX_CLOCK \div MINUTE

VARIABLES
  clock,
  \* the victim
  pc, timestamp, lastMinute, advertised, advertising, wakeAt, passMinute, silentSince,
  \* the relays
  cacheA, callbackA, loopPcA, loopReadAtA, isBroadcastingA, broadcastEndTimeA,
  currentBroadcastIndexA, scanningA, advertisingA, advDataA, acceptedAtA,
  cacheB, callbackB, loopPcB, loopReadAtB, isBroadcastingB, broadcastEndTimeB,
  currentBroadcastIndexB, scanningB, advertisingB, advDataB, acceptedAtB

Frames == TIME_OFFSET .. TIME_OFFSET + MAX_CLOCK \div MINUTE
Macs == {"victim", "A", "B"}

Victim == INSTANCE VictimBeacon

A == INSTANCE Relay WITH
  GpsFrames <- Frames, NoFrame <- 0, ArrivingTtls <- 1 .. TTL, UDP_COPIES <- 3,
  WifiAfterSetup <- {"off"}, LAST_ARRIVAL <- MAX_CLOCK,
  mutex <- "free", wifi <- "off", upstream <- {},
  cache <- cacheA, callback <- callbackA, loopPc <- loopPcA, loopReadAt <- loopReadAtA,
  isBroadcasting <- isBroadcastingA, broadcastEndTime <- broadcastEndTimeA,
  currentBroadcastIndex <- currentBroadcastIndexA, scanning <- scanningA,
  advertising <- advertisingA, advData <- advDataA, acceptedAt <- acceptedAtA

B == INSTANCE Relay WITH
  GpsFrames <- Frames, NoFrame <- 0, ArrivingTtls <- 1 .. TTL, UDP_COPIES <- 3,
  WifiAfterSetup <- {"off"}, LAST_ARRIVAL <- MAX_CLOCK,
  mutex <- "free", wifi <- "off", upstream <- {},
  cache <- cacheB, callback <- callbackB, loopPc <- loopPcB, loopReadAt <- loopReadAtB,
  isBroadcasting <- isBroadcastingB, broadcastEndTime <- broadcastEndTimeB,
  currentBroadcastIndex <- currentBroadcastIndexB, scanning <- scanningB,
  advertising <- advertisingB, advData <- advDataB, acceptedAt <- acceptedAtB

victimVars ==
  <<pc, timestamp, lastMinute, advertised, advertising, wakeAt, passMinute, silentSince>>
varsA == <<cacheA, callbackA, loopPcA, loopReadAtA, isBroadcastingA, broadcastEndTimeA,
           currentBroadcastIndexA, scanningA, advertisingA, advDataA, acceptedAtA>>
varsB == <<cacheB, callbackB, loopPcB, loopReadAtB, isBroadcastingB, broadcastEndTimeB,
           currentBroadcastIndexB, scanningB, advertisingB, advDataB, acceptedAtB>>
vars == <<clock, victimVars, varsA, varsB>>

TypeOK == Victim!TypeOK /\ A!TypeOK /\ B!TypeOK

Init == Victim!Init /\ A!Init /\ B!Init

--------------------------------------------------------------------------------
(* Time goes on when nobody has anything to do. *)

VictimWaits == pc \in {"airing", "pausing"} /\ clock < wakeAt

Tick ==
  /\ VictimWaits
  /\ A!LoopIdle /\ callbackA.pc = "idle"
  /\ B!LoopIdle /\ callbackB.pc = "idle"
  /\ Victim!Tick /\ A!Tick /\ B!Tick

VictimStep ==
  /\ Victim!Setup \/ Victim!Loop
  /\ UNCHANGED <<varsA, varsB>>

(* The packets on the air, each with the address it comes from. *)

VictimOnAir ==
  IF advertising THEN {<<A!BuildEmergencyPacket(advertised, TTL), "victim">>} ELSE {}
AOnAir == IF advertisingA THEN {<<advDataA, "A">>} ELSE {}
BOnAir == IF advertisingB THEN {<<advDataB, "B">>} ELSE {}

HearA ==
  /\ \E p \in VictimOnAir \cup BOnAir : A!Hear(p[1], p[2])
  /\ UNCHANGED <<victimVars, varsB>>

HearB ==
  /\ \E p \in VictimOnAir \cup AOnAir : B!Hear(p[1], p[2])
  /\ UNCHANGED <<victimVars, varsA>>

OnResultA == A!OnResult /\ UNCHANGED <<victimVars, varsB>>
OnResultB == B!OnResult /\ UNCHANGED <<victimVars, varsA>>

LoopA == A!PromptLoop /\ UNCHANGED <<victimVars, varsB>>
LoopB == B!PromptLoop /\ UNCHANGED <<victimVars, varsA>>

Next ==
  \/ Tick \/ VictimStep
  \/ HearA \/ OnResultA \/ LoopA
  \/ HearB \/ OnResultB \/ LoopB

Spec == Init /\ [][Next]_vars

\* All tasks run and real time goes on: infinitely many advertisements do not
\* fit in one unit of it.  Nothing need be heard.
FairSpec ==
  /\ Spec
  /\ WF_vars(Tick) /\ WF_vars(VictimStep)
  /\ WF_vars(OnResultA) /\ WF_vars(LoopA) /\ WF_vars(OnResultB) /\ WF_vars(LoopB)
  /\ []<><<HearA \/ HearB>>_vars => []<><<Tick>>_vars

--------------------------------------------------------------------------------
(***************************************************************************)
(* On the air each node is what the module of its own says it is: whatever *)
(* the victim and a neighbour make a relay hear is among what Relay lets   *)
(* arrive, signature, TTL and sender included, so that all that is known   *)
(* of Relay and of VictimBeacon is known of the nodes of a mesh.           *)
(***************************************************************************)
NodesKeepTheirSpecs == Victim!Spec /\ A!PromptSpec /\ B!PromptSpec

--------------------------------------------------------------------------------
(* What the flood over the air guarantees while no cache is full. *)

\* When the burst began that the victim sends, or has sent last.
BurstStart == (IF advertising THEN wakeAt ELSE silentSince) - AIRING

(***************************************************************************)
(* "A new frame is accepted only once per cache lifetime", and the frame   *)
(* has left the air before that is over: a relay relays a burst of the     *)
(* victim once, and what comes back from a neighbour does not start it     *)
(* again with fewer hops.                                                  *)
(***************************************************************************)
AcceptOncePerBurst ==
  [][\A f \in Frames :
       /\ acceptedAtA'[f] # acceptedAtA[f] => acceptedAtA[f] < BurstStart
       /\ acceptedAtB'[f] # acceptedAtB[f] => acceptedAtB[f] < BurstStart]_vars

(***************************************************************************)
(* What a relay queues gets its turn on the air, or is covered, within its *)
(* lifetime: no later burst finds it waiting, to purge it or to replace    *)
(* it.  A relay that keeps its unsent entries implements FrameLifecycle    *)
(* (RelayProofs).                                                          *)
(***************************************************************************)
RelaysKeepUnsent == [][A!UnsentStays /\ B!UnsentStays]_vars

(***************************************************************************)
(* The next burst of the same packet finds it forgotten everywhere, also   *)
(* by a relay that heard of the last burst from a neighbour after the      *)
(* victim was silent, so it has another chance to get through.             *)
(***************************************************************************)
Remembers(cache, frame) ==
  \E i \in DOMAIN cache :
    cache[i].active /\ cache[i].hmac = frame /\ clock < cache[i].expires_at

EveryBurstIsNew ==
  [][~advertising /\ advertising' =>
       ~Remembers(cacheA, advertised) /\ ~Remembers(cacheB, advertised)]_vars

(***************************************************************************)
(* "Broadcast Storm prevented": a relay that cancels a frame leaves it to  *)
(* a neighbour that has sent it.  Relays that wait for each other never    *)
(* silence the burst altogether, however often they hear the victim.       *)
(***************************************************************************)
DoneWith(cache, acceptedAt) ==
  \E i \in DOMAIN cache :
    /\ cache[i].active /\ cache[i].broadcasted
    /\ acceptedAt[cache[i].hmac] >= BurstStart

Relayed == broadcastEndTimeA > BurstStart \/ broadcastEndTimeB > BurstStart

SomebodyRelays ==
  DoneWith(cacheA, acceptedAtA) \/ DoneWith(cacheB, acceptedAtB) => Relayed

(***************************************************************************)
(* A burst that some relay accepted goes on the air again, from that relay *)
(* or another, whatever is heard or missed meanwhile.                      *)
(***************************************************************************)
Accepted(frame) == acceptedAtA[frame] >= BurstStart \/ acceptedAtB[frame] >= BurstStart
AcceptedIsRelayed == \A f \in Frames : Accepted(f) ~> Relayed

==================================================================================
