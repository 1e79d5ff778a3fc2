------------------------------ MODULE BleMeshProofs ------------------------------
(***************************************************************************)
(* The components on the air: every step of BleMesh is a step or a stutter *)
(* of the victim and of each relay, so that what RelayProofs and           *)
(* VictimBeaconProofs show of one node holds for the nodes of a mesh.      *)
(* Then, from what the timings of the three add up to, the flood of one    *)
(* burst of the victim.                                                    *)
(***************************************************************************)
EXTENDS BleMesh, TLAPS

\* HASHES and LAST_ROW are of the ring of a simulated node, whose lemmas come with those
\* about packets, and heardSince is the history of SenderCount: no theorem cited has them.
LA == INSTANCE RelayProofs WITH
  GpsFrames <- Frames, NoFrame <- 0, ArrivingTtls <- 1 .. TTL, UDP_COPIES <- 3,
  WifiAfterSetup <- {"off"}, LAST_ARRIVAL <- MAX_CLOCK, HASHES <- 1, LAST_ROW <- 0,
  mutex <- "free", wifi <- "off", upstream <- {},
  cache <- cacheA, callback <- callbackA, loopPc <- loopPcA, loopReadAt <- loopReadAtA,
  isBroadcasting <- isBroadcastingA, broadcastEndTime <- broadcastEndTimeA,
  currentBroadcastIndex <- currentBroadcastIndexA, scanning <- scanningA,
  advertising <- advertisingA, advData <- advDataA, acceptedAt <- acceptedAtA, heardSince <- {}

LB == INSTANCE RelayProofs WITH
  GpsFrames <- Frames, NoFrame <- 0, ArrivingTtls <- 1 .. TTL, UDP_COPIES <- 3,
  WifiAfterSetup <- {"off"}, LAST_ARRIVAL <- MAX_CLOCK, HASHES <- 1, LAST_ROW <- 0,
  mutex <- "free", wifi <- "off", upstream <- {},
  cache <- cacheB, callback <- callbackB, loopPc <- loopPcB, loopReadAt <- loopReadAtB,
  isBroadcasting <- isBroadcastingB, broadcastEndTime <- broadcastEndTimeB,
  currentBroadcastIndex <- currentBroadcastIndexB, scanning <- scanningB,
  advertising <- advertisingB, advData <- advDataB, acceptedAt <- acceptedAtB, heardSince <- {}

LVictim == INSTANCE VictimBeaconProofs

\* What the theorems about one node assume of the constants is so for those here.
LEMMA NodeAssumptions ==
  /\ LA!RelayAssumption /\ LA!CacheAssumption /\ LA!FramesAssumption /\ LA!RingAssumption
  /\ LB!RelayAssumption /\ LB!CacheAssumption /\ LB!FramesAssumption /\ LB!RingAssumption
  /\ LVictim!BeaconAssumption
<1>1. TIME_OFFSET \in Nat /\ MAX_CLOCK \div MINUTE \in Nat /\ 0 \notin Frames
  BY BleMeshAssumption DEF Frames
<1> QED
  BY <1>1, BleMeshAssumption
  DEF LA!RelayAssumption, LA!CacheAssumption, LA!FramesAssumption, LA!RingAssumption,
      LB!RelayAssumption, LB!CacheAssumption, LB!FramesAssumption, LB!RingAssumption,
      LVictim!BeaconAssumption, LA!TTL_VALUES, LB!TTL_VALUES

--------------------------------------------------------------------------------
(***************************************************************************)
(* The modules of proofs have instances of their own here; they name the   *)
(* same states and steps as those of BleMesh.                              *)
(***************************************************************************)
LEMMA SameStateA == (LA!Init <=> A!Init) /\ (LA!TypeOK <=> A!TypeOK) /\ LA!vars = A!vars
BY DEF A!Init, LA!Init, A!EmptyCache, LA!EmptyCache, A!EmptyEntry, LA!EmptyEntry, A!ZeroPacket,
       LA!ZeroPacket, A!TypeOK, LA!TypeOK, A!CacheEntries, LA!CacheEntries, A!Activations,
       LA!Activations, A!Packets, LA!Packets, A!Slots, LA!Slots, A!Millis, LA!Millis, A!Byte,
       LA!Byte, A!Idle, LA!Idle, A!loopVars, LA!loopVars, A!radioVars, LA!radioVars,
       A!uplinkVars, LA!uplinkVars, A!vars, LA!vars

LEMMA SameArrivalA == LA!Arrival <=> A!Arrival
BY DEF A!Arrival, LA!Arrival, A!Hear, LA!Hear, A!BuildEmergencyPacket, LA!BuildEmergencyPacket,
       A!WithTtl, LA!WithTtl, A!UpperBits, LA!UpperBits, A!SignedFlags, LA!SignedFlags,
       A!TTL_VALUES, LA!TTL_VALUES, A!GPS_BIT, LA!GPS_BIT, A!Slots, LA!Slots, A!Millis,
       LA!Millis, A!Byte, LA!Byte, A!Idle, LA!Idle, A!loopVars, LA!loopVars, A!radioVars,
       LA!radioVars, A!uplinkVars, LA!uplinkVars, A!vars, LA!vars

LEMMA SameOnResultA == LA!OnResult <=> A!OnResult
<1>1. \A c, h, n : LA!Location(c, h, n) = A!Location(c, h, n)
  BY DEF A!Slots, LA!Slots, A!NotCached, LA!NotCached, A!Min, LA!Min, A!Expired, LA!Expired,
         A!Hits, LA!Hits, A!Location, LA!Location
<1>2. \A c, h, n, m : LA!CheckCache(c, h, n, m) = A!CheckCache(c, h, n, m)
  BY DEF A!Slots, LA!Slots, A!NotCached, LA!NotCached, A!Min, LA!Min, A!Expired, LA!Expired,
         A!Hits, LA!Hits, A!Location, LA!Location, A!RecordSender, LA!RecordSender, A!Deactivate,
         LA!Deactivate, A!CheckCache, LA!CheckCache
<1>3. \A c, p, n, j, m : LA!AddToCache(c, p, n, j, m) = A!AddToCache(c, p, n, j, m)
  BY DEF A!Slots, LA!Slots, A!Min, LA!Min, A!Expired, LA!Expired, A!Deactivate, LA!Deactivate,
         A!FreeSlots, LA!FreeSlots, A!OldestSlots, LA!OldestSlots, A!TargetSlot, LA!TargetSlot,
         A!Plus32, LA!Plus32, A!NewEntry, LA!NewEntry, A!AddToCache, LA!AddToCache
<1>4. LA!HeardLocation = A!HeardLocation /\ LA!CheckedCache = A!CheckedCache
  BY <1>1, <1>2 DEF A!HeardLocation, LA!HeardLocation, A!CheckedCache, LA!CheckedCache,
         A!MillisAt, LA!MillisAt, A!CallbackNow, LA!CallbackNow, A!HeardFrame, LA!HeardFrame
<1>5. LA!DropDuplicate <=> A!DropDuplicate
  BY <1>4 DEF A!DropDuplicate, LA!DropDuplicate, A!NotCached, LA!NotCached, A!InCallback,
         LA!InCallback, A!Idle, LA!Idle, A!loopVars, LA!loopVars, A!radioVars, LA!radioVars,
         A!uplinkVars, LA!uplinkVars
<1>6. LA!DropExhausted <=> A!DropExhausted
  BY <1>4 DEF A!DropExhausted, LA!DropExhausted, A!NotCached, LA!NotCached, A!InCallback,
         LA!InCallback, A!Idle, LA!Idle, A!Ttl, LA!Ttl, A!TTL_VALUES, LA!TTL_VALUES, A!loopVars,
         LA!loopVars, A!radioVars, LA!radioVars, A!uplinkVars, LA!uplinkVars
<1>7. LA!Queue <=> A!Queue
  BY <1>3, <1>4 DEF A!Queue, LA!Queue, A!NotCached, LA!NotCached, A!InCallback, LA!InCallback,
         A!MillisAt, LA!MillisAt, A!CallbackNow, LA!CallbackNow, A!HeardFrame, LA!HeardFrame,
         A!Idle, LA!Idle, A!Ttl, LA!Ttl, A!TTL_VALUES, LA!TTL_VALUES, A!NextHop, LA!NextHop,
         A!WithTtl, LA!WithTtl, A!UpperBits, LA!UpperBits, A!loopVars, LA!loopVars, A!radioVars,
         LA!radioVars, A!uplinkVars, LA!uplinkVars
<1>8. LA!StartForward <=> A!StartForward
  BY <1>4 DEF A!StartForward, LA!StartForward, A!NotCached, LA!NotCached, A!InCallback,
         LA!InCallback, A!loopVars, LA!loopVars, A!radioVars, LA!radioVars, A!uplinkVars,
         LA!uplinkVars
<1>9. LA!SendDatagram <=> A!SendDatagram
  BY DEF A!SendDatagram, LA!SendDatagram, A!HeardFrame, LA!HeardFrame, A!loopVars, LA!loopVars,
         A!radioVars, LA!radioVars, A!uplinkVars, LA!uplinkVars
<1>10. LA!FinishForward <=> A!FinishForward
  BY <1>1, <1>2, <1>3 DEF A!FinishForward, LA!FinishForward, A!MarkForwarded, LA!MarkForwarded,
         A!NotCached, LA!NotCached, A!MillisAt, LA!MillisAt, A!CallbackNow, LA!CallbackNow,
         A!HeardFrame, LA!HeardFrame, A!Idle, LA!Idle, A!loopVars, LA!loopVars, A!radioVars,
         LA!radioVars, A!uplinkVars, LA!uplinkVars
<1> QED
  BY <1>5, <1>6, <1>7, <1>8, <1>9, <1>10 DEF A!OnResult, LA!OnResult

LEMMA SameLoopA == LA!Loop <=> A!Loop
BY DEF A!Loop, LA!Loop, A!EnterLoop, LA!EnterLoop, A!CancelCovered, LA!CancelCovered,
       A!StartBurst, LA!StartBurst, A!KeepBurst, LA!KeepBurst, A!EndBurst, LA!EndBurst,
       A!FinishBurst, LA!FinishBurst, A!MillisAt, LA!MillisAt, A!Plus32, LA!Plus32, A!Min,
       LA!Min, A!Slots, LA!Slots, A!Millis, LA!Millis, A!Byte, LA!Byte, A!Idle, LA!Idle,
       A!loopVars, LA!loopVars, A!radioVars, LA!radioVars, A!uplinkVars, LA!uplinkVars, A!vars,
       LA!vars, A!Now, LA!Now, A!InLoop, LA!InLoop, A!Due, LA!Due, A!Uncovered, LA!Uncovered,
       A!MarkBroadcasted, LA!MarkBroadcasted, A!BurstOver, LA!BurstOver, A!BackToScanning,
       LA!BackToScanning

LEMMA SameNextA ==
  /\ LA!Tick <=> A!Tick
  /\ LA!Next <=> A!Next
<1>1. LA!Tick <=> A!Tick
  BY DEF LA!Tick, A!Tick, LA!loopVars, A!loopVars, LA!radioVars, A!radioVars,
         LA!uplinkVars, A!uplinkVars
<1>2. LA!WifiChange <=> A!WifiChange
  BY DEF LA!WifiChange, A!WifiChange
<1> QED
  BY <1>1, <1>2, SameArrivalA, SameOnResultA, SameLoopA DEF LA!Next, A!Next

LEMMA SameStateB == (LB!Init <=> B!Init) /\ (LB!TypeOK <=> B!TypeOK) /\ LB!vars = B!vars
BY DEF B!Init, LB!Init, B!EmptyCache, LB!EmptyCache, B!EmptyEntry, LB!EmptyEntry, B!ZeroPacket,
       LB!ZeroPacket, B!TypeOK, LB!TypeOK, B!CacheEntries, LB!CacheEntries, B!Activations,
       LB!Activations, B!Packets, LB!Packets, B!Slots, LB!Slots, B!Millis, LB!Millis, B!Byte,
       LB!Byte, B!Idle, LB!Idle, B!loopVars, LB!loopVars, B!radioVars, LB!radioVars,
       B!uplinkVars, LB!uplinkVars, B!vars, LB!vars

LEMMA SameArrivalB == LB!Arrival <=> B!Arrival
BY DEF B!Arrival, LB!Arrival, B!Hear, LB!Hear, B!BuildEmergencyPacket, LB!BuildEmergencyPacket,
       B!WithTtl, LB!WithTtl, B!UpperBits, LB!UpperBits, B!SignedFlags, LB!SignedFlags,
       B!TTL_VALUES, LB!TTL_VALUES, B!GPS_BIT, LB!GPS_BIT, B!Slots, LB!Slots, B!Millis,
       LB!Millis, B!Byte, LB!Byte, B!Idle, LB!Idle, B!loopVars, LB!loopVars, B!radioVars,
       LB!radioVars, B!uplinkVars, LB!uplinkVars, B!vars, LB!vars

LEMMA SameOnResultB == LB!OnResult <=> B!OnResult
<1>1. \A c, h, n : LB!Location(c, h, n) = B!Location(c, h, n)
  BY DEF B!Slots, LB!Slots, B!NotCached, LB!NotCached, B!Min, LB!Min, B!Expired, LB!Expired,
         B!Hits, LB!Hits, B!Location, LB!Location
<1>2. \A c, h, n, m : LB!CheckCache(c, h, n, m) = B!CheckCache(c, h, n, m)
  BY DEF B!Slots, LB!Slots, B!NotCached, LB!NotCached, B!Min, LB!Min, B!Expired, LB!Expired,
         B!Hits, LB!Hits, B!Location, LB!Location, B!RecordSender, LB!RecordSender, B!Deactivate,
         LB!Deactivate, B!CheckCache, LB!CheckCache
<1>3. \A c, p, n, j, m : LB!AddToCache(c, p, n, j, m) = B!AddToCache(c, p, n, j, m)
  BY DEF B!Slots, LB!Slots, B!Min, LB!Min, B!Expired, LB!Expired, B!Deactivate, LB!Deactivate,
         B!FreeSlots, LB!FreeSlots, B!OldestSlots, LB!OldestSlots, B!TargetSlot, LB!TargetSlot,
         B!Plus32, LB!Plus32, B!NewEntry, LB!NewEntry, B!AddToCache, LB!AddToCache
<1>4. LB!HeardLocation = B!HeardLocation /\ LB!CheckedCache = B!CheckedCache
  BY <1>1, <1>2 DEF B!HeardLocation, LB!HeardLocation, B!CheckedCache, LB!CheckedCache,
         B!MillisAt, LB!MillisAt, B!CallbackNow, LB!CallbackNow, B!HeardFrame, LB!HeardFrame
<1>5. LB!DropDuplicate <=> B!DropDuplicate
  BY <1>4 DEF B!DropDuplicate, LB!DropDuplicate, B!NotCached, LB!NotCached, B!InCallback,
         LB!InCallback, B!Idle, LB!Idle, B!loopVars, LB!loopVars, B!radioVars, LB!radioVars,
         B!uplinkVars, LB!uplinkVars
<1>6. LB!DropExhausted <=> B!DropExhausted
  BY <1>4 DEF B!DropExhausted, LB!DropExhausted, B!NotCached, LB!NotCached, B!InCallback,
         LB!InCallback, B!Idle, LB!Idle, B!Ttl, LB!Ttl, B!TTL_VALUES, LB!TTL_VALUES, B!loopVars,
         LB!loopVars, B!radioVars, LB!radioVars, B!uplinkVars, LB!uplinkVars
<1>7. LB!Queue <=> B!Queue
  BY <1>3, <1>4 DEF B!Queue, LB!Queue, B!NotCached, LB!NotCached, B!InCallback, LB!InCallback,
         B!MillisAt, LB!MillisAt, B!CallbackNow, LB!CallbackNow, B!HeardFrame, LB!HeardFrame,
         B!Idle, LB!Idle, B!Ttl, LB!Ttl, B!TTL_VALUES, LB!TTL_VALUES, B!NextHop, LB!NextHop,
         B!WithTtl, LB!WithTtl, B!UpperBits, LB!UpperBits, B!loopVars, LB!loopVars, B!radioVars,
         LB!radioVars, B!uplinkVars, LB!uplinkVars
<1>8. LB!StartForward <=> B!StartForward
  BY <1>4 DEF B!StartForward, LB!StartForward, B!NotCached, LB!NotCached, B!InCallback,
         LB!InCallback, B!loopVars, LB!loopVars, B!radioVars, LB!radioVars, B!uplinkVars,
         LB!uplinkVars
<1>9. LB!SendDatagram <=> B!SendDatagram
  BY DEF B!SendDatagram, LB!SendDatagram, B!HeardFrame, LB!HeardFrame, B!loopVars, LB!loopVars,
         B!radioVars, LB!radioVars, B!uplinkVars, LB!uplinkVars
<1>10. LB!FinishForward <=> B!FinishForward
  BY <1>1, <1>2, <1>3 DEF B!FinishForward, LB!FinishForward, B!MarkForwarded, LB!MarkForwarded,
         B!NotCached, LB!NotCached, B!MillisAt, LB!MillisAt, B!CallbackNow, LB!CallbackNow,
         B!HeardFrame, LB!HeardFrame, B!Idle, LB!Idle, B!loopVars, LB!loopVars, B!radioVars,
         LB!radioVars, B!uplinkVars, LB!uplinkVars
<1> QED
  BY <1>5, <1>6, <1>7, <1>8, <1>9, <1>10 DEF B!OnResult, LB!OnResult

LEMMA SameLoopB == LB!Loop <=> B!Loop
BY DEF B!Loop, LB!Loop, B!EnterLoop, LB!EnterLoop, B!CancelCovered, LB!CancelCovered,
       B!StartBurst, LB!StartBurst, B!KeepBurst, LB!KeepBurst, B!EndBurst, LB!EndBurst,
       B!FinishBurst, LB!FinishBurst, B!MillisAt, LB!MillisAt, B!Plus32, LB!Plus32, B!Min,
       LB!Min, B!Slots, LB!Slots, B!Millis, LB!Millis, B!Byte, LB!Byte, B!Idle, LB!Idle,
       B!loopVars, LB!loopVars, B!radioVars, LB!radioVars, B!uplinkVars, LB!uplinkVars, B!vars,
       LB!vars, B!Now, LB!Now, B!InLoop, LB!InLoop, B!Due, LB!Due, B!Uncovered, LB!Uncovered,
       B!MarkBroadcasted, LB!MarkBroadcasted, B!BurstOver, LB!BurstOver, B!BackToScanning,
       LB!BackToScanning

LEMMA SameNextB ==
  /\ LB!Tick <=> B!Tick
  /\ LB!Next <=> B!Next
<1>1. LB!Tick <=> B!Tick
  BY DEF LB!Tick, B!Tick, LB!loopVars, B!loopVars, LB!radioVars, B!radioVars,
         LB!uplinkVars, B!uplinkVars
<1>2. LB!WifiChange <=> B!WifiChange
  BY DEF LB!WifiChange, B!WifiChange
<1> QED
  BY <1>1, <1>2, SameArrivalB, SameOnResultB, SameLoopB DEF LB!Next, B!Next

LEMMA SamePackets ==
  \A frame, ttl :
    /\ LA!BuildEmergencyPacket(frame, ttl) = A!BuildEmergencyPacket(frame, ttl)
    /\ LB!BuildEmergencyPacket(frame, ttl) = A!BuildEmergencyPacket(frame, ttl)
    /\ B!BuildEmergencyPacket(frame, ttl) = A!BuildEmergencyPacket(frame, ttl)
BY DEF A!BuildEmergencyPacket, A!WithTtl, A!UpperBits, A!SignedFlags, A!TTL_VALUES, A!GPS_BIT,
       LA!BuildEmergencyPacket, LA!WithTtl, LA!UpperBits, LA!SignedFlags, LA!TTL_VALUES,
       LA!GPS_BIT, B!BuildEmergencyPacket, B!WithTtl, B!UpperBits, B!SignedFlags, B!TTL_VALUES,
       B!GPS_BIT, LB!BuildEmergencyPacket, LB!WithTtl, LB!UpperBits, LB!SignedFlags,
       LB!TTL_VALUES, LB!GPS_BIT

LEMMA SameVictim ==
  /\ LVictim!Init <=> Victim!Init
  /\ LVictim!Next <=> Victim!Next
  /\ LVictim!vars = Victim!vars
  /\ LVictim!TypeOK <=> Victim!TypeOK
BY DEF Victim!Init, LVictim!Init, Victim!Next, LVictim!Next, Victim!Tick, LVictim!Tick,
       Victim!Setup, LVictim!Setup, Victim!Loop, LVictim!Loop, Victim!CheckMinute,
       LVictim!CheckMinute, Victim!MarkMinute, LVictim!MarkMinute, Victim!BuildEmergencyPacket,
       LVictim!BuildEmergencyPacket, Victim!SetAdvertisementData, LVictim!SetAdvertisementData,
       Victim!StartAdvertising, LVictim!StartAdvertising, Victim!StopAdvertising,
       LVictim!StopAdvertising, Victim!EndPass, LVictim!EndPass, Victim!PauseOver,
       LVictim!PauseOver, Victim!Minute, LVictim!Minute, Victim!NewTimestamp,
       LVictim!NewTimestamp, Victim!packetVars, LVictim!packetVars, Victim!historyVars,
       LVictim!historyVars, Victim!vars, LVictim!vars, Victim!TypeOK, LVictim!TypeOK,
       Victim!FinalMinute, LVictim!FinalMinute

--------------------------------------------------------------------------------
(***************************************************************************)
(* The victim.  Nothing that relays do concerns it.                        *)
(***************************************************************************)
VictimInv == LVictim!TypeOK /\ LVictim!RadioInv /\ LVictim!PacketInv

\* Only Tick makes time go on.
LEMMA ClockStands ==
  /\ \A p, m : A!Hear(p, m) \/ B!Hear(p, m) => clock' = clock
  /\ A!OnResult \/ B!OnResult \/ A!PromptLoop \/ B!PromptLoop => clock' = clock
  /\ Victim!Setup \/ Victim!Loop => clock' = clock
<1>1. (\E p, m : A!Hear(p, m)) \/ A!OnResult \/ A!PromptLoop => clock' = clock
  BY DEF A!Hear, A!OnResult, A!DropDuplicate, A!DropExhausted, A!Queue, A!StartForward,
         A!SendDatagram, A!FinishForward, A!PromptLoop, A!Loop, A!EnterLoop, A!CancelCovered,
         A!StartBurst, A!KeepBurst, A!EndBurst, A!FinishBurst, A!vars
<1>2. (\E p, m : B!Hear(p, m)) \/ B!OnResult \/ B!PromptLoop => clock' = clock
  BY DEF B!Hear, B!OnResult, B!DropDuplicate, B!DropExhausted, B!Queue, B!StartForward,
         B!SendDatagram, B!FinishForward, B!PromptLoop, B!Loop, B!EnterLoop, B!CancelCovered,
         B!StartBurst, B!KeepBurst, B!EndBurst, B!FinishBurst, B!vars
<1>3. Victim!Setup \/ Victim!Loop => clock' = clock
  BY DEF Victim!Setup, Victim!Loop, Victim!CheckMinute, Victim!MarkMinute,
         Victim!BuildEmergencyPacket, Victim!SetAdvertisementData, Victim!StartAdvertising,
         Victim!StopAdvertising, Victim!EndPass
<1> QED
  BY <1>1, <1>2, <1>3

LEMMA VictimSteps ==
  ASSUME [Next]_vars
  PROVE  [Victim!Next]_(Victim!vars)
<1>1. CASE Tick \/ VictimStep
  BY <1>1 DEF Tick, VictimStep, Victim!Next
<1>2. CASE HearA \/ OnResultA \/ LoopA \/ HearB \/ OnResultB \/ LoopB \/ UNCHANGED vars
  <2>1. UNCHANGED <<clock, victimVars>>
    BY <1>2, ClockStands DEF HearA, OnResultA, LoopA, HearB, OnResultB, LoopB, vars
  <2> QED
    BY <2>1 DEF victimVars, Victim!vars, Victim!packetVars, Victim!historyVars
<1> QED
  BY <1>1, <1>2 DEF Next

LEMMA VictimOfBleMesh == Spec => Victim!Spec
<1>1. Init => Victim!Init
  BY DEF Init
<1>2. [Next]_vars => [Victim!Next]_(Victim!vars)
  BY VictimSteps
<1> QED
  BY <1>1, <1>2, PTL DEF Spec, Victim!Spec

LEMMA VictimInvariance == Spec => []VictimInv
<1>1. LVictim!Spec => [](LVictim!TypeOK /\ LVictim!RadioInv)
  BY LVictim!RadioInvariance, NodeAssumptions
<1>2. LVictim!Spec => [](LVictim!TypeOK /\ LVictim!PacketInv)
  BY LVictim!PacketInvariance, NodeAssumptions
<1>3. Victim!Spec => LVictim!Spec
  <2>1. Victim!Init => LVictim!Init
    BY SameVictim
  <2>2. [Victim!Next]_(Victim!vars) => [LVictim!Next]_(LVictim!vars)
    BY SameVictim DEF Victim!vars, LVictim!vars, Victim!packetVars, LVictim!packetVars,
                      Victim!historyVars, LVictim!historyVars
  <2> QED
    BY <2>1, <2>2, PTL DEF Victim!Spec, LVictim!Spec
<1> QED
  BY <1>1, <1>2, <1>3, VictimOfBleMesh, PTL DEF VictimInv

\* What the victim airs, or is about to air, or has aired, is of a minute of its run.
LEMMA AdvertisedIsFrame ==
  ASSUME VictimInv, pc \in {"start", "airing", "pausing"}
  PROVE  advertised \in Frames
<1>1. /\ advertised \in {0} \cup TIME_OFFSET .. TIME_OFFSET + MAX_CLOCK \div MINUTE
      /\ passMinute \in Nat
  BY BleMeshAssumption DEF VictimInv, LVictim!TypeOK, LVictim!FinalMinute
<1>2. advertised >= TIME_OFFSET + passMinute
  BY DEF VictimInv, LVictim!RadioInv, LVictim!PacketInv
<1>3. TIME_OFFSET \in Nat /\ MAX_CLOCK \div MINUTE \in Nat /\ TIME_OFFSET > 0
  BY BleMeshAssumption
<1> QED
  BY <1>1, <1>2, <1>3 DEF Frames

--------------------------------------------------------------------------------
(***************************************************************************)
(* The relays.  Each relies on the other to air only what may be heard,    *)
(* one step at a time.                                                     *)
(***************************************************************************)
NodesInv == LA!IInv /\ LA!AirtimeInv /\ LB!IInv /\ LB!AirtimeInv

\* What A hears, from the victim or from B, is what Relay lets arrive.
LEMMA AHearsArrivals ==
  ASSUME NodesInv, VictimInv, HearA
  PROVE  A!Arrival
<1>1. PICK p \in VictimOnAir \cup BOnAir : A!Hear(p[1], p[2])
  BY DEF HearA
<1>2. p[2] \in Macs
  BY DEF VictimOnAir, BOnAir, Macs
<1>3. \E frame \in Frames, ttl \in 1 .. TTL : p[1] = A!BuildEmergencyPacket(frame, ttl)
  <2>1. CASE p \in VictimOnAir
    <3>1. advertising /\ p[1] = A!BuildEmergencyPacket(advertised, TTL)
      BY <2>1 DEF VictimOnAir
    <3>2. advertised \in Frames
      BY <3>1, AdvertisedIsFrame DEF VictimInv, LVictim!RadioInv
    <3>3. TTL \in 1 .. TTL
      BY <3>1, BleMeshAssumption
    <3> QED
      BY <3>1, <3>2, <3>3, SamePackets
  <2>2. CASE p \in BOnAir
    <3>1. advertisingB /\ p[1] = advDataB
      BY <2>2 DEF BOnAir
    <3>2. LB!AirsWhatIsHeard
      BY LB!AirtimeIsHeard, NodeAssumptions DEF NodesInv
    <3>3. PICK frame \in Frames, ttl \in 1 .. LB!TTL_VALUES - 1 :
            advDataB = LB!BuildEmergencyPacket(frame, ttl) /\ ttl + 1 \in 1 .. TTL
      BY <3>1, <3>2 DEF LB!AirsWhatIsHeard
    <3>4. ttl \in 1 .. TTL
      BY <3>3, BleMeshAssumption DEF LB!TTL_VALUES
    <3> QED
      BY <3>1, <3>3, <3>4, SamePackets
  <2> QED
    BY <2>1, <2>2
<1> QED
  BY <1>1, <1>2, <1>3 DEF A!Arrival

\* What B hears, from the victim or from A, is what Relay lets arrive.
LEMMA BHearsArrivals ==
  ASSUME NodesInv, VictimInv, HearB
  PROVE  B!Arrival
<1>1. PICK p \in VictimOnAir \cup AOnAir : B!Hear(p[1], p[2])
  BY DEF HearB
<1>2. p[2] \in Macs
  BY DEF VictimOnAir, AOnAir, Macs
<1>3. \E frame \in Frames, ttl \in 1 .. TTL : p[1] = B!BuildEmergencyPacket(frame, ttl)
  <2>1. CASE p \in VictimOnAir
    <3>1. advertising /\ p[1] = A!BuildEmergencyPacket(advertised, TTL)
      BY <2>1 DEF VictimOnAir
    <3>2. advertised \in Frames
      BY <3>1, AdvertisedIsFrame DEF VictimInv, LVictim!RadioInv
    <3>3. TTL \in 1 .. TTL
      BY <3>1, BleMeshAssumption
    <3> QED
      BY <3>1, <3>2, <3>3, SamePackets
  <2>2. CASE p \in AOnAir
    <3>1. advertisingA /\ p[1] = advDataA
      BY <2>2 DEF AOnAir
    <3>2. LA!AirsWhatIsHeard
      BY LA!AirtimeIsHeard, NodeAssumptions DEF NodesInv
    <3>3. PICK frame \in Frames, ttl \in 1 .. LA!TTL_VALUES - 1 :
            advDataA = LA!BuildEmergencyPacket(frame, ttl) /\ ttl + 1 \in 1 .. TTL
      BY <3>1, <3>2 DEF LA!AirsWhatIsHeard
    <3>4. ttl \in 1 .. TTL
      BY <3>3, BleMeshAssumption DEF LA!TTL_VALUES
    <3> QED
      BY <3>1, <3>3, <3>4, SamePackets
  <2> QED
    BY <2>1, <2>2
<1> QED
  BY <1>1, <1>2, <1>3 DEF B!Arrival

LEMMA ASteps ==
  ASSUME NodesInv, VictimInv, [Next]_vars
  PROVE  [A!PromptNext]_(A!vars)
<1>1. CASE Tick
  BY <1>1 DEF Tick, A!PromptNext, A!PromptTick
<1>2. CASE HearA
  BY <1>2, AHearsArrivals DEF A!PromptNext
<1>3. CASE OnResultA \/ LoopA
  BY <1>3 DEF OnResultA, LoopA, A!PromptNext
<1>4. CASE VictimStep \/ HearB \/ OnResultB \/ LoopB \/ UNCHANGED vars
  <2>1. UNCHANGED <<clock, varsA>>
    BY <1>4, ClockStands DEF VictimStep, HearB, OnResultB, LoopB, vars
  <2> QED
    BY <2>1 DEF varsA, A!vars, A!loopVars, A!radioVars, A!uplinkVars
<1> QED
  BY <1>1, <1>2, <1>3, <1>4 DEF Next

LEMMA BSteps ==
  ASSUME NodesInv, VictimInv, [Next]_vars
  PROVE  [B!PromptNext]_(B!vars)
<1>1. CASE Tick
  BY <1>1 DEF Tick, B!PromptNext, B!PromptTick
<1>2. CASE HearB
  BY <1>2, BHearsArrivals DEF B!PromptNext
<1>3. CASE OnResultB \/ LoopB
  BY <1>3 DEF OnResultB, LoopB, B!PromptNext
<1>4. CASE VictimStep \/ HearA \/ OnResultA \/ LoopA \/ UNCHANGED vars
  <2>1. UNCHANGED <<clock, varsB>>
    BY <1>4, ClockStands DEF VictimStep, HearA, OnResultA, LoopA, vars
  <2> QED
    BY <2>1 DEF varsB, B!vars, B!loopVars, B!radioVars, B!uplinkVars
<1> QED
  BY <1>1, <1>2, <1>3, <1>4 DEF Next

LEMMA AStepsOfRelay ==
  ASSUME [A!PromptNext]_(A!vars)
  PROVE  [LA!Next]_(LA!vars)
<1>1. CASE A!PromptNext
  BY <1>1, SameNextA
  DEF A!PromptNext, A!PromptTick, A!PromptLoop, A!Next
<1>2. CASE UNCHANGED A!vars
  BY <1>2 DEF A!vars, LA!vars, A!loopVars, LA!loopVars, A!radioVars, LA!radioVars,
              A!uplinkVars, LA!uplinkVars
<1> QED
  BY <1>1, <1>2

LEMMA BStepsOfRelay ==
  ASSUME [B!PromptNext]_(B!vars)
  PROVE  [LB!Next]_(LB!vars)
<1>1. CASE B!PromptNext
  BY <1>1, SameNextB
  DEF B!PromptNext, B!PromptTick, B!PromptLoop, B!Next
<1>2. CASE UNCHANGED B!vars
  BY <1>2 DEF B!vars, LB!vars, B!loopVars, LB!loopVars, B!radioVars, LB!radioVars,
              B!uplinkVars, LB!uplinkVars
<1> QED
  BY <1>1, <1>2

LEMMA InitNodesInv == Init => NodesInv
<1> SUFFICES ASSUME Init PROVE NodesInv
  OBVIOUS
<1>1. LA!Init /\ LB!Init
  BY SameStateA, SameStateB DEF Init
<1>2. LA!IInv /\ LB!IInv
  BY <1>1, LA!InitIInv, LB!InitIInv, NodeAssumptions
<1>3. LA!AirtimeInv /\ LB!AirtimeInv
  BY <1>1, LA!InitAirtimeInv, LB!InitAirtimeInv, NodeAssumptions
<1> QED
  BY <1>2, <1>3 DEF NodesInv

LEMMA NodesInvKept ==
  ASSUME NodesInv, VictimInv, [Next]_vars
  PROVE  NodesInv'
<1>1. [LA!Next]_(LA!vars) /\ [LB!Next]_(LB!vars)
  BY ASteps, BSteps, AStepsOfRelay, BStepsOfRelay
<1>2. LA!IInv' /\ LB!IInv'
  BY <1>1, LA!IInvKept, LB!IInvKept, NodeAssumptions DEF NodesInv
<1>3. LA!AirtimeInv' /\ LB!AirtimeInv'
  BY <1>1, LA!AirtimeInvKept, LB!AirtimeInvKept, NodeAssumptions DEF NodesInv
<1> QED
  BY <1>2, <1>3 DEF NodesInv

\* The invariant of the composition: those of its nodes.
LEMMA NodesInvariance == Spec => [](NodesInv /\ VictimInv)
<1>1. NodesInv /\ VictimInv /\ [Next]_vars => NodesInv'
  BY NodesInvKept
<1> QED
  BY <1>1, InitNodesInv, VictimInvariance, PTL DEF Spec

--------------------------------------------------------------------------------
(***************************************************************************)
(* A victim and two relays in reach of each other are a victim and two     *)
(* relays: what setup, loop and onResult of one node make its neighbours   *)
(* hear is no more than Relay takes into account, for any timing and TTL.  *)
(***************************************************************************)
THEOREM NodesKeepTheirSpecsHolds == Spec => NodesKeepTheirSpecs
<1>1. Init => A!Init /\ B!Init
  BY DEF Init
<1>2. NodesInv /\ VictimInv /\ [Next]_vars => [A!PromptNext]_(A!vars) /\ [B!PromptNext]_(B!vars)
  BY ASteps, BSteps
<1> QED
  BY <1>1, <1>2, NodesInvariance, VictimOfBleMesh, PTL
  DEF Spec, NodesKeepTheirSpecs, A!PromptSpec, B!PromptSpec

\* Every variable of every node keeps its type, whatever is on the air.
THEOREM TypeCorrect == Spec => []TypeOK
<1>1. NodesInv /\ VictimInv => TypeOK
  <2>1. LVictim!TypeOK /\ LA!TypeOK /\ LB!TypeOK => TypeOK
    BY SameVictim, SameStateA, SameStateB DEF TypeOK
  <2> QED
    BY <2>1 DEF NodesInv, VictimInv, LA!IInv, LB!IInv
<1> QED
  BY <1>1, NodesInvariance, PTL

\* Relay, without the promptness that BleMesh adds.
LEMMA RelaysOfBleMesh == Spec => LA!Spec /\ LB!Spec
<1>1. Init => LA!Init /\ LB!Init
  BY SameStateA, SameStateB DEF Init
<1>2. NodesInv /\ VictimInv /\ [Next]_vars => [LA!Next]_(LA!vars) /\ [LB!Next]_(LB!vars)
  BY ASteps, BSteps, AStepsOfRelay, BStepsOfRelay
<1> QED
  BY <1>1, <1>2, NodesInvariance, PTL DEF Spec, LA!Spec, LB!Spec

(***************************************************************************)
(* What is proved of one relay carries over to the relays of a mesh: a     *)
(* relay that hears the victim and the other relay accepts a frame it      *)
(* still has in its cache a lifetime later at the earliest.                *)
(***************************************************************************)
THEOREM RelaysAcceptOncePerLifetime ==
  ASSUME MAX_CLOCK + CACHE_TTL_MS < UINT32
  PROVE  Spec => A!AcceptOncePerLifetime /\ B!AcceptOncePerLifetime
<1>1. LA!NoWrap /\ LB!NoWrap
  BY DEF LA!NoWrap, LB!NoWrap
<1>2. LA!Spec => LA!AcceptOncePerLifetime
  BY <1>1, LA!AcceptOncePerLifetimeHolds, NodeAssumptions
<1>3. LB!Spec => LB!AcceptOncePerLifetime
  BY <1>1, LB!AcceptOncePerLifetimeHolds, NodeAssumptions
<1>4. LA!AcceptOncePerLifetime <=> A!AcceptOncePerLifetime
  BY DEF A!AcceptOncePerLifetime, LA!AcceptOncePerLifetime, A!CachedIn, LA!CachedIn, A!Slots,
         LA!Slots, A!vars, LA!vars, A!loopVars, LA!loopVars, A!radioVars, LA!radioVars,
         A!uplinkVars, LA!uplinkVars
<1>5. LB!AcceptOncePerLifetime <=> B!AcceptOncePerLifetime
  BY DEF B!AcceptOncePerLifetime, LB!AcceptOncePerLifetime, B!CachedIn, LB!CachedIn, B!Slots,
         LB!Slots, B!vars, LB!vars, B!loopVars, LB!loopVars, B!radioVars, LB!radioVars,
         B!uplinkVars, LB!uplinkVars
<1> QED
  BY <1>2, <1>3, <1>4, <1>5, RelaysOfBleMesh, PTL

LEMMA KeptUnsent == RelaysKeepUnsent => LA!KeepsUnsent /\ LB!KeepsUnsent
<1>1. [A!UnsentStays /\ B!UnsentStays]_vars => [LA!UnsentStays]_(LA!vars)
  BY DEF vars, varsA, LA!vars, LA!loopVars, LA!radioVars, LA!uplinkVars, A!UnsentStays,
         LA!UnsentStays, A!Slots, LA!Slots
<1>2. [A!UnsentStays /\ B!UnsentStays]_vars => [LB!UnsentStays]_(LB!vars)
  BY DEF vars, varsB, LB!vars, LB!loopVars, LB!radioVars, LB!uplinkVars, B!UnsentStays,
         LB!UnsentStays, B!Slots, LB!Slots
<1> QED
  BY <1>1, <1>2, PTL DEF RelaysKeepUnsent, LA!KeepsUnsent, LB!KeepsUnsent

(***************************************************************************)
(* As long as what is queued gets its turn before it expires, each relay   *)
(* of a mesh takes every frame through the life cycle of managed flooding. *)
(***************************************************************************)
THEOREM RelaysKeepLifecycle ==
  Spec /\ RelaysKeepUnsent => A!ImplementsLifecycle /\ B!ImplementsLifecycle
<1>1. LA!Spec /\ LA!KeepsUnsent => LA!ImplementsLifecycle
  BY LA!UnsentKeptImplementsLifecycle, NodeAssumptions
<1>2. LB!Spec /\ LB!KeepsUnsent => LB!ImplementsLifecycle
  BY LB!UnsentKeptImplementsLifecycle, NodeAssumptions
<1>3. LA!ImplementsLifecycle <=> A!ImplementsLifecycle
  BY DEF A!Lifecycle!Cardinality, LA!Lifecycle!Cardinality, A!ImplementsLifecycle,
         LA!ImplementsLifecycle, A!FrameStatus, LA!FrameStatus, A!OnAir, LA!OnAir, A!Queued,
         LA!Queued, A!CachedIn, LA!CachedIn, A!HeardFrom, LA!HeardFrom, A!Slots, LA!Slots,
         A!Lifecycle!vars, LA!Lifecycle!vars, A!Lifecycle!Covered, LA!Lifecycle!Covered,
         A!Lifecycle!Init, LA!Lifecycle!Init, A!Lifecycle!Forget, LA!Lifecycle!Forget,
         A!Lifecycle!Accept, LA!Lifecycle!Accept, A!Lifecycle!HearAgain,
         LA!Lifecycle!HearAgain, A!Lifecycle!Cancel, LA!Lifecycle!Cancel, A!Lifecycle!Air,
         LA!Lifecycle!Air, A!Lifecycle!EndAir, LA!Lifecycle!EndAir, A!Lifecycle!Next,
         LA!Lifecycle!Next, A!Lifecycle!Spec, LA!Lifecycle!Spec
<1>4. LB!ImplementsLifecycle <=> B!ImplementsLifecycle
  BY DEF B!Lifecycle!Cardinality, LB!Lifecycle!Cardinality, B!ImplementsLifecycle,
         LB!ImplementsLifecycle, B!FrameStatus, LB!FrameStatus, B!OnAir, LB!OnAir, B!Queued,
         LB!Queued, B!CachedIn, LB!CachedIn, B!HeardFrom, LB!HeardFrom, B!Slots, LB!Slots,
         B!Lifecycle!vars, LB!Lifecycle!vars, B!Lifecycle!Covered, LB!Lifecycle!Covered,
         B!Lifecycle!Init, LB!Lifecycle!Init, B!Lifecycle!Forget, LB!Lifecycle!Forget,
         B!Lifecycle!Accept, LB!Lifecycle!Accept, B!Lifecycle!HearAgain,
         LB!Lifecycle!HearAgain, B!Lifecycle!Cancel, LB!Lifecycle!Cancel, B!Lifecycle!Air,
         LB!Lifecycle!Air, B!Lifecycle!EndAir, LB!Lifecycle!EndAir, B!Lifecycle!Next,
         LB!Lifecycle!Next, B!Lifecycle!Spec, LB!Lifecycle!Spec
<1> QED
  BY <1>1, <1>2, <1>3, <1>4, KeptUnsent, RelaysOfBleMesh, PTL

--------------------------------------------------------------------------------
(***************************************************************************)
(* The flood of one burst.  The victim waits for long enough between its   *)
(* bursts that both relays have aired the frame, or cancelled it, and      *)
(* forgotten it when the next one begins: there is one frame at a time,    *)
(* and a relay is in the situation RelayProofs calls RelaysOne.  The       *)
(* inequalities are those of the constants in the code, 700 ms being the   *)
(* longest jitter and the burst: 1400 < 2000, 500 + 700 < 2000 and         *)
(* 700 + 2000 <= 4500.                                                     *)
(***************************************************************************)
TimingsFit(longest) ==
  /\ longest \in Nat /\ Jitters \subseteq 0 .. longest
  /\ 0 < BROADCAST_BURST
  /\ 2 * (longest + BROADCAST_BURST) < CACHE_TTL_MS
  /\ AIRING + longest + BROADCAST_BURST < CACHE_TTL_MS
  /\ longest + BROADCAST_BURST + CACHE_TTL_MS <= PAUSE
  /\ MAX_CLOCK + CACHE_TTL_MS < UINT32

\* A relay accepts the frame from the victim, or from the other relay, which
\* has it from the victim.
Reached(start, frame, longest, mine, theirs) ==
  mine[frame] >= start =>
    \/ mine[frame] <= start + AIRING
    \/ /\ theirs[frame] \in start .. start + AIRING
       /\ mine[frame] <= theirs[frame] + longest + BROADCAST_BURST

\* A callback that waits was called while its sender was on the air.
Audible(start, frame, longest, mac, other, theirs, end) ==
  \/ mac = "victim" /\ clock <= start + AIRING
  \/ /\ mac = other
     /\ theirs[frame] >= start /\ clock <= theirs[frame] + longest + BROADCAST_BURST
     /\ end >= start + BROADCAST_BURST

\* The senders counted are the victim and the other relay, if that has aired the frame.
Senders(start, frame, mine, seen, other, end) ==
  mine[frame] >= start =>
    seen \subseteq {"victim", other} /\ (other \in seen => end >= start + BROADCAST_BURST)

Flood(start, frame, longest) ==
  /\ start \in 0 .. clock
  /\ pc = "airing" => clock <= start + AIRING
  /\ LA!RelaysOne(start, frame, longest) /\ LB!RelaysOne(start, frame, longest)
  /\ Reached(start, frame, longest, acceptedAtA, acceptedAtB)
  /\ Reached(start, frame, longest, acceptedAtB, acceptedAtA)
  /\ callbackA.pc = "waiting" =>
       Audible(start, frame, longest, callbackA.mac, "B", acceptedAtB, broadcastEndTimeB)
  /\ callbackB.pc = "waiting" =>
       Audible(start, frame, longest, callbackB.mac, "A", acceptedAtA, broadcastEndTimeA)
  /\ Senders(start, frame, acceptedAtA, cacheA[0].seen_macs, "B", broadcastEndTimeB)
  /\ Senders(start, frame, acceptedAtB, cacheB[0].seen_macs, "A", broadcastEndTimeA)

\* Between two passes of its loop the victim finds everything forgotten.
Quiet ==
  /\ LA!Unheard(clock) /\ LB!Unheard(clock)
  /\ callbackA.pc = "idle" /\ callbackB.pc = "idle"
  /\ SomebodyRelays

InPass == pc \in {"airing", "pausing"}

FloodInv(longest) ==
  /\ InPass => Flood(BurstStart, advertised, longest)
  /\ ~InPass => Quiet

LEMMA TimingFacts ==
  ASSUME NEW longest, TimingsFit(longest)
  PROVE  /\ LA!BurstFits(longest) /\ LB!BurstFits(longest)
         /\ longest \in Nat
         /\ {AIRING, PAUSE, BROADCAST_BURST, CACHE_TTL_MS, MAX_CLOCK, longest + BROADCAST_BURST}
              \subseteq Nat
<1>1. /\ longest \in Nat /\ BROADCAST_BURST \in Nat /\ CACHE_TTL_MS \in Nat
      /\ AIRING \in Nat /\ PAUSE \in Nat /\ MAX_CLOCK \in Nat
  BY BleMeshAssumption DEF TimingsFit
<1>2. longest + BROADCAST_BURST \in Nat /\ longest + BROADCAST_BURST < CACHE_TTL_MS
  BY <1>1 DEF TimingsFit
<1> QED
  BY <1>1, <1>2 DEF TimingsFit, LA!BurstFits, LB!BurstFits, LA!NoWrap, LB!NoWrap

\* The states of the nodes have their types, whatever the instance they are named by.
LEMMA NodeTypes ==
  ASSUME NodesInv, VictimInv
  PROVE  /\ clock \in 0 .. MAX_CLOCK /\ clock \in Nat
         /\ LA!TypeOK /\ LB!TypeOK
         /\ acceptedAtA \in [Frames -> Nat \cup {-1}] /\ acceptedAtB \in [Frames -> Nat \cup {-1}]
         /\ broadcastEndTimeA \in Nat /\ broadcastEndTimeB \in Nat
         /\ pc \in {"setup", "check", "mark", "build", "publish", "start", "airing", "pausing"}
         /\ wakeAt \in Nat /\ silentSince \in Nat
<1>1. LVictim!TypeOK /\ LA!TypeOK /\ LB!TypeOK
  BY DEF NodesInv, VictimInv, LA!IInv, LB!IInv
<1> QED
  BY <1>1, BleMeshAssumption
  DEF LVictim!TypeOK, LA!TypeOK, LB!TypeOK, LA!Millis, LB!Millis

LEMMA SamePromptA ==
  /\ \A p, m : LA!Hear(p, m) <=> A!Hear(p, m)
  /\ LA!PromptLoop <=> A!PromptLoop
  /\ LA!LoopIdle <=> A!LoopIdle
  /\ LA!UnsentStays <=> A!UnsentStays
<1>1. \A p, m : LA!Hear(p, m) <=> A!Hear(p, m)
  BY DEF A!Hear, LA!Hear, A!loopVars, LA!loopVars, A!radioVars, LA!radioVars, A!uplinkVars,
         LA!uplinkVars
<1>2. LA!Due(LA!Now) = A!Due(A!Now) /\ (LA!BurstOver <=> A!BurstOver)
  BY DEF A!Due, LA!Due, A!Slots, LA!Slots, A!Now, LA!Now, A!MillisAt, LA!MillisAt, A!BurstOver,
         LA!BurstOver
<1>3. LA!PromptLoop <=> A!PromptLoop
  BY <1>2, SameLoopA DEF A!PromptLoop, LA!PromptLoop
<1>4. LA!LoopIdle <=> A!LoopIdle
  BY <1>2 DEF A!LoopIdle, LA!LoopIdle
<1>5. LA!UnsentStays <=> A!UnsentStays
  BY DEF A!UnsentStays, LA!UnsentStays, A!Slots, LA!Slots
<1> QED
  BY <1>1, <1>3, <1>4, <1>5

LEMMA SamePromptB ==
  /\ \A p, m : LB!Hear(p, m) <=> B!Hear(p, m)
  /\ LB!PromptLoop <=> B!PromptLoop
  /\ LB!LoopIdle <=> B!LoopIdle
  /\ LB!UnsentStays <=> B!UnsentStays
<1>1. \A p, m : LB!Hear(p, m) <=> B!Hear(p, m)
  BY DEF B!Hear, LB!Hear, B!loopVars, LB!loopVars, B!radioVars, LB!radioVars, B!uplinkVars,
         LB!uplinkVars
<1>2. LB!Due(LB!Now) = B!Due(B!Now) /\ (LB!BurstOver <=> B!BurstOver)
  BY DEF B!Due, LB!Due, B!Slots, LB!Slots, B!Now, LB!Now, B!MillisAt, LB!MillisAt, B!BurstOver,
         LB!BurstOver
<1>3. LB!PromptLoop <=> B!PromptLoop
  BY <1>2, SameLoopB DEF B!PromptLoop, LB!PromptLoop
<1>4. LB!LoopIdle <=> B!LoopIdle
  BY <1>2 DEF B!LoopIdle, LB!LoopIdle
<1>5. LB!UnsentStays <=> B!UnsentStays
  BY DEF B!UnsentStays, LB!UnsentStays, B!Slots, LB!Slots
<1> QED
  BY <1>1, <1>3, <1>4, <1>5

\* A relay that takes no step while time stands still stays where it is.
LEMMA RelaysStand ==
  ASSUME NEW longest, NEW start, NEW frame, clock' = clock
  PROVE  /\ varsA' = varsA =>
              /\ LA!RelaysOne(start, frame, longest) => LA!RelaysOne(start, frame, longest)'
              /\ LA!Unheard(start) => LA!Unheard(start)'
              /\ A!UnsentStays
         /\ varsB' = varsB =>
              /\ LB!RelaysOne(start, frame, longest) => LB!RelaysOne(start, frame, longest)'
              /\ LB!Unheard(start) => LB!Unheard(start)'
              /\ B!UnsentStays
<1>1. ASSUME varsA' = varsA
      PROVE  /\ LA!RelaysOne(start, frame, longest) => LA!RelaysOne(start, frame, longest)'
             /\ LA!Unheard(start) => LA!Unheard(start)'
             /\ A!UnsentStays
  BY <1>1 DEF varsA, LA!RelaysOne, LA!Hearing, LA!HeardFrame, LA!Unheard, LA!Alone, LA!InTurn,
              A!UnsentStays, LA!Cardinality
<1>2. ASSUME varsB' = varsB
      PROVE  /\ LB!RelaysOne(start, frame, longest) => LB!RelaysOne(start, frame, longest)'
             /\ LB!Unheard(start) => LB!Unheard(start)'
             /\ B!UnsentStays
  BY <1>2 DEF varsB, LB!RelaysOne, LB!Hearing, LB!HeardFrame, LB!Unheard, LB!Alone, LB!InTurn,
              B!UnsentStays, LB!Cardinality
<1> QED
  BY <1>1, <1>2

\* A hears the victim while it airs, or B while it does.
LEMMA FloodHeardA ==
  ASSUME NEW longest, TimingsFit(longest), NodesInv, VictimInv, NEW start, NEW frame \in Frames,
         frame = advertised, Flood(start, frame, longest), HearA
  PROVE  Flood(start, frame, longest)'
<1>1. PICK p \in VictimOnAir \cup BOnAir : A!Hear(p[1], p[2])
  BY DEF HearA
<1>2. LA!Hear(p[1], p[2]) /\ UNCHANGED <<clock, pc>> /\ varsB' = varsB
  BY <1>1, SamePromptA, ClockStands DEF HearA, victimVars
<1>3. UNCHANGED <<cacheA, acceptedAtA, broadcastEndTimeA>>
  BY <1>1 DEF A!Hear, A!loopVars
<1>4. /\ p[1].hmac_sig = frame
      /\ Audible(start, frame, longest, p[2], "B", acceptedAtB, broadcastEndTimeB)
  <2>1. CASE p \in VictimOnAir
    <3>1. advertising /\ p[1] = A!BuildEmergencyPacket(advertised, TTL) /\ p[2] = "victim"
      BY <2>1 DEF VictimOnAir
    <3>2. clock <= start + AIRING
      BY <3>1 DEF Flood, VictimInv, LVictim!RadioInv
    <3>3. p[1].hmac_sig = frame
      BY <3>1 DEF A!BuildEmergencyPacket
    <3> QED
      BY <3>1, <3>2, <3>3 DEF Audible
  <2>2. CASE p \in BOnAir
    <3>1. advertisingB /\ p[1] = advDataB /\ p[2] = "B"
      BY <2>2 DEF BOnAir
    <3>2. isBroadcastingB
      BY <3>1 DEF NodesInv, LB!AirtimeInv
    <3>3. LB!TypeOK /\ clock \in Nat
      BY NodeTypes
    <3>4. LB!BurstFits(longest) /\ start \in 0 .. clock /\ LB!RelaysOne(start, frame, longest)
      BY TimingFacts DEF Flood
    <3>5. /\ advDataB.hmac_sig = frame
          /\ acceptedAtB[frame] \in start .. clock
          /\ clock <= acceptedAtB[frame] + longest + BROADCAST_BURST
          /\ broadcastEndTimeB >= start + BROADCAST_BURST
      BY <3>2, <3>3, <3>4, LB!OneAirs, NodeAssumptions
    <3> QED
      BY <3>1, <3>3, <3>4, <3>5 DEF Audible
  <2> QED
    BY <2>1, <2>2
<1>5. LA!RelaysOne(start, frame, longest)' /\ callbackA'.pc = "waiting" /\ callbackA'.mac = p[2]
  BY <1>2, <1>4, LA!OneHears, NodeAssumptions DEF Flood
<1>6. LB!RelaysOne(start, frame, longest)'
  BY <1>2, RelaysStand DEF Flood
<1>7. UNCHANGED <<cacheB, acceptedAtB, broadcastEndTimeB, callbackB>>
  BY <1>2 DEF varsB
<1> QED
  BY <1>2, <1>3, <1>4, <1>5, <1>6, <1>7 DEF Flood, Reached, Audible, Senders

\* What A hears of a frame it knows comes before it has forgotten it.
LEMMA FloodInTimeA ==
  ASSUME NEW longest, TimingsFit(longest), NodesInv, VictimInv, NEW start, NEW frame \in Frames,
         Flood(start, frame, longest), callbackA.pc = "waiting", acceptedAtA[frame] >= start
  PROVE  clock < acceptedAtA[frame] + CACHE_TTL_MS
<1>1. PICK now \in Nat, mine \in Int, theirs \in Int, D \in Nat :
        /\ now = clock /\ mine = acceptedAtA[frame] /\ theirs = acceptedAtB[frame]
        /\ D = longest + BROADCAST_BURST
  BY NodeTypes, TimingFacts
<1>2. /\ AIRING \in Nat /\ CACHE_TTL_MS \in Nat /\ start \in Nat /\ mine >= start
      /\ longest \in Nat /\ BROADCAST_BURST \in Nat /\ longest + BROADCAST_BURST = D
  BY <1>1, TimingFacts DEF Flood
<1>3. 2 * D < CACHE_TTL_MS /\ AIRING + D < CACHE_TTL_MS
  BY <1>1, <1>2 DEF TimingsFit
<1>4. now <= start + AIRING \/ (theirs >= start /\ now <= theirs + D)
  BY <1>1, <1>2 DEF Flood, Audible
<1>5. theirs >= start =>
        theirs <= start + AIRING \/ (mine <= start + AIRING /\ theirs <= mine + D)
  BY <1>1, <1>2 DEF Flood, Reached
<1>6. now < mine + CACHE_TTL_MS
  <2>1. CASE now <= start + AIRING
    BY <1>2, <1>3, <2>1
  <2>2. CASE theirs >= start /\ now <= theirs + D /\ theirs <= start + AIRING
    BY <1>2, <1>3, <2>2
  <2>3. CASE theirs >= start /\ now <= theirs + D /\ theirs <= mine + D
    BY <1>2, <1>3, <2>3
  <2> QED
    BY <1>4, <1>5, <2>1, <2>2, <2>3
<1> QED
  BY <1>1, <1>6

\* A deals with what it heard: it accepts the frame once, of one that has it
\* from the victim.
LEMMA FloodHandledA ==
  ASSUME NEW longest, TimingsFit(longest), NodesInv, VictimInv, NEW start, NEW frame \in Frames,
         Flood(start, frame, longest), OnResultA
  PROVE  /\ Flood(start, frame, longest)'
         /\ LA!UnsentStays
         /\ \A f \in Frames : acceptedAtA'[f] # acceptedAtA[f] => acceptedAtA[f] < start
<1>1. LA!OnResult /\ UNCHANGED <<clock, pc>> /\ varsB' = varsB
  BY SameOnResultA, ClockStands DEF OnResultA, victimVars
<1>2. UNCHANGED <<cacheB, acceptedAtB, broadcastEndTimeB, callbackB>>
  BY <1>1 DEF varsB
<1>3. LB!RelaysOne(start, frame, longest)'
  BY <1>1, RelaysStand DEF Flood
<1>4. /\ LA!IInv /\ LA!TypeOK /\ clock \in Nat /\ clock <= MAX_CLOCK /\ LA!BurstFits(longest)
      /\ start \in 0 .. clock /\ LA!RelaysOne(start, frame, longest)
      /\ acceptedAtA \in [Frames -> Nat \cup {-1}]
  BY NodeTypes, TimingFacts DEF NodesInv, Flood
<1>5. callbackA.pc = "waiting"
  <2>1. callbackA.pc # "idle"
    BY <1>1 DEF LA!OnResult, LA!DropDuplicate, LA!DropExhausted, LA!Queue, LA!StartForward,
                LA!SendDatagram, LA!FinishForward, LA!InCallback
  <2> QED
    BY <1>4, <2>1 DEF LA!RelaysOne, LA!Hearing
<1>6. acceptedAtA[frame] >= start => clock < acceptedAtA[frame] + CACHE_TTL_MS
  BY <1>5, FloodInTimeA
<1>7. LA!RelaysOne(start, frame, longest)' /\ LA!UnsentStays /\ LA!HeardBy(start, frame)
  BY <1>1, <1>4, <1>6, LA!OneHandles, NodeAssumptions
<1>8. callbackA'.pc = "idle" /\ broadcastEndTimeA' = broadcastEndTimeA
  BY <1>7 DEF LA!HeardBy, LA!Idle
<1>9. Audible(start, frame, longest, callbackA.mac, "B", acceptedAtB, broadcastEndTimeB)
  BY <1>5 DEF Flood
<1>10. CASE /\ acceptedAtA' = acceptedAtA
            /\ acceptedAtA[frame] >= start =>
                 cacheA'[0].seen_macs \subseteq cacheA[0].seen_macs \cup {callbackA.mac}
  <2>1. Senders(start, frame, acceptedAtA, cacheA[0].seen_macs, "B", broadcastEndTimeB)'
    BY <1>2, <1>9, <1>10 DEF Flood, Senders, Audible
  <2> QED
    BY <1>1, <1>2, <1>3, <1>7, <1>8, <1>10, <2>1 DEF Flood, Reached, Audible, Senders
<1>11. CASE /\ acceptedAtA[frame] < start
            /\ acceptedAtA' = [acceptedAtA EXCEPT ![frame] = clock]
            /\ cacheA'[0].seen_macs = {callbackA.mac}
  <2>1. acceptedAtA'[frame] = clock /\ \A f \in Frames \ {frame} : acceptedAtA'[f] = acceptedAtA[f]
    BY <1>4, <1>11
  <2>2. ~(acceptedAtA[frame] >= start)
    BY <1>4, <1>11
  <2>3. Senders(start, frame, acceptedAtA, cacheA[0].seen_macs, "B", broadcastEndTimeB)'
    BY <1>2, <1>9, <1>11 DEF Senders, Audible
  <2>4. ~(acceptedAtA[frame] \in start .. start + AIRING)
    BY <2>2
  <2>5. acceptedAtB[frame] >= start => acceptedAtB[frame] <= start + AIRING
    BY <2>4 DEF Flood, Reached
  <2>6. Reached(start, frame, longest, acceptedAtA, acceptedAtB)'
    <3>1. acceptedAtB[frame] >= start => acceptedAtB[frame] \in start .. start + AIRING
      <4>1. acceptedAtB[frame] \in Int /\ start \in Int /\ AIRING \in Int
        BY <1>4, NodeTypes, TimingFacts
      <4> QED
        BY <2>5, <4>1
    <3> QED
      BY <1>2, <1>9, <2>1, <3>1 DEF Reached, Audible
  <2>7. Reached(start, frame, longest, acceptedAtB, acceptedAtA)'
    BY <1>2, <2>5 DEF Reached
  <2>8. callbackB.pc = "waiting" =>
          Audible(start, frame, longest, callbackB.mac, "A", acceptedAtA, broadcastEndTimeA)'
    BY <1>1, <1>2, <2>2 DEF Flood, Audible
  <2>9. Senders(start, frame, acceptedAtB, cacheB[0].seen_macs, "A", broadcastEndTimeA)'
    BY <1>2, <1>8 DEF Flood, Senders
  <2>10. Flood(start, frame, longest)'
    BY <1>1, <1>2, <1>3, <1>7, <1>8, <2>3, <2>6, <2>7, <2>8, <2>9 DEF Flood
  <2> QED
    BY <1>7, <1>11, <2>1, <2>10
<1> QED
  BY <1>7, <1>10, <1>11 DEF LA!HeardBy

\* A passes through loop.
LEMMA FloodPassedA ==
  ASSUME NEW longest, TimingsFit(longest), NodesInv, VictimInv, NEW start, NEW frame \in Frames,
         Flood(start, frame, longest), LoopA
  PROVE  /\ Flood(start, frame, longest)'
         /\ LA!UnsentStays
         /\ acceptedAtA' = acceptedAtA
<1>1. LA!PromptLoop /\ UNCHANGED <<clock, pc>> /\ varsB' = varsB
  BY SamePromptA, ClockStands DEF LoopA, victimVars
<1>2. UNCHANGED <<cacheB, acceptedAtB, broadcastEndTimeB, callbackB>>
  BY <1>1 DEF varsB
<1>3. LB!RelaysOne(start, frame, longest)'
  BY <1>1, RelaysStand DEF Flood
<1>4. /\ LA!IInv /\ clock <= MAX_CLOCK /\ LA!BurstFits(longest)
      /\ start \in 0 .. clock /\ LA!RelaysOne(start, frame, longest)
  BY NodeTypes, TimingFacts DEF NodesInv, Flood
<1>5. LA!RelaysOne(start, frame, longest)' /\ LA!UnsentStays /\ LA!PassOf(start)
  BY <1>1, <1>4, LA!OnePasses, NodeAssumptions
<1>6. /\ cacheA'[0].seen_macs = cacheA[0].seen_macs
      /\ callbackA' = callbackA /\ acceptedAtA' = acceptedAtA
      /\ broadcastEndTimeA' = broadcastEndTimeA \/ broadcastEndTimeA' >= start + BROADCAST_BURST
  BY <1>5 DEF LA!PassOf
<1>7. callbackB.pc = "waiting" =>
        Audible(start, frame, longest, callbackB.mac, "A", acceptedAtA, broadcastEndTimeA)'
  BY <1>1, <1>2, <1>6 DEF Flood, Audible
<1>8. callbackA.pc = "waiting" =>
        Audible(start, frame, longest, callbackA.mac, "B", acceptedAtB, broadcastEndTimeB)'
  BY <1>1, <1>2, <1>6 DEF Flood, Audible
<1>9. /\ Senders(start, frame, acceptedAtB, cacheB[0].seen_macs, "A", broadcastEndTimeA)'
      /\ Senders(start, frame, acceptedAtA, cacheA[0].seen_macs, "B", broadcastEndTimeB)'
  BY <1>2, <1>6 DEF Flood, Senders
<1>10. /\ Reached(start, frame, longest, acceptedAtA, acceptedAtB)'
       /\ Reached(start, frame, longest, acceptedAtB, acceptedAtA)'
  BY <1>2, <1>6 DEF Flood, Reached
<1> QED
  BY <1>1, <1>2, <1>3, <1>5, <1>6, <1>7, <1>8, <1>9, <1>10 DEF Flood

\* B hears the victim while it airs, or A while it does.
LEMMA FloodHeardB ==
  ASSUME NEW longest, TimingsFit(longest), NodesInv, VictimInv, NEW start, NEW frame \in Frames,
         frame = advertised, Flood(start, frame, longest), HearB
  PROVE  Flood(start, frame, longest)'
<1>1. PICK p \in VictimOnAir \cup AOnAir : B!Hear(p[1], p[2])
  BY DEF HearB
<1>2. LB!Hear(p[1], p[2]) /\ UNCHANGED <<clock, pc>> /\ varsA' = varsA
  BY <1>1, SamePromptB, ClockStands DEF HearB, victimVars
<1>3. UNCHANGED <<cacheB, acceptedAtB, broadcastEndTimeB>>
  BY <1>1 DEF B!Hear, B!loopVars
<1>4. /\ p[1].hmac_sig = frame
      /\ Audible(start, frame, longest, p[2], "A", acceptedAtA, broadcastEndTimeA)
  <2>1. CASE p \in VictimOnAir
    <3>1. advertising /\ p[1] = A!BuildEmergencyPacket(advertised, TTL) /\ p[2] = "victim"
      BY <2>1 DEF VictimOnAir
    <3>2. clock <= start + AIRING
      BY <3>1 DEF Flood, VictimInv, LVictim!RadioInv
    <3>3. p[1].hmac_sig = frame
      BY <3>1 DEF A!BuildEmergencyPacket
    <3> QED
      BY <3>1, <3>2, <3>3 DEF Audible
  <2>2. CASE p \in AOnAir
    <3>1. advertisingA /\ p[1] = advDataA /\ p[2] = "A"
      BY <2>2 DEF AOnAir
    <3>2. isBroadcastingA
      BY <3>1 DEF NodesInv, LA!AirtimeInv
    <3>3. LA!TypeOK /\ clock \in Nat
      BY NodeTypes
    <3>4. LA!BurstFits(longest) /\ start \in 0 .. clock /\ LA!RelaysOne(start, frame, longest)
      BY TimingFacts DEF Flood
    <3>5. /\ advDataA.hmac_sig = frame
          /\ acceptedAtA[frame] \in start .. clock
          /\ clock <= acceptedAtA[frame] + longest + BROADCAST_BURST
          /\ broadcastEndTimeA >= start + BROADCAST_BURST
      BY <3>2, <3>3, <3>4, LA!OneAirs, NodeAssumptions
    <3> QED
      BY <3>1, <3>3, <3>4, <3>5 DEF Audible
  <2> QED
    BY <2>1, <2>2
<1>5. LB!RelaysOne(start, frame, longest)' /\ callbackB'.pc = "waiting" /\ callbackB'.mac = p[2]
  BY <1>2, <1>4, LB!OneHears, NodeAssumptions DEF Flood
<1>6. LA!RelaysOne(start, frame, longest)'
  BY <1>2, RelaysStand DEF Flood
<1>7. UNCHANGED <<cacheA, acceptedAtA, broadcastEndTimeA, callbackA>>
  BY <1>2 DEF varsA
<1> QED
  BY <1>2, <1>3, <1>4, <1>5, <1>6, <1>7 DEF Flood, Reached, Audible, Senders

\* What B hears of a frame it knows comes before it has forgotten it.
LEMMA FloodInTimeB ==
  ASSUME NEW longest, TimingsFit(longest), NodesInv, VictimInv, NEW start, NEW frame \in Frames,
         Flood(start, frame, longest), callbackB.pc = "waiting", acceptedAtB[frame] >= start
  PROVE  clock < acceptedAtB[frame] + CACHE_TTL_MS
<1>1. PICK now \in Nat, mine \in Int, theirs \in Int, D \in Nat :
        /\ now = clock /\ mine = acceptedAtB[frame] /\ theirs = acceptedAtA[frame]
        /\ D = longest + BROADCAST_BURST
  BY NodeTypes, TimingFacts
<1>2. /\ AIRING \in Nat /\ CACHE_TTL_MS \in Nat /\ start \in Nat /\ mine >= start
      /\ longest \in Nat /\ BROADCAST_BURST \in Nat /\ longest + BROADCAST_BURST = D
  BY <1>1, TimingFacts DEF Flood
<1>3. 2 * D < CACHE_TTL_MS /\ AIRING + D < CACHE_TTL_MS
  BY <1>1, <1>2 DEF TimingsFit
<1>4. now <= start + AIRING \/ (theirs >= start /\ now <= theirs + D)
  BY <1>1, <1>2 DEF Flood, Audible
<1>5. theirs >= start =>
        theirs <= start + AIRING \/ (mine <= start + AIRING /\ theirs <= mine + D)
  BY <1>1, <1>2 DEF Flood, Reached
<1>6. now < mine + CACHE_TTL_MS
  <2>1. CASE now <= start + AIRING
    BY <1>2, <1>3, <2>1
  <2>2. CASE theirs >= start /\ now <= theirs + D /\ theirs <= start + AIRING
    BY <1>2, <1>3, <2>2
  <2>3. CASE theirs >= start /\ now <= theirs + D /\ theirs <= mine + D
    BY <1>2, <1>3, <2>3
  <2> QED
    BY <1>4, <1>5, <2>1, <2>2, <2>3
<1> QED
  BY <1>1, <1>6

\* B deals with what it heard: it accepts the frame once, of one that has it
\* from the victim.
LEMMA FloodHandledB ==
  ASSUME NEW longest, TimingsFit(longest), NodesInv, VictimInv, NEW start, NEW frame \in Frames,
         Flood(start, frame, longest), OnResultB
  PROVE  /\ Flood(start, frame, longest)'
         /\ LB!UnsentStays
         /\ \A f \in Frames : acceptedAtB'[f] # acceptedAtB[f] => acceptedAtB[f] < start
<1>1. LB!OnResult /\ UNCHANGED <<clock, pc>> /\ varsA' = varsA
  BY SameOnResultB, ClockStands DEF OnResultB, victimVars
<1>2. UNCHANGED <<cacheA, acceptedAtA, broadcastEndTimeA, callbackA>>
  BY <1>1 DEF varsA
<1>3. LA!RelaysOne(start, frame, longest)'
  BY <1>1, RelaysStand DEF Flood
<1>4. /\ LB!IInv /\ LB!TypeOK /\ clock \in Nat /\ clock <= MAX_CLOCK /\ LB!BurstFits(longest)
      /\ start \in 0 .. clock /\ LB!RelaysOne(start, frame, longest)
      /\ acceptedAtB \in [Frames -> Nat \cup {-1}]
  BY NodeTypes, TimingFacts DEF NodesInv, Flood
<1>5. callbackB.pc = "waiting"
  <2>1. callbackB.pc # "idle"
    BY <1>1 DEF LB!OnResult, LB!DropDuplicate, LB!DropExhausted, LB!Queue, LB!StartForward,
                LB!SendDatagram, LB!FinishForward, LB!InCallback
  <2> QED
    BY <1>4, <2>1 DEF LB!RelaysOne, LB!Hearing
<1>6. acceptedAtB[frame] >= start => clock < acceptedAtB[frame] + CACHE_TTL_MS
  BY <1>5, FloodInTimeB
<1>7. LB!RelaysOne(start, frame, longest)' /\ LB!UnsentStays /\ LB!HeardBy(start, frame)
  BY <1>1, <1>4, <1>6, LB!OneHandles, NodeAssumptions
<1>8. callbackB'.pc = "idle" /\ broadcastEndTimeB' = broadcastEndTimeB
  BY <1>7 DEF LB!HeardBy, LB!Idle
<1>9. Audible(start, frame, longest, callbackB.mac, "A", acceptedAtA, broadcastEndTimeA)
  BY <1>5 DEF Flood
<1>10. CASE /\ acceptedAtB' = acceptedAtB
            /\ acceptedAtB[frame] >= start =>
                 cacheB'[0].seen_macs \subseteq cacheB[0].seen_macs \cup {callbackB.mac}
  <2>1. Senders(start, frame, acceptedAtB, cacheB[0].seen_macs, "A", broadcastEndTimeA)'
    BY <1>2, <1>9, <1>10 DEF Flood, Senders, Audible
  <2> QED
    BY <1>1, <1>2, <1>3, <1>7, <1>8, <1>10, <2>1 DEF Flood, Reached, Audible, Senders
<1>11. CASE /\ acceptedAtB[frame] < start
            /\ acceptedAtB' = [acceptedAtB EXCEPT ![frame] = clock]
            /\ cacheB'[0].seen_macs = {callbackB.mac}
  <2>1. acceptedAtB'[frame] = clock /\ \A f \in Frames \ {frame} : acceptedAtB'[f] = acceptedAtB[f]
    BY <1>4, <1>11
  <2>2. ~(acceptedAtB[frame] >= start)
    BY <1>4, <1>11
  <2>3. Senders(start, frame, acceptedAtB, cacheB[0].seen_macs, "A", broadcastEndTimeA)'
    BY <1>2, <1>9, <1>11 DEF Senders, Audible
  <2>4. ~(acceptedAtB[frame] \in start .. start + AIRING)
    BY <2>2
  <2>5. acceptedAtA[frame] >= start => acceptedAtA[frame] <= start + AIRING
    BY <2>4 DEF Flood, Reached
  <2>6. Reached(start, frame, longest, acceptedAtB, acceptedAtA)'
    <3>1. acceptedAtA[frame] >= start => acceptedAtA[frame] \in start .. start + AIRING
      <4>1. acceptedAtA[frame] \in Int /\ start \in Int /\ AIRING \in Int
        BY <1>4, NodeTypes, TimingFacts
      <4> QED
        BY <2>5, <4>1
    <3> QED
      BY <1>2, <1>9, <2>1, <3>1 DEF Reached, Audible
  <2>7. Reached(start, frame, longest, acceptedAtA, acceptedAtB)'
    BY <1>2, <2>5 DEF Reached
  <2>8. callbackA.pc = "waiting" =>
          Audible(start, frame, longest, callbackA.mac, "B", acceptedAtB, broadcastEndTimeB)'
    BY <1>1, <1>2, <2>2 DEF Flood, Audible
  <2>9. Senders(start, frame, acceptedAtA, cacheA[0].seen_macs, "B", broadcastEndTimeB)'
    BY <1>2, <1>8 DEF Flood, Senders
  <2>10. Flood(start, frame, longest)'
    BY <1>1, <1>2, <1>3, <1>7, <1>8, <2>3, <2>6, <2>7, <2>8, <2>9 DEF Flood
  <2> QED
    BY <1>7, <1>11, <2>1, <2>10
<1> QED
  BY <1>7, <1>10, <1>11 DEF LB!HeardBy

\* B passes through loop.
LEMMA FloodPassedB ==
  ASSUME NEW longest, TimingsFit(longest), NodesInv, VictimInv, NEW start, NEW frame \in Frames,
         Flood(start, frame, longest), LoopB
  PROVE  /\ Flood(start, frame, longest)'
         /\ LB!UnsentStays
         /\ acceptedAtB' = acceptedAtB
<1>1. LB!PromptLoop /\ UNCHANGED <<clock, pc>> /\ varsA' = varsA
  BY SamePromptB, ClockStands DEF LoopB, victimVars
<1>2. UNCHANGED <<cacheA, acceptedAtA, broadcastEndTimeA, callbackA>>
  BY <1>1 DEF varsA
<1>3. LA!RelaysOne(start, frame, longest)'
  BY <1>1, RelaysStand DEF Flood
<1>4. /\ LB!IInv /\ clock <= MAX_CLOCK /\ LB!BurstFits(longest)
      /\ start \in 0 .. clock /\ LB!RelaysOne(start, frame, longest)
  BY NodeTypes, TimingFacts DEF NodesInv, Flood
<1>5. LB!RelaysOne(start, frame, longest)' /\ LB!UnsentStays /\ LB!PassOf(start)
  BY <1>1, <1>4, LB!OnePasses, NodeAssumptions
<1>6. /\ cacheB'[0].seen_macs = cacheB[0].seen_macs
      /\ callbackB' = callbackB /\ acceptedAtB' = acceptedAtB
      /\ broadcastEndTimeB' = broadcastEndTimeB \/ broadcastEndTimeB' >= start + BROADCAST_BURST
  BY <1>5 DEF LB!PassOf
<1>7. callbackA.pc = "waiting" =>
        Audible(start, frame, longest, callbackA.mac, "B", acceptedAtB, broadcastEndTimeB)'
  BY <1>1, <1>2, <1>6 DEF Flood, Audible
<1>8. callbackB.pc = "waiting" =>
        Audible(start, frame, longest, callbackB.mac, "A", acceptedAtA, broadcastEndTimeA)'
  BY <1>1, <1>2, <1>6 DEF Flood, Audible
<1>9. /\ Senders(start, frame, acceptedAtA, cacheA[0].seen_macs, "B", broadcastEndTimeB)'
      /\ Senders(start, frame, acceptedAtB, cacheB[0].seen_macs, "A", broadcastEndTimeA)'
  BY <1>2, <1>6 DEF Flood, Senders
<1>10. /\ Reached(start, frame, longest, acceptedAtB, acceptedAtA)'
       /\ Reached(start, frame, longest, acceptedAtA, acceptedAtB)'
  BY <1>2, <1>6 DEF Flood, Reached
<1> QED
  BY <1>1, <1>2, <1>3, <1>5, <1>6, <1>7, <1>8, <1>9, <1>10 DEF Flood

\* Time goes on when neither relay has anything to do.
LEMMA FloodTicked ==
  ASSUME NEW longest, TimingsFit(longest), NodesInv, VictimInv, NEW start, NEW frame \in Frames,
         start = BurstStart, Flood(start, frame, longest), Tick
  PROVE  /\ Flood(start, frame, longest)'
         /\ A!UnsentStays /\ B!UnsentStays
         /\ acceptedAtA' = acceptedAtA /\ acceptedAtB' = acceptedAtB
<1>1. /\ LA!PromptTick /\ LB!PromptTick
      /\ callbackA.pc = "idle" /\ callbackB.pc = "idle"
      /\ clock < wakeAt /\ UNCHANGED <<pc, wakeAt, advertising>>
  BY SamePromptA, SamePromptB, SameNextA, SameNextB
  DEF Tick, VictimWaits, LA!PromptTick, LB!PromptTick, Victim!Tick
<1>2. /\ clock' = clock + 1
      /\ UNCHANGED <<cacheA, callbackA, acceptedAtA, broadcastEndTimeA>>
      /\ UNCHANGED <<cacheB, callbackB, acceptedAtB, broadcastEndTimeB>>
  BY <1>1 DEF LA!PromptTick, LB!PromptTick, LA!Tick, LB!Tick, LA!loopVars, LB!loopVars
<1>3. /\ LA!TypeOK /\ LB!TypeOK /\ LA!BurstFits(longest) /\ LB!BurstFits(longest)
      /\ start \in 0 .. clock /\ clock \in Nat /\ wakeAt \in Nat /\ AIRING \in Nat
  BY NodeTypes, TimingFacts DEF Flood
<1>4. LA!RelaysOne(start, frame, longest)' /\ LB!RelaysOne(start, frame, longest)'
  BY <1>1, <1>3, LA!OneTicks, LB!OneTicks, NodeAssumptions DEF Flood
<1>5. start \in 0 .. clock' /\ (pc' = "airing" => clock' <= start + AIRING)
  <2>1. pc = "airing" => wakeAt = start + AIRING
    BY <1>3 DEF BurstStart, VictimInv, LVictim!RadioInv
  <2> QED
    BY <1>1, <1>2, <1>3, <2>1
<1>6. A!UnsentStays /\ B!UnsentStays
  BY <1>2 DEF A!UnsentStays, B!UnsentStays
<1>7. /\ Senders(start, frame, acceptedAtB, cacheB[0].seen_macs, "A", broadcastEndTimeA)'
      /\ Senders(start, frame, acceptedAtA, cacheA[0].seen_macs, "B", broadcastEndTimeB)'
      /\ Reached(start, frame, longest, acceptedAtA, acceptedAtB)'
      /\ Reached(start, frame, longest, acceptedAtB, acceptedAtA)'
  BY <1>2 DEF Flood, Senders, Reached
<1> QED
  BY <1>1, <1>2, <1>4, <1>5, <1>6, <1>7 DEF Flood

\* A burst begins: whatever was heard before it is forgotten.
LEMMA FloodStarts ==
  ASSUME NEW longest, NodesInv, VictimInv, Quiet, Victim!StartAdvertising,
         UNCHANGED <<varsA, varsB>>
  PROVE  Flood(BurstStart, advertised, longest)'
<1>1. /\ clock' = clock /\ pc' = "airing" /\ advertising' /\ wakeAt' = clock + AIRING
  BY DEF Victim!StartAdvertising
<1>2. clock \in Nat /\ AIRING \in Nat /\ acceptedAtA \in [Frames -> Nat \cup {-1}]
      /\ acceptedAtB \in [Frames -> Nat \cup {-1}]
  BY NodeTypes, BleMeshAssumption
<1>3. BurstStart' = clock
  BY <1>1, <1>2 DEF BurstStart
<1>4. PICK start, frame : start = clock /\ frame = advertised'
  OBVIOUS
<1>5. LA!Unheard(start)' /\ LB!Unheard(start)'
  BY <1>1, <1>4, RelaysStand DEF Quiet
<1>6. UNCHANGED <<callbackA, callbackB, acceptedAtA, acceptedAtB>>
  BY DEF varsA, varsB
<1>7. LA!RelaysOne(start, frame, longest)' /\ LB!RelaysOne(start, frame, longest)'
  BY <1>5, <1>6 DEF Quiet, LA!RelaysOne, LB!RelaysOne, LA!Hearing, LB!Hearing
<1>8. frame \in Frames
  <2>1. advertised = frame /\ pc = "start"
    BY <1>4 DEF Victim!StartAdvertising, Victim!packetVars
  <2> QED
    BY <2>1, AdvertisedIsFrame
<1>9. ~(acceptedAtA'[frame] >= start) /\ ~(acceptedAtB'[frame] >= start)
  <2>1. acceptedAtA[frame] < start /\ acceptedAtB[frame] < start
    BY <1>4, <1>8 DEF Quiet, LA!Unheard, LB!Unheard
  <2> QED
    BY <1>2, <1>4, <1>6, <1>8, <2>1
<1>10. Flood(start, frame, longest)'
  BY <1>1, <1>2, <1>4, <1>6, <1>7, <1>9 DEF Flood, Quiet, Reached, Senders
<1> QED
  BY <1>3, <1>4, <1>10

\* The victim falls silent.
LEMMA FloodGoesOn ==
  ASSUME NEW longest, NodesInv, VictimInv, NEW start, NEW frame,
         start = BurstStart, frame = advertised, Flood(start, frame, longest),
         Victim!StopAdvertising, UNCHANGED <<varsA, varsB>>
  PROVE  Flood(start, frame, longest)' /\ BurstStart' = start /\ advertised' = frame
<1>1. /\ pc = "airing" /\ pc' = "pausing" /\ clock' = clock /\ clock >= wakeAt
      /\ ~advertising' /\ silentSince' = clock /\ advertised' = advertised
  BY DEF Victim!StopAdvertising, Victim!packetVars
<1>2. clock \in Nat /\ wakeAt \in Nat /\ AIRING \in Nat
  BY NodeTypes, BleMeshAssumption
<1>3. wakeAt = start + AIRING /\ clock <= start + AIRING
  BY <1>1, <1>2 DEF BurstStart, VictimInv, LVictim!RadioInv, Flood
<1>4. BurstStart' = start
  BY <1>1, <1>2, <1>3 DEF BurstStart
<1>5. LA!RelaysOne(start, frame, longest)' /\ LB!RelaysOne(start, frame, longest)'
  BY <1>1, RelaysStand DEF Flood
<1> QED
  BY <1>1, <1>4, <1>5 DEF Flood, varsA, varsB, Reached, Senders, Audible

\* A relay that is done with a burst has aired it, or its neighbour has.
LEMMA FloodIsRelayed ==
  ASSUME NEW longest, TimingsFit(longest), NodesInv, VictimInv, NEW start, NEW frame \in Frames,
         start = BurstStart, Flood(start, frame, longest)
  PROVE  SomebodyRelays
<1>1. /\ broadcastEndTimeA \in Nat /\ broadcastEndTimeB \in Nat /\ start \in 0 .. clock
      /\ clock \in Nat /\ BROADCAST_BURST \in Nat /\ BROADCAST_BURST > 0
      /\ DOMAIN cacheA = LA!Slots /\ DOMAIN cacheB = LB!Slots
  BY NodeTypes, TimingFacts DEF Flood, TimingsFit, LA!TypeOK, LB!TypeOK
<1>2. Senders(start, frame, acceptedAtA, cacheA[0].seen_macs, "B", broadcastEndTimeB)
      /\ Senders(start, frame, acceptedAtB, cacheB[0].seen_macs, "A", broadcastEndTimeA)
  BY DEF Flood
<1>3. ASSUME DoneWith(cacheA, acceptedAtA)
      PROVE  Relayed
  <2>1. PICK i \in LA!Slots : /\ cacheA[i].active /\ cacheA[i].broadcasted
                              /\ acceptedAtA[cacheA[i].hmac] >= start
    BY <1>1, <1>3 DEF DoneWith
  <2>2. /\ acceptedAtA[frame] >= start
        /\ \/ broadcastEndTimeA >= start + BROADCAST_BURST
           \/ \E x, y \in cacheA[0].seen_macs : x # y
    BY <1>1, <2>1, LA!OneIsThrough, NodeAssumptions DEF NodesInv, LA!AirtimeInv, Flood
  <2>3. \/ broadcastEndTimeA >= start + BROADCAST_BURST
        \/ broadcastEndTimeB >= start + BROADCAST_BURST
    BY <1>2, <2>2 DEF Senders
  <2> QED
    BY <1>1, <2>3 DEF Relayed
<1>4. ASSUME DoneWith(cacheB, acceptedAtB)
      PROVE  Relayed
  <2>1. PICK i \in LB!Slots : /\ cacheB[i].active /\ cacheB[i].broadcasted
                              /\ acceptedAtB[cacheB[i].hmac] >= start
    BY <1>1, <1>4 DEF DoneWith
  <2>2. /\ acceptedAtB[frame] >= start
        /\ \/ broadcastEndTimeB >= start + BROADCAST_BURST
           \/ \E x, y \in cacheB[0].seen_macs : x # y
    BY <1>1, <2>1, LB!OneIsThrough, NodeAssumptions DEF NodesInv, LB!AirtimeInv, Flood
  <2>3. \/ broadcastEndTimeA >= start + BROADCAST_BURST
        \/ broadcastEndTimeB >= start + BROADCAST_BURST
    BY <1>2, <2>2 DEF Senders
  <2> QED
    BY <1>1, <2>3 DEF Relayed
<1> QED
  BY <1>3, <1>4 DEF SomebodyRelays

\* When the pause is over both relays have forgotten the frame.
LEMMA FloodForgotten ==
  ASSUME NEW longest, TimingsFit(longest), NodesInv, VictimInv, NEW start, NEW frame \in Frames,
         start = BurstStart, Flood(start, frame, longest), Victim!PauseOver
  PROVE  Quiet
<1>1. /\ LA!TypeOK /\ LB!TypeOK /\ LA!BurstFits(longest) /\ LB!BurstFits(longest)
      /\ start \in 0 .. clock /\ clock \in Nat
  BY NodeTypes, TimingFacts DEF Flood
<1>2. PICK now \in Nat, ofA \in Int, ofB \in Int, D \in Nat :
        /\ now = clock /\ ofA = acceptedAtA[frame] /\ ofB = acceptedAtB[frame]
        /\ D = longest + BROADCAST_BURST
  BY NodeTypes, TimingFacts
<1>3. /\ AIRING \in Nat /\ CACHE_TTL_MS \in Nat /\ PAUSE \in Nat /\ start \in Nat
      /\ longest \in Nat /\ BROADCAST_BURST \in Nat /\ longest + BROADCAST_BURST = D
  BY <1>1, <1>2, TimingFacts
<1>4. D < CACHE_TTL_MS /\ D + CACHE_TTL_MS <= PAUSE /\ 0 < D
  <2>1. /\ 2 * (longest + BROADCAST_BURST) < CACHE_TTL_MS /\ 0 < BROADCAST_BURST
        /\ longest + BROADCAST_BURST + CACHE_TTL_MS <= PAUSE
    BY DEF TimingsFit
  <2> QED
    BY <1>3, <2>1
<1>5. now >= start + AIRING + PAUSE
  <2>1. clock >= wakeAt /\ wakeAt = silentSince + PAUSE /\ start = silentSince - AIRING
    BY DEF Victim!PauseOver, VictimInv, LVictim!RadioInv, BurstStart
  <2>2. silentSince \in Nat
    BY NodeTypes
  <2> QED
    BY <1>2, <1>3, <2>1, <2>2
<1>6. /\ ofA >= start => ofA <= start + AIRING \/ (ofB <= start + AIRING /\ ofA <= ofB + D)
      /\ ofB >= start => ofB <= start + AIRING \/ (ofA <= start + AIRING /\ ofB <= ofA + D)
  BY <1>2, <1>3 DEF Flood, Reached
<1>7. /\ ofA >= start => ofA <= start + AIRING + D
      /\ ofB >= start => ofB <= start + AIRING + D
  BY <1>3, <1>6
<1>8. /\ acceptedAtA[frame] >= start => clock >= acceptedAtA[frame] + CACHE_TTL_MS
      /\ acceptedAtB[frame] >= start => clock >= acceptedAtB[frame] + CACHE_TTL_MS
      /\ start < clock
  BY <1>2, <1>3, <1>4, <1>5, <1>7
<1>9. LA!Unheard(clock) /\ LB!Unheard(clock)
  BY <1>1, <1>8, LA!OneForgets, LB!OneForgets, NodeAssumptions DEF Flood
<1>10. callbackA.pc # "waiting" /\ callbackB.pc # "waiting"
  <2>1. ASSUME NEW mac, NEW other, NEW theirs, NEW heardAt \in Int, NEW end, heardAt = theirs[frame],
               heardAt >= start => heardAt <= start + AIRING + D,
               Audible(start, frame, longest, mac, other, theirs, end)
        PROVE  FALSE
    <3>1. now <= start + AIRING \/ (heardAt >= start /\ now <= heardAt + D)
      BY <1>2, <1>3, <2>1 DEF Audible
    <3> QED
      BY <1>3, <1>4, <1>5, <2>1, <3>1
  <2>2. callbackA.pc = "waiting" => FALSE
    BY <1>2, <1>7, <2>1 DEF Flood
  <2>3. callbackB.pc = "waiting" => FALSE
    BY <1>2, <1>7, <2>1 DEF Flood
  <2> QED
    BY <2>2, <2>3
<1>11. callbackA.pc = "idle" /\ callbackB.pc = "idle"
  BY <1>10 DEF Flood, LA!RelaysOne, LB!RelaysOne, LA!Hearing, LB!Hearing
<1> QED
  BY <1>9, <1>11, FloodIsRelayed DEF Quiet

\* Between two passes of its loop the victim takes all the steps, and nobody hears anything.
LEMMA QuietSteps ==
  ASSUME NodesInv, VictimInv, Quiet, ~InPass, Next
  PROVE  VictimStep
<1>1. LA!TypeOK /\ LB!TypeOK /\ ~advertising
  BY NodeTypes DEF VictimInv, LVictim!RadioInv, InPass
<1>2. ~advertisingA /\ ~advertisingB
  BY DEF Quiet, LA!Unheard, LB!Unheard, NodesInv, LA!AirtimeInv, LB!AirtimeInv
<1>3. ~HearA /\ ~HearB
  BY <1>1, <1>2 DEF HearA, HearB, VictimOnAir, AOnAir, BOnAir
<1>4. ~OnResultA /\ ~OnResultB
  BY DEF Quiet, OnResultA, OnResultB, A!OnResult, A!DropDuplicate, A!DropExhausted, A!Queue,
         A!StartForward, A!SendDatagram, A!FinishForward, A!InCallback, B!OnResult,
         B!DropDuplicate, B!DropExhausted, B!Queue, B!StartForward, B!SendDatagram,
         B!FinishForward, B!InCallback
<1>5. ~LA!PromptLoop
  BY DEF Quiet, LA!Unheard, LA!PromptLoop, LA!Due, LA!Loop, LA!EnterLoop, LA!CancelCovered,
         LA!StartBurst, LA!InLoop, LA!KeepBurst, LA!EndBurst, LA!FinishBurst
<1>6. ~LB!PromptLoop
  BY DEF Quiet, LB!Unheard, LB!PromptLoop, LB!Due, LB!Loop, LB!EnterLoop, LB!CancelCovered,
         LB!StartBurst, LB!InLoop, LB!KeepBurst, LB!EndBurst, LB!FinishBurst
<1>7. ~LoopA /\ ~LoopB
  BY <1>5, <1>6, SamePromptA, SamePromptB DEF LoopA, LoopB
<1>8. ~Tick
  BY DEF Tick, VictimWaits, InPass
<1> QED
  BY <1>3, <1>4, <1>7, <1>8 DEF Next

\* They leave the quiet as it is until it starts advertising.
LEMMA QuietStays ==
  ASSUME NodesInv, VictimInv, Quiet, ~InPass, ~InPass', VictimStep
  PROVE  Quiet'
<1>1. /\ varsA' = varsA /\ varsB' = varsB /\ clock' = clock
      /\ Victim!Setup \/ Victim!Loop
  BY ClockStands DEF VictimStep
<1>2. /\ silentSince' = silentSince
      /\ advertising' = advertising /\ ~advertising
  BY <1>1
  DEF Victim!Setup, Victim!Loop, Victim!CheckMinute, Victim!MarkMinute,
      Victim!BuildEmergencyPacket, Victim!SetAdvertisementData, Victim!StartAdvertising,
      Victim!StopAdvertising, Victim!EndPass, Victim!PauseOver, Victim!historyVars, InPass,
      VictimInv, LVictim!RadioInv
<1>3. BurstStart' = BurstStart
  BY <1>2 DEF BurstStart
<1>4. SomebodyRelays'
  BY <1>1, <1>3 DEF Quiet, SomebodyRelays, DoneWith, Relayed, varsA, varsB
<1>5. PICK now : now = clock
  OBVIOUS
<1>6. LA!Unheard(now)' /\ LB!Unheard(now)'
  BY <1>1, <1>5, RelaysStand DEF Quiet
<1> QED
  BY <1>1, <1>4, <1>5, <1>6 DEF Quiet, varsA, varsB

\* A frame accepted in a burst was not accepted in it before.
OncePerBurst ==
  \A f \in Frames :
    /\ acceptedAtA'[f] # acceptedAtA[f] => acceptedAtA[f] < BurstStart
    /\ acceptedAtB'[f] # acceptedAtB[f] => acceptedAtB[f] < BurstStart

\* A step during a burst, or the silence after it.
LEMMA FloodKept ==
  ASSUME NEW longest, TimingsFit(longest), NodesInv, VictimInv, [Next]_vars, InPass,
         Flood(BurstStart, advertised, longest)
  PROVE  /\ FloodInv(longest)'
         /\ A!UnsentStays /\ B!UnsentStays
         /\ OncePerBurst
<1>1. PICK start, frame : start = BurstStart /\ frame = advertised
  OBVIOUS
<1>2. frame \in Frames /\ Flood(start, frame, longest)
  BY <1>1, AdvertisedIsFrame DEF InPass
<1>3. CASE UNCHANGED <<clock, victimVars, varsA, varsB>> \/ VictimStep
  <2>1. varsA' = varsA /\ varsB' = varsB /\ clock' = clock
    BY <1>3, ClockStands DEF VictimStep
  <2>2. A!UnsentStays /\ B!UnsentStays /\ OncePerBurst
    BY <2>1, RelaysStand DEF OncePerBurst, varsA, varsB
  <2>3. CASE UNCHANGED <<clock, victimVars, varsA, varsB>>
    <3>1. UNCHANGED <<pc, advertised, BurstStart>>
      BY <2>3 DEF victimVars, BurstStart
    <3>2. LA!RelaysOne(start, frame, longest)' /\ LB!RelaysOne(start, frame, longest)'
      BY <1>2, <2>1, RelaysStand DEF Flood
    <3>3. Flood(start, frame, longest)'
      BY <1>2, <2>1, <3>1, <3>2 DEF Flood, varsA, varsB, Reached, Audible, Senders
    <3> QED
      BY <1>1, <2>2, <3>1, <3>3 DEF FloodInv, InPass
  <2>4. CASE VictimStep
    <3>1. Victim!StopAdvertising \/ Victim!EndPass
      BY <2>4 DEF VictimStep, InPass, Victim!Setup, Victim!Loop, Victim!CheckMinute,
                  Victim!MarkMinute, Victim!BuildEmergencyPacket, Victim!SetAdvertisementData,
                  Victim!StartAdvertising
    <3>2. CASE Victim!StopAdvertising
      <4>1. Flood(start, frame, longest)' /\ BurstStart' = start /\ advertised' = frame
        BY <1>1, <1>2, <2>1, <3>2, FloodGoesOn
      <4>2. InPass'
        BY <3>2 DEF Victim!StopAdvertising, InPass
      <4> QED
        BY <2>2, <4>1, <4>2 DEF FloodInv
    <3>3. CASE Victim!EndPass
      <4>1. Quiet
        BY <1>1, <1>2, <3>3, FloodForgotten DEF Victim!EndPass
      <4>2. ~InPass' /\ UNCHANGED <<advertising, wakeAt, silentSince>>
        BY <3>3 DEF Victim!EndPass, InPass, Victim!historyVars
      <4>3. SomebodyRelays'
        BY <2>1, <4>1, <4>2 DEF Quiet, SomebodyRelays, DoneWith, Relayed, BurstStart, varsA, varsB
      <4>4. PICK now : now = clock
        OBVIOUS
      <4>5. LA!Unheard(now)' /\ LB!Unheard(now)'
        BY <2>1, <4>1, <4>4, RelaysStand DEF Quiet
      <4>6. Quiet'
        BY <2>1, <4>1, <4>3, <4>4, <4>5 DEF Quiet, varsA, varsB
      <4> QED
        BY <2>2, <4>2, <4>6 DEF FloodInv
    <3> QED
      BY <3>1, <3>2, <3>3
  <2> QED
    BY <1>3, <2>3, <2>4
<1>4. CASE Tick
  <2>1. /\ Flood(start, frame, longest)' /\ A!UnsentStays /\ B!UnsentStays
        /\ acceptedAtA' = acceptedAtA /\ acceptedAtB' = acceptedAtB
    BY <1>1, <1>2, <1>4, FloodTicked
  <2>2. UNCHANGED <<pc, advertised, BurstStart>>
    BY <1>4 DEF Tick, Victim!Tick, Victim!packetVars, Victim!historyVars, BurstStart
  <2> QED
    BY <1>1, <2>1, <2>2 DEF FloodInv, InPass, OncePerBurst
<1>5. CASE HearA \/ OnResultA \/ LoopA \/ HearB \/ OnResultB \/ LoopB
  <2>1. UNCHANGED <<pc, advertised, BurstStart>>
    BY <1>5 DEF HearA, OnResultA, LoopA, HearB, OnResultB, LoopB, victimVars, BurstStart
  <2>2. ASSUME Flood(start, frame, longest)'
        PROVE  FloodInv(longest)'
    BY <1>1, <2>1, <2>2 DEF FloodInv, InPass
  <2>3. HearA \/ OnResultA \/ LoopA => B!UnsentStays /\ acceptedAtB' = acceptedAtB
    <3>1. HearA \/ OnResultA \/ LoopA => varsB' = varsB /\ clock' = clock
      BY ClockStands DEF HearA, OnResultA, LoopA
    <3> QED
      BY <3>1, RelaysStand DEF varsB
  <2>4. HearB \/ OnResultB \/ LoopB => A!UnsentStays /\ acceptedAtA' = acceptedAtA
    <3>1. HearB \/ OnResultB \/ LoopB => varsA' = varsA /\ clock' = clock
      BY ClockStands DEF HearB, OnResultB, LoopB
    <3> QED
      BY <3>1, RelaysStand DEF varsA
  <2>5. CASE HearA
    <3>1. cacheA' = cacheA /\ acceptedAtA' = acceptedAtA
      BY <2>5 DEF HearA, A!Hear
    <3>2. A!UnsentStays
      BY <3>1 DEF A!UnsentStays
    <3> QED
      BY <1>1, <1>2, <2>2, <2>3, <2>5, <3>1, <3>2, FloodHeardA DEF OncePerBurst
  <2>6. CASE HearB
    <3>1. cacheB' = cacheB /\ acceptedAtB' = acceptedAtB
      BY <2>6 DEF HearB, B!Hear
    <3>2. B!UnsentStays
      BY <3>1 DEF B!UnsentStays
    <3> QED
      BY <1>1, <1>2, <2>2, <2>4, <2>6, <3>1, <3>2, FloodHeardB DEF OncePerBurst
  <2>7. CASE OnResultA
    BY <1>1, <1>2, <2>2, <2>3, <2>7, FloodHandledA, SamePromptA DEF OncePerBurst
  <2>8. CASE OnResultB
    BY <1>1, <1>2, <2>2, <2>4, <2>8, FloodHandledB, SamePromptB DEF OncePerBurst
  <2>9. CASE LoopA
    BY <1>2, <2>2, <2>3, <2>9, FloodPassedA, SamePromptA DEF OncePerBurst
  <2>10. CASE LoopB
    BY <1>2, <2>2, <2>4, <2>10, FloodPassedB, SamePromptB DEF OncePerBurst
  <2> QED
    BY <1>5, <2>5, <2>6, <2>7, <2>8, <2>9, <2>10
<1> QED
  BY <1>3, <1>4, <1>5 DEF Next, vars

LEMMA InitFloodInv ==
  ASSUME NEW longest, Init
  PROVE  FloodInv(longest)
<1>1. LA!Init /\ LB!Init /\ Victim!Init
  BY SameStateA, SameStateB DEF Init
<1>2. /\ \A i \in LA!Slots : ~cacheA[i].active
      /\ \A i \in LB!Slots : ~cacheB[i].active
      /\ DOMAIN cacheA = LA!Slots /\ DOMAIN cacheB = LB!Slots
  BY <1>1 DEF LA!Init, LB!Init, LA!EmptyCache, LB!EmptyCache, LA!EmptyEntry, LB!EmptyEntry
<1>3. SomebodyRelays
  BY <1>2 DEF SomebodyRelays, DoneWith
<1>4. LA!Unheard(clock) /\ LB!Unheard(clock)
  BY <1>1, <1>2 DEF LA!Init, LB!Init, LA!Unheard, LB!Unheard
<1>5. callbackA.pc = "idle" /\ callbackB.pc = "idle" /\ ~InPass
  BY <1>1 DEF LA!Init, LB!Init, LA!Idle, LB!Idle, Victim!Init, InPass
<1> QED
  BY <1>3, <1>4, <1>5 DEF FloodInv, Quiet

\* The strengthening is inductive, and its steps are those the properties allow.
LEMMA FloodInvKept ==
  ASSUME NEW longest, TimingsFit(longest), NodesInv, VictimInv, FloodInv(longest), [Next]_vars
  PROVE  /\ FloodInv(longest)'
         /\ A!UnsentStays /\ B!UnsentStays
         /\ OncePerBurst
<1>1. CASE InPass
  BY <1>1, FloodKept DEF FloodInv
<1>2. CASE ~InPass /\ Next
  <2>1. Quiet /\ VictimStep
    BY <1>2, QuietSteps DEF FloodInv
  <2>2. varsA' = varsA /\ varsB' = varsB /\ clock' = clock
    BY <2>1, ClockStands DEF VictimStep
  <2>3. A!UnsentStays /\ B!UnsentStays /\ OncePerBurst
    BY <2>2, RelaysStand DEF OncePerBurst, varsA, varsB
  <2>4. CASE InPass'
    <3>1. Victim!StartAdvertising
      BY <1>2, <2>1, <2>4 DEF VictimStep, InPass, Victim!Setup, Victim!Loop, Victim!CheckMinute,
           Victim!MarkMinute, Victim!BuildEmergencyPacket, Victim!SetAdvertisementData,
           Victim!StopAdvertising, Victim!EndPass, Victim!PauseOver
    <3>2. Flood(BurstStart, advertised, longest)'
      BY <2>1, <2>2, <3>1, FloodStarts
    <3> QED
      BY <2>3, <2>4, <3>2 DEF FloodInv
  <2>5. CASE ~InPass'
    BY <1>2, <2>1, <2>3, <2>5, QuietStays DEF FloodInv
  <2> QED
    BY <2>4, <2>5
<1>3. CASE ~InPass /\ UNCHANGED vars
  <2>1. Quiet /\ UNCHANGED <<clock, victimVars, varsA, varsB>>
    BY <1>3 DEF FloodInv, vars
  <2>2. varsA' = varsA /\ varsB' = varsB /\ clock' = clock /\ ~InPass'
    BY <1>3, <2>1 DEF InPass, victimVars
  <2>3. A!UnsentStays /\ B!UnsentStays /\ OncePerBurst
    BY <2>2, RelaysStand DEF OncePerBurst, varsA, varsB
  <2>4. SomebodyRelays'
    BY <2>1 DEF Quiet, SomebodyRelays, DoneWith, Relayed, BurstStart, victimVars, varsA, varsB
  <2>5. PICK now : now = clock
    OBVIOUS
  <2>6. LA!Unheard(now)' /\ LB!Unheard(now)'
    BY <2>1, <2>2, <2>5, RelaysStand DEF Quiet
  <2>7. Quiet'
    BY <2>1, <2>2, <2>4, <2>5, <2>6 DEF Quiet, varsA, varsB
  <2> QED
    BY <2>2, <2>3, <2>7 DEF FloodInv
<1> QED
  BY <1>1, <1>2, <1>3

LEMMA FloodInvariance ==
  ASSUME NEW longest, TimingsFit(longest)
  PROVE  Spec => [](NodesInv /\ VictimInv /\ FloodInv(longest))
<1>1. Init => FloodInv(longest)
  BY InitFloodInv
<1>2. NodesInv /\ VictimInv /\ FloodInv(longest) /\ [Next]_vars => FloodInv(longest)'
  BY FloodInvKept
<1> QED
  BY <1>1, <1>2, NodesInvariance, PTL DEF Spec

(***************************************************************************)
(* A relay relays a burst of the victim once: whatever onResult hears from *)
(* the victim and the other relay, in whatever order, it accepts no frame  *)
(* twice between the beginnings of two bursts.                             *)
(***************************************************************************)
THEOREM AcceptOncePerBurstHolds ==
  ASSUME NEW longest, TimingsFit(longest)
  PROVE  Spec => AcceptOncePerBurst
<1>1. NodesInv /\ VictimInv /\ FloodInv(longest) /\ [Next]_vars =>
        [\A f \in Frames :
           /\ acceptedAtA'[f] # acceptedAtA[f] => acceptedAtA[f] < BurstStart
           /\ acceptedAtB'[f] # acceptedAtB[f] => acceptedAtB[f] < BurstStart]_vars
  BY FloodInvKept DEF OncePerBurst
<1> QED
  BY <1>1, FloodInvariance, PTL DEF Spec, AcceptOncePerBurst

(***************************************************************************)
(* What a relay queues has its turn on the air, or is covered, before      *)
(* anything purges or replaces it: the hypothesis under which RelayProofs  *)
(* shows the life cycle of a relay.                                        *)
(***************************************************************************)
THEOREM RelaysKeepUnsentHolds ==
  ASSUME NEW longest, TimingsFit(longest)
  PROVE  Spec => RelaysKeepUnsent
<1>1. NodesInv /\ VictimInv /\ FloodInv(longest) /\ [Next]_vars =>
        [A!UnsentStays /\ B!UnsentStays]_vars
  BY FloodInvKept
<1> QED
  BY <1>1, FloodInvariance, PTL DEF Spec, RelaysKeepUnsent

(***************************************************************************)
(* When the victim starts advertising again, no relay remembers the packet *)
(* of its last burst, from whomever it heard that.                         *)
(***************************************************************************)
THEOREM EveryBurstIsNewHolds ==
  ASSUME NEW longest, TimingsFit(longest)
  PROVE  Spec => EveryBurstIsNew
<1>1. ASSUME NodesInv, VictimInv, FloodInv(longest), [Next]_vars, ~advertising, advertising'
      PROVE  ~Remembers(cacheA, advertised) /\ ~Remembers(cacheB, advertised)
  <2>1. pc = "start"
    BY <1>1, VictimSteps
    DEF Victim!Next, Victim!Tick, Victim!Setup, Victim!Loop, Victim!CheckMinute,
        Victim!MarkMinute, Victim!BuildEmergencyPacket, Victim!SetAdvertisementData,
        Victim!StartAdvertising, Victim!StopAdvertising, Victim!EndPass, Victim!vars
  <2>2. LA!Unheard(clock) /\ LB!Unheard(clock)
    BY <1>1, <2>1 DEF FloodInv, InPass, Quiet
  <2>3. /\ LA!TypeOK /\ LB!TypeOK /\ clock \in Nat
    BY <1>1, NodeTypes
  <2>4. ASSUME NEW i \in DOMAIN cacheA, cacheA[i].active
        PROVE  ~(clock < cacheA[i].expires_at)
    <3>1. i \in LA!Slots /\ cacheA[i].expires_at \in Nat
      BY <2>3, <2>4 DEF LA!TypeOK, LA!CacheEntries, LA!Millis
    <3> QED
      BY <2>2, <2>3, <2>4, <3>1 DEF LA!Unheard
  <2>5. ASSUME NEW i \in DOMAIN cacheB, cacheB[i].active
        PROVE  ~(clock < cacheB[i].expires_at)
    <3>1. i \in LB!Slots /\ cacheB[i].expires_at \in Nat
      BY <2>3, <2>5 DEF LB!TypeOK, LB!CacheEntries, LB!Millis
    <3> QED
      BY <2>2, <2>3, <2>5, <3>1 DEF LB!Unheard
  <2> QED
    BY <2>4, <2>5 DEF Remembers
<1>2. NodesInv /\ VictimInv /\ FloodInv(longest) /\ [Next]_vars =>
        [~advertising /\ advertising' =>
           ~Remembers(cacheA, advertised) /\ ~Remembers(cacheB, advertised)]_vars
  BY <1>1
<1> QED
  BY <1>2, FloodInvariance, PTL DEF Spec, EveryBurstIsNew

(***************************************************************************)
(* Two relays that wait for each other never silence a burst between them: *)
(* a frame that loop cancels, having heard REDUNDANCY neighbours, was sent *)
(* by the other relay.                                                     *)
(***************************************************************************)
THEOREM SomebodyRelaysHolds ==
  ASSUME NEW longest, TimingsFit(longest)
  PROVE  Spec => []SomebodyRelays
<1>1. ASSUME NodesInv, VictimInv, FloodInv(longest)
      PROVE  SomebodyRelays
  <2>1. CASE InPass
    <3>1. PICK start, frame : start = BurstStart /\ frame = advertised
      OBVIOUS
    <3>2. frame \in Frames /\ Flood(start, frame, longest)
      BY <1>1, <2>1, <3>1, AdvertisedIsFrame DEF FloodInv, InPass
    <3> QED
      BY <1>1, <3>1, <3>2, FloodIsRelayed
  <2>2. CASE ~InPass
    BY <1>1, <2>2 DEF FloodInv, Quiet
  <2> QED
    BY <2>1, <2>2
<1> QED
  BY <1>1, FloodInvariance, PTL

(***************************************************************************)
(* So each relay of the mesh takes every frame through the life cycle of   *)
(* managed flooding, whatever is heard or missed: accepted, counted, aired *)
(* or cancelled, forgotten.                                                *)
(***************************************************************************)
THEOREM RelaysImplementLifecycle ==
  ASSUME NEW longest, TimingsFit(longest)
  PROVE  Spec => A!ImplementsLifecycle /\ B!ImplementsLifecycle
BY RelaysKeepUnsentHolds, RelaysKeepLifecycle, PTL

(***************************************************************************)
(* Nothing a relay of the mesh has queued is lost: it goes on the air, or  *)
(* REDUNDANCY neighbours have sent it.                                     *)
(***************************************************************************)
THEOREM RelaysLoseNothing ==
  ASSUME NEW longest, TimingsFit(longest)
  PROVE  Spec => A!NoSilentLoss /\ B!NoSilentLoss
<1>1. LA!Spec /\ LA!KeepsUnsent => LA!NoSilentLoss
  BY LA!UnsentKeptLosesNothing, NodeAssumptions
<1>2. LB!Spec /\ LB!KeepsUnsent => LB!NoSilentLoss
  BY LB!UnsentKeptLosesNothing, NodeAssumptions
<1>3. LA!NoSilentLoss <=> A!NoSilentLoss
  BY DEF LA!NoSilentLoss, A!NoSilentLoss, LA!Queued, A!Queued, LA!OnAir, A!OnAir, LA!CachedIn,
         A!CachedIn, LA!HeardFrom, A!HeardFrom, LA!Slots, A!Slots, LA!Cardinality, A!Cardinality,
         LA!vars, A!vars, LA!loopVars, A!loopVars, LA!radioVars, A!radioVars, LA!uplinkVars,
         A!uplinkVars
<1>4. LB!NoSilentLoss <=> B!NoSilentLoss
  BY DEF LB!NoSilentLoss, B!NoSilentLoss, LB!Queued, B!Queued, LB!OnAir, B!OnAir, LB!CachedIn,
         B!CachedIn, LB!HeardFrom, B!HeardFrom, LB!Slots, B!Slots, LB!Cardinality, B!Cardinality,
         LB!vars, B!vars, LB!loopVars, B!loopVars, LB!radioVars, B!radioVars, LB!uplinkVars,
         B!uplinkVars
<1> QED
  BY <1>1, <1>2, <1>3, <1>4, KeptUnsent, RelaysKeepUnsentHolds, RelaysOfBleMesh, PTL

==================================================================================
