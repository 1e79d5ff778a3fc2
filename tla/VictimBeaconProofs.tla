--------------------------- MODULE VictimBeaconProofs ---------------------------
(***************************************************************************)
(* Proofs about the victim's loop, for any lengths of the minute, the      *)
(* burst and the pause.                                                    *)
(***************************************************************************)
EXTENDS VictimBeacon, TLAPS

\* The minute never turns back, and never reaches the offset.
LEMMA MinuteGrows ==
  ASSUME NEW time \in 0 .. MAX_CLOCK
  PROVE  /\ time \div MINUTE \in 0 .. FinalMinute
         /\ time \div MINUTE <= (time + 1) \div MINUTE
         /\ FinalMinute \in Nat /\ FinalMinute < TIME_OFFSET
<1>1. \A a, b \in Nat, c \in Nat \ {0} : a <= b => a \div c <= b \div c
  OBVIOUS
<1>2. \A a \in Nat, c \in Nat \ {0} : a \div c \in Nat
  OBVIOUS
<1>3. MINUTE \in Nat \ {0} /\ MAX_CLOCK \in Nat /\ time \in Nat /\ time <= MAX_CLOCK
  BY BeaconAssumption
<1> QED
  BY <1>1, <1>2, <1>3, BeaconAssumption DEF FinalMinute

(***************************************************************************)
(* Every variable of the victim keeps its type, whenever between two       *)
(* statements of loop the clock goes on.                                   *)
(***************************************************************************)
THEOREM TypeCorrect == Spec => []TypeOK
<1>1. Init => TypeOK
  <2>1. FinalMinute \in Nat
    BY MinuteGrows, BeaconAssumption
  <2>2. Init => advertising \in BOOLEAN
    BY DEF Init
  <2> QED
    BY <2>1, <2>2, BeaconAssumption DEF Init, TypeOK
<1>2. ASSUME TypeOK, [Next]_vars
      PROVE  TypeOK'
  <2>1. clock \in 0 .. MAX_CLOCK
    BY <1>2 DEF TypeOK
  <2>2. /\ Minute \in 0 .. FinalMinute /\ FinalMinute \in Nat
        /\ NewTimestamp \in TIME_OFFSET .. TIME_OFFSET + FinalMinute
    BY <2>1, MinuteGrows, BeaconAssumption DEF Minute, NewTimestamp
  <2>3. CASE Tick
    BY <1>2, <2>1, <2>3, BeaconAssumption DEF Tick, TypeOK, packetVars, historyVars
  <2>4. CASE Setup
    BY <1>2, <2>2, <2>4 DEF Setup, TypeOK, historyVars
  <2>5. CASE CheckMinute
    BY <1>2, <2>2, <2>5 DEF CheckMinute, TypeOK, packetVars
  <2>6. CASE MarkMinute
    BY <1>2, <2>2, <2>6 DEF MarkMinute, TypeOK, historyVars
  <2>7. CASE BuildEmergencyPacket
    BY <1>2, <2>2, <2>7 DEF BuildEmergencyPacket, TypeOK, historyVars
  <2>8. CASE SetAdvertisementData
    BY <1>2, <2>8 DEF SetAdvertisementData, TypeOK, historyVars
  <2>9. CASE StartAdvertising
    BY <1>2, <2>1, <2>9, BeaconAssumption DEF StartAdvertising, TypeOK, packetVars
  <2>10. CASE StopAdvertising
    <3>1. advertising' \in BOOLEAN
      BY <2>10 DEF StopAdvertising
    <3> QED
      BY <1>2, <2>1, <2>10, <3>1, BeaconAssumption DEF StopAdvertising, TypeOK, packetVars
  <2>11. CASE EndPass
    BY <1>2, <2>11 DEF EndPass, TypeOK, packetVars, historyVars
  <2>12. CASE UNCHANGED vars
    BY <1>2, <2>12 DEF vars, TypeOK, packetVars, historyVars
  <2> QED
    BY <1>2, <2>3, <2>4, <2>5, <2>6, <2>7, <2>8, <2>9, <2>10, <2>11, <2>12 DEF Next, Loop
<1> QED
  BY <1>1, <1>2, PTL DEF Spec

--------------------------------------------------------------------------------
(***************************************************************************)
(* The strengthening: what each step of a pass may rely on.                *)
(***************************************************************************)
RadioInv ==
  /\ advertising <=> pc = "airing"
  /\ silentSince <= clock
  /\ pc = "pausing" => wakeAt = silentSince + PAUSE
  /\ silentSince > 0 /\ pc \notin {"airing", "pausing"} => clock >= silentSince + PAUSE

\* Once the first pass has marked its minute, the packet on the air is of the
\* minute marked last, or is about to be replaced by one that is.
PacketInv ==
  /\ passMinute <= Minute
  /\ pc = "setup" => lastMinute = TIME_OFFSET
  /\ pc \in {"build", "publish"} =>
       lastMinute # TIME_OFFSET /\ passMinute <= lastMinute /\ lastMinute <= Minute
  /\ pc = "publish" => timestamp >= TIME_OFFSET + lastMinute
  /\ pc \in {"start", "airing", "pausing"} => advertised >= TIME_OFFSET + passMinute
  /\ pc \notin {"build", "publish"} =>
       lastMinute = TIME_OFFSET \/ advertised >= TIME_OFFSET + lastMinute

\* The radio is on while loop airs, and the pause is over when the next pass begins.
LEMMA RadioInvariance == Spec => [](TypeOK /\ RadioInv)
<1>1. Init => RadioInv
  BY DEF Init, RadioInv
<1>2. ASSUME TypeOK, RadioInv, [Next]_vars
      PROVE  RadioInv'
  <2> USE <1>2, BeaconAssumption DEF TypeOK, RadioInv
  <2>1. CASE Tick
    BY <2>1 DEF Tick, packetVars, historyVars
  <2>2. CASE Setup
    BY <2>2 DEF Setup, historyVars
  <2>3. CASE CheckMinute \/ MarkMinute \/ BuildEmergencyPacket \/ SetAdvertisementData
    BY <2>3 DEF CheckMinute, MarkMinute, BuildEmergencyPacket, SetAdvertisementData,
                historyVars
  <2>4. CASE StartAdvertising
    BY <2>4 DEF StartAdvertising
  <2>5. CASE StopAdvertising
    BY <2>5 DEF StopAdvertising
  <2>6. CASE EndPass
    BY <2>6 DEF EndPass, PauseOver, historyVars
  <2>7. CASE UNCHANGED vars
    BY <2>7 DEF vars, historyVars
  <2> QED
    BY <2>1, <2>2, <2>3, <2>4, <2>5, <2>6, <2>7 DEF Next, Loop
<1> QED
  BY <1>1, <1>2, TypeCorrect, PTL DEF Spec

\* loop marks the minute before it stamps the packet, so the stamp is of that minute or later.
LEMMA PacketInvariance == Spec => [](TypeOK /\ PacketInv)
<1>1. Init => PacketInv
  <2>1. 0 \div MINUTE \in Nat
    BY MinuteGrows, BeaconAssumption
  <2> QED
    BY <2>1 DEF Init, PacketInv, Minute
<1>2. ASSUME TypeOK, TypeOK', PacketInv, [Next]_vars
      PROVE  PacketInv'
  <2>1. /\ Minute \in 0 .. FinalMinute /\ Minute < TIME_OFFSET
        /\ Minute' \in 0 .. FinalMinute
        /\ NewTimestamp = TIME_OFFSET + Minute
        /\ TIME_OFFSET \in Nat /\ FinalMinute \in Nat
    <3>1. clock \in 0 .. MAX_CLOCK /\ clock' \in 0 .. MAX_CLOCK
      BY <1>2 DEF TypeOK
    <3>2. Minute \in 0 .. FinalMinute /\ FinalMinute \in Nat /\ FinalMinute < TIME_OFFSET
      BY <3>1, MinuteGrows DEF Minute
    <3>3. Minute' \in 0 .. FinalMinute
      BY <3>1, MinuteGrows DEF Minute
    <3> QED
      BY <3>2, <3>3, BeaconAssumption DEF NewTimestamp
  <2>2. Minute <= Minute'
    <3>1. clock' = clock \/ clock' = clock + 1
      BY <1>2 DEF Next, Loop, Tick, Setup, CheckMinute, MarkMinute, BuildEmergencyPacket,
                  SetAdvertisementData, StartAdvertising, StopAdvertising, EndPass, vars
    <3> QED
      BY <1>2, <2>1, <3>1, MinuteGrows DEF TypeOK, Minute
  <2>3. lastMinute \in {TIME_OFFSET} \cup 0 .. FinalMinute /\ passMinute \in 0 .. FinalMinute
    BY <1>2 DEF TypeOK
  <2>4. timestamp \in Nat /\ advertised \in Nat
    BY <1>2, <2>1 DEF TypeOK
  <2> USE <1>2, <2>1, <2>2, <2>3, <2>4 DEF PacketInv
  <2>5. CASE Tick
    BY <2>5 DEF Tick, packetVars, historyVars
  <2>6. CASE Setup
    BY <2>6 DEF Setup, historyVars
  <2>7. CASE CheckMinute
    BY <2>7 DEF CheckMinute, packetVars
  <2>8. CASE MarkMinute
    BY <2>8 DEF MarkMinute, historyVars
  <2>9. CASE BuildEmergencyPacket
    BY <2>9 DEF BuildEmergencyPacket, historyVars
  <2>10. CASE SetAdvertisementData
    BY <2>10 DEF SetAdvertisementData, historyVars
  <2>11. CASE StartAdvertising \/ StopAdvertising \/ EndPass
    BY <2>11 DEF StartAdvertising, StopAdvertising, EndPass, PauseOver, packetVars, historyVars
  <2>12. CASE UNCHANGED vars
    BY <2>12 DEF vars, packetVars, historyVars
  <2> QED
    BY <2>5, <2>6, <2>7, <2>8, <2>9, <2>10, <2>11, <2>12 DEF Next, Loop
<1> QED
  BY <1>1, <1>2, TypeCorrect, PTL DEF Spec

(***************************************************************************)
(* The data advertised is exchanged only while the radio is off.           *)
(***************************************************************************)
THEOREM OnePacketPerBurstHolds == Spec => OnePacketPerBurst
<1>1. RadioInv /\ [Next]_vars => [advertising => advertised' = advertised]_vars
  BY DEF RadioInv, Next, Loop, Tick, Setup, CheckMinute, MarkMinute, BuildEmergencyPacket,
         SetAdvertisementData, StartAdvertising, StopAdvertising, EndPass, packetVars, vars
<1> QED
  BY <1>1, RadioInvariance, PTL DEF Spec, OnePacketPerBurst

(***************************************************************************)
(* A victim that pauses for longer than a relay remembers a frame is       *)
(* silent for as long before every burst but the first.  The code pauses   *)
(* for 4500 ms and the relays remember for 2000.                           *)
(***************************************************************************)
THEOREM SilenceOutlastsCachesHolds ==
  ASSUME PAUSE >= CACHE_TTL_MS
  PROVE  Spec => SilenceOutlastsCaches
<1>1. ASSUME TypeOK, RadioInv, [Next]_vars, ~advertising, advertising', silentSince > 0
      PROVE  clock - silentSince >= CACHE_TTL_MS
  <2>1. pc = "start"
    BY <1>1 DEF Next, Loop, Tick, Setup, CheckMinute, MarkMinute, BuildEmergencyPacket,
                SetAdvertisementData, StartAdvertising, StopAdvertising, EndPass, vars
  <2> QED
    BY <1>1, <2>1, BeaconAssumption DEF TypeOK, RadioInv
<1>2. TypeOK /\ RadioInv /\ [Next]_vars =>
        [~advertising /\ advertising' /\ silentSince > 0 =>
           clock - silentSince >= CACHE_TTL_MS]_vars
  BY <1>1
<1> QED
  BY <1>2, RadioInvariance, PTL DEF Spec, SilenceOutlastsCaches

(***************************************************************************)
(* No burst carries a packet older than the minute its pass began in.      *)
(***************************************************************************)
THEOREM AirsThisMinuteHolds == Spec => AirsThisMinute
<1>1. ASSUME TypeOK, PacketInv, [Next]_vars, ~advertising, advertising'
      PROVE  advertised >= TIME_OFFSET + passMinute
  <2>1. pc = "start"
    BY <1>1 DEF Next, Loop, Tick, Setup, CheckMinute, MarkMinute, BuildEmergencyPacket,
                SetAdvertisementData, StartAdvertising, StopAdvertising, EndPass, vars
  <2> QED
    BY <1>1, <2>1 DEF PacketInv
<1>2. TypeOK /\ PacketInv /\ [Next]_vars =>
        [~advertising /\ advertising' => advertised >= TIME_OFFSET + passMinute]_vars
  BY <1>1
<1> QED
  BY <1>2, PacketInvariance, PTL DEF Spec, AirsThisMinute

=================================================================================
