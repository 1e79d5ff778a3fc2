------------------------------ MODULE VictimBeacon ------------------------------
(***************************************************************************)
(* The ESP32 of a victim: setup, then loop for ever.  A pass of loop       *)
(* rebuilds the packet when the minute has changed, advertises it for      *)
(* AIRING and keeps silent for PAUSE.  The clock is read three times in a  *)
(* pass that rebuilds, and may go on between any two steps.                *)
(*                                                                         *)
(* Of the packet only the timestamp ever changes, so it stands for it.     *)
(***************************************************************************)
EXTENDS Naturals

CONSTANTS
  MINUTE,         \* units of time in a minute
  AIRING,         \* delay(500)
  PAUSE,          \* delay(4500)
  CACHE_TTL_MS,   \* how long a relay remembers a frame, in the same units
  TIME_OFFSET,    \* minutes before the boot of the victim
  MAX_CLOCK       \* bound: the clock stops there

ASSUME BeaconAssumption ==
  /\ MINUTE \in Nat \ {0}
  /\ {AIRING, PAUSE, CACHE_TTL_MS, TIME_OFFSET, MAX_CLOCK} \subseteq Nat
  /\ TIME_OFFSET > MAX_CLOCK \div MINUTE

VARIABLES
  clock,
  pc,
  timestamp,     \* of globalPacket
  lastMinute,
  advertised,    \* the timestamp in the advertisement data
  advertising,
  wakeAt,        \* end of the delay the task is in
  passMinute,    \* history: the minute the pass of loop began in
  silentSince    \* history: end of the last burst, 0 before the first

packetVars == <<timestamp, lastMinute, advertised>>
historyVars == <<passMinute, silentSince>>
vars == <<clock, pc, packetVars, advertising, wakeAt, historyVars>>

\* The minute the clock stops in.
FinalMinute == MAX_CLOCK \div MINUTE

TypeOK ==
  /\ clock \in 0 .. MAX_CLOCK
  /\ pc \in {"setup", "check", "mark", "build", "publish", "start", "airing", "pausing"}
  /\ {timestamp, advertised} \subseteq {0} \cup TIME_OFFSET .. TIME_OFFSET + FinalMinute
  /\ lastMinute \in {TIME_OFFSET} \cup 0 .. FinalMinute
  /\ passMinute \in 0 .. FinalMinute
  /\ {wakeAt, silentSince} \subseteq Nat
  /\ advertising \in BOOLEAN

Minute == clock \div MINUTE    \* time(nullptr) / 60
NewTimestamp == TIME_OFFSET + Minute

Init ==
  /\ clock = 0
  /\ pc = "setup"
  /\ timestamp = 0 /\ lastMinute = TIME_OFFSET /\ advertised = 0
  /\ advertising = FALSE
  /\ wakeAt = 0
  /\ passMinute = 0 /\ silentSince = 0

Tick ==
  /\ clock < MAX_CLOCK
  /\ clock' = clock + 1
  /\ UNCHANGED <<pc, packetVars, advertising, wakeAt, historyVars>>

Setup ==
  /\ pc = "setup"
  /\ timestamp' = NewTimestamp
  /\ advertised' = NewTimestamp
  /\ pc' = "check"
  /\ UNCHANGED <<clock, lastMinute, advertising, wakeAt, historyVars>>

\* The first pass always rebuilds: lastMinute counts from the epoch until it
\* is assigned, then from the boot.
CheckMinute ==
  /\ pc = "check"
  /\ pc' = IF Minute # lastMinute THEN "mark" ELSE "start"
  /\ passMinute' = Minute
  /\ UNCHANGED <<clock, packetVars, advertising, wakeAt, silentSince>>

\* The minute is noted with the offset it is not compared with.
MutantMarkMinute ==
  /\ pc = "mark"
  /\ lastMinute' = NewTimestamp
  /\ pc' = "build"
  /\ UNCHANGED <<clock, timestamp, advertised, advertising, wakeAt, historyVars>>

MarkMinute ==
  /\ pc = "mark"
  /\ lastMinute' = Minute
  /\ pc' = "build"
  /\ UNCHANGED <<clock, timestamp, advertised, advertising, wakeAt, historyVars>>

BuildEmergencyPacket ==
  /\ pc = "build"
  /\ timestamp' = NewTimestamp
  /\ pc' = "publish"
  /\ UNCHANGED <<clock, lastMinute, advertised, advertising, wakeAt, historyVars>>

\* The packet rebuilt is not published.
MutantSetAdvertisementData ==
  /\ pc = "publish"
  /\ pc' = "start"
  /\ UNCHANGED <<clock, packetVars, advertising, wakeAt, historyVars>>

SetAdvertisementData ==
  /\ pc = "publish"
  /\ advertised' = timestamp
  /\ pc' = "start"
  /\ UNCHANGED <<clock, timestamp, lastMinute, advertising, wakeAt, historyVars>>

StartAdvertising ==
  /\ pc = "start"
  /\ advertising' = TRUE
  /\ wakeAt' = clock + AIRING
  /\ pc' = "airing"
  /\ UNCHANGED <<clock, packetVars, passMinute, silentSince>>

\* The radio is left on.
MutantStopAdvertising ==
  /\ pc = "airing" /\ clock >= wakeAt
  /\ wakeAt' = clock + PAUSE
  /\ silentSince' = clock
  /\ pc' = "pausing"
  /\ UNCHANGED <<clock, packetVars, advertising, passMinute>>

StopAdvertising ==
  /\ pc = "airing" /\ clock >= wakeAt
  /\ advertising' = FALSE
  /\ wakeAt' = clock + PAUSE
  /\ silentSince' = clock
  /\ pc' = "pausing"
  /\ UNCHANGED <<clock, packetVars, passMinute>>

\* The pause is skipped.
MutantPauseOver == pc = "pausing"

PauseOver == pc = "pausing" /\ clock >= wakeAt

EndPass ==
  /\ PauseOver
  /\ pc' = "check"
  /\ UNCHANGED <<clock, packetVars, advertising, wakeAt, historyVars>>

Loop ==
  \/ CheckMinute \/ MarkMinute \/ BuildEmergencyPacket \/ SetAdvertisementData
  \/ StartAdvertising \/ StopAdvertising \/ EndPass

Next == Tick \/ Setup \/ Loop

Spec == Init /\ [][Next]_vars

--------------------------------------------------------------------------------
(***************************************************************************)
(* Between its bursts the victim is silent for longer than a relay         *)
(* remembers a frame, so that every burst of the same packet is relayed    *)
(* anew: a burst lost to a collision does not cost the victim its minute.  *)
(***************************************************************************)
SilenceOutlastsCaches ==
  [][~advertising /\ advertising' /\ silentSince > 0 => clock - silentSince >= CACHE_TTL_MS]_vars

(***************************************************************************)
(* A burst never carries a packet older than the minute its pass of loop   *)
(* began in, although the minute may roll over between the three readings  *)
(* of the clock: lastMinute is noted before the packet is stamped.         *)
(***************************************************************************)
AirsThisMinute ==
  [][~advertising /\ advertising' => advertised >= TIME_OFFSET + passMinute]_vars

\* One burst carries one packet: the data is exchanged while the radio is off.
OnePacketPerBurst == [][advertising => advertised' = advertised]_vars

=================================================================================
