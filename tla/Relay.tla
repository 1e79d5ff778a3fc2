--------------------------------- MODULE Relay ---------------------------------
(***************************************************************************)
(* One ESP32 relay (or gateway): the BLE task that runs onResult for every *)
(* advertisement heard, the Arduino task that runs loop, the cache they    *)
(* share under cacheMutex, the radio they both drive and, on a gateway,    *)
(* the Wi-Fi uplink.                                                       *)
(*                                                                         *)
(* A critical section that holds the mutex throughout is one step: the     *)
(* only access to the cache outside the mutex is the write of broadcasted  *)
(* at the end of a burst, and whatever instant of a critical section it    *)
(* hits, its effect is that of hitting just before or just after.  The     *)
(* section of a gateway that is forwarding sleeps and is split at the      *)
(* sleeps.  millis() is the low word of the clock.                         *)
(***************************************************************************)
EXTENDS TimeAwareCache

CONSTANTS
  ArrivingTtls,     \* TTLs of the copies neighbours transmit
  Jitters,          \* outcomes of random(50, 201)
  REDUNDANCY,
  BROADCAST_BURST,
  UDP_COPIES,       \* datagrams per forwarded packet, 3 in the code
  WifiAfterSetup,   \* outcomes of the connection attempt in setup
  MAX_CLOCK,        \* bound: the clock stops there
  LAST_ARRIVAL      \* bound: nothing is heard after that time

ASSUME RelayAssumption ==
  /\ ArrivingTtls \subseteq 0 .. TTL_VALUES - 1
  /\ Jitters \subseteq Nat
  /\ REDUNDANCY \in 2 .. MAX_TRACKED_MACS
  /\ BROADCAST_BURST \in Nat
  /\ UDP_COPIES \in Nat
  /\ WifiAfterSetup \subseteq {"connected", "off"}
  /\ MAX_CLOCK \in Nat
  /\ LAST_ARRIVAL \in Nat

VARIABLES
  clock,                  \* milliseconds since boot, not truncated
  cache,
  mutex,                  \* "callback" while a forwarding gateway sleeps, else "free"
  callback,               \* the activation of onResult
  loopPc,                 \* where the Arduino task is in loop()
  loopReadAt,             \* clock when loop() read its local now
  isBroadcasting, broadcastEndTime, currentBroadcastIndex,
  scanning, advertising,  \* what the radio does
  advData,                \* the packet in the advertisement data
  wifi,
  upstream,               \* frames a datagram delivered to the server
  acceptedAt              \* history: clock of the last acceptance of a frame, or -1

loopVars == <<loopPc, loopReadAt, isBroadcasting, broadcastEndTime, currentBroadcastIndex>>
radioVars == <<scanning, advertising, advData>>
uplinkVars == <<wifi, upstream>>
vars == <<clock, cache, mutex, callback, loopVars, radioVars, uplinkVars, acceptedAt>>

Idle == [pc |-> "idle"]
Activations ==
  [pc : {"waiting"}, packet : Packets, mac : Macs, readAt : Nat]
    \cup [pc : {"sending"}, packet : Packets, mac : Macs, readAt : Nat, left : 0 .. UDP_COPIES]

TypeOK ==
  /\ clock \in Nat
  /\ cache \in [Slots -> CacheEntries]
  /\ mutex \in {"free", "callback"}
  /\ callback \in Activations \cup {Idle}
  /\ loopPc \in {"top", "waiting", "ending"}
  /\ loopReadAt \in Nat
  /\ isBroadcasting \in BOOLEAN
  /\ broadcastEndTime \in Millis
  /\ currentBroadcastIndex \in Slots \cup {-1}
  /\ scanning \in BOOLEAN
  /\ advertising \in BOOLEAN
  /\ advData \in [hmac_sig : Frames \cup {NoFrame}, flags : Byte]
  /\ wifi \in {"connected", "lost", "off"}
  /\ upstream \subseteq Frames
  /\ acceptedAt \in [Frames -> Nat \cup {-1}]

\* setup(): a Wi-Fi connection that is not up in time is given up for good.
Init ==
  /\ clock = 0
  /\ cache = EmptyCache
  /\ mutex = "free"
  /\ callback = Idle
  /\ loopPc = "top"
  /\ loopReadAt = 0
  /\ isBroadcasting = FALSE
  /\ broadcastEndTime = 0
  /\ currentBroadcastIndex = -1
  /\ scanning = TRUE
  /\ advertising = FALSE
  /\ advData = ZeroPacket
  /\ wifi \in WifiAfterSetup
  /\ upstream = {}
  /\ acceptedAt = [f \in Frames |-> -1]

--------------------------------------------------------------------------------
(* Time. *)

MillisAt(time) == time % UINT32
Now == MillisAt(clock)

Tick ==
  /\ clock < MAX_CLOCK
  /\ clock' = clock + 1
  /\ UNCHANGED <<cache, mutex, callback, loopVars, radioVars, uplinkVars, acceptedAt>>

--------------------------------------------------------------------------------
(***************************************************************************)
(* The BLE task: onResult.                                                 *)
(***************************************************************************)

\* An advertisement with the right length and company id is heard; now is
\* read before the mutex is asked for.
Hear(packet, mac) ==
  /\ scanning
  /\ clock <= LAST_ARRIVAL
  /\ callback.pc = "idle"
  /\ callback' = [pc |-> "waiting", packet |-> packet, mac |-> mac, readAt |-> clock]
  /\ UNCHANGED <<clock, cache, mutex, loopVars, radioVars, uplinkVars, acceptedAt>>

CallbackNow == MillisAt(callback.readAt)
HeardFrame == callback.packet.hmac_sig
HeardLocation == Location(cache, HeardFrame, CallbackNow)
CheckedCache == CheckCache(cache, HeardFrame, CallbackNow, callback.mac)

\* The callback has its turn with the mutex.
InCallback ==
  /\ callback.pc = "waiting"
  /\ mutex = "free"

\* A live entry has the signature: its sender is counted, the packet dropped.
DropDuplicate ==
  /\ InCallback
  /\ HeardLocation # NotCached
  /\ cache' = CheckedCache
  /\ callback' = Idle
  /\ UNCHANGED <<clock, mutex, loopVars, radioVars, uplinkVars, acceptedAt>>

\* The signature is remembered before the TTL is looked at.
MutantDropExhausted ==
  /\ InCallback
  /\ HeardLocation = NotCached
  /\ wifi # "connected"
  /\ Ttl(callback.packet.flags) <= 1
  /\ LET added == AddToCache(CheckedCache, callback.packet, CallbackNow, 0, callback.mac) IN
       cache' = [added EXCEPT ![TargetSlot(CheckedCache, CallbackNow)].broadcasted = TRUE]
  /\ callback' = Idle
  /\ UNCHANGED <<clock, mutex, loopVars, radioVars, uplinkVars, acceptedAt>>

\* The packet has no hop left after this one: it is dropped and not cached.
DropExhausted ==
  /\ InCallback
  /\ HeardLocation = NotCached
  /\ wifi # "connected"
  /\ Ttl(callback.packet.flags) <= 1
  /\ cache' = CheckedCache
  /\ callback' = Idle
  /\ UNCHANGED <<clock, mutex, loopVars, radioVars, uplinkVars, acceptedAt>>

\* A new packet is stored with one hop less, to be sent after a random delay.
Queue ==
  /\ InCallback
  /\ HeardLocation = NotCached
  /\ wifi # "connected"
  /\ Ttl(callback.packet.flags) > 1
  /\ \E jitter \in Jitters :
       cache' = AddToCache(CheckedCache, NextHop(callback.packet), CallbackNow,
                           jitter, callback.mac)
  /\ acceptedAt' = [acceptedAt EXCEPT ![HeardFrame] = callback.readAt]
  /\ callback' = Idle
  /\ UNCHANGED <<clock, mutex, loopVars, radioVars, uplinkVars>>

\* A connected gateway sends a new packet upstream instead, keeping the mutex.
StartForward ==
  /\ InCallback
  /\ HeardLocation = NotCached
  /\ wifi = "connected"
  /\ cache' = CheckedCache
  /\ mutex' = "callback"
  /\ callback' = [pc |-> "sending", packet |-> callback.packet, mac |-> callback.mac,
                  readAt |-> callback.readAt, left |-> UDP_COPIES]
  /\ UNCHANGED <<clock, loopVars, radioVars, uplinkVars, acceptedAt>>

\* One datagram.  It may be lost; the result of endPacket is not looked at.
SendDatagram ==
  /\ callback.pc = "sending"
  /\ callback.left > 0
  /\ upstream' \in {upstream} \cup IF wifi = "connected" THEN {upstream \cup {HeardFrame}} ELSE {}
  /\ callback' = [callback EXCEPT !.left = @ - 1]
  /\ UNCHANGED <<clock, cache, mutex, loopVars, radioVars, wifi, acceptedAt>>

\* The entry just added is not marked.
MutantMarkForwarded(added) == CheckCache(added, HeardFrame, CallbackNow, callback.mac)

\* The entry just added is looked up again and marked as broadcasted.
MarkForwarded(added) ==
  LET newLoc == Location(added, HeardFrame, CallbackNow)
      checked == CheckCache(added, HeardFrame, CallbackNow, callback.mac)
  IN  IF newLoc = NotCached THEN checked
      ELSE [checked EXCEPT ![newLoc].broadcasted = TRUE]

\* The packet is cached as it was received, as one that needs no broadcast.
FinishForward ==
  /\ callback.pc = "sending"
  /\ callback.left = 0
  /\ cache' = MarkForwarded(AddToCache(cache, callback.packet, CallbackNow, 0, callback.mac))
  /\ acceptedAt' = [acceptedAt EXCEPT ![HeardFrame] = callback.readAt]
  /\ mutex' = "free"
  /\ callback' = Idle
  /\ UNCHANGED <<clock, loopVars, radioVars, uplinkVars>>

OnResult ==
  \/ DropDuplicate
  \/ DropExhausted
  \/ Queue
  \/ StartForward
  \/ SendDatagram
  \/ FinishForward

--------------------------------------------------------------------------------
(***************************************************************************)
(* The Arduino task: loop.                                                 *)
(***************************************************************************)

EnterLoop ==
  /\ loopPc = "top"
  /\ ~isBroadcasting
  /\ loopPc' = "waiting"
  /\ loopReadAt' = clock
  /\ UNCHANGED <<clock, cache, mutex, callback, isBroadcasting, broadcastEndTime,
                 currentBroadcastIndex, radioVars, uplinkVars, acceptedAt>>

\* Entries are due whether or not they were sent.
MutantDue(now) == {i \in Slots : cache[i].active /\ now >= cache[i].broadcast_time}

\* Entries whose turn has come; expires_at is not looked at.
Due(now) ==
  {i \in Slots : cache[i].active /\ ~cache[i].broadcasted /\ now >= cache[i].broadcast_time}

\* One neighbour too few covers an entry.
MutantUncovered(slots) == {i \in slots : cache[i].rx_count < REDUNDANCY - 1}

Uncovered(slots) == {i \in slots : cache[i].rx_count < REDUNDANCY}

\* Nothing is marked.
MutantMarkBroadcasted(slots) == cache

MarkBroadcasted(slots) ==
  [i \in Slots |-> IF i \in slots THEN [cache[i] EXCEPT !.broadcasted = TRUE] ELSE cache[i]]

InLoop ==
  /\ loopPc = "waiting"
  /\ mutex = "free"

\* Nothing to send: the due entries, if any, were all covered by neighbours.
CancelCovered ==
  /\ InLoop
  /\ LET due == Due(MillisAt(loopReadAt)) IN
       /\ Uncovered(due) = {}
       /\ cache' = MarkBroadcasted(due)
  /\ loopPc' = "top"
  /\ loopReadAt' = 0
  /\ UNCHANGED <<clock, mutex, callback, isBroadcasting, broadcastEndTime,
                 currentBroadcastIndex, radioVars, uplinkVars, acceptedAt>>

\* The first due entry that is not covered goes on the air; the covered ones
\* before it were cancelled, the entries after it wait for a later pass.
StartBurst ==
  /\ InLoop
  /\ LET due == Due(MillisAt(loopReadAt)) IN
       /\ Uncovered(due) # {}
       /\ LET slot == Min(Uncovered(due)) IN
            /\ cache' = MarkBroadcasted({i \in due : i < slot})
            /\ advData' = cache[slot].packet
            /\ currentBroadcastIndex' = slot
  /\ scanning' = FALSE
  /\ advertising' = TRUE
  /\ isBroadcasting' = TRUE
  /\ broadcastEndTime' = Plus32(MillisAt(loopReadAt), BROADCAST_BURST)
  /\ loopPc' = "top"
  /\ UNCHANGED <<clock, mutex, callback, loopReadAt, uplinkVars, acceptedAt>>

\* The burst lasts one unit too long.
MutantBurstOver == Now > broadcastEndTime

BurstOver == Now >= broadcastEndTime

\* A pass during a burst that is not over returns at once.
KeepBurst ==
  /\ loopPc = "top"
  /\ isBroadcasting
  /\ ~BurstOver
  /\ UNCHANGED vars

\* The scan is not started again.
MutantBackToScanning == advertising' = FALSE /\ scanning' = FALSE

BackToScanning == advertising' = FALSE /\ scanning' = TRUE

\* The burst is over: the radio goes back to scanning.
EndBurst ==
  /\ loopPc = "top"
  /\ isBroadcasting
  /\ BurstOver
  /\ BackToScanning
  /\ loopPc' = "ending"
  /\ UNCHANGED <<clock, cache, mutex, callback, loopReadAt, isBroadcasting, broadcastEndTime,
                 currentBroadcastIndex, advData, uplinkVars, acceptedAt>>

\* Then, without the mutex, the slot of the burst is marked, whatever it holds.
FinishBurst ==
  /\ loopPc = "ending"
  /\ isBroadcasting' = FALSE
  /\ cache' = MarkBroadcasted({currentBroadcastIndex})
  /\ loopPc' = "top"
  /\ loopReadAt' = 0
  /\ UNCHANGED <<clock, mutex, callback, broadcastEndTime, currentBroadcastIndex, radioVars,
                 uplinkVars, acceptedAt>>

Loop ==
  \/ EnterLoop
  \/ CancelCovered
  \/ StartBurst
  \/ KeepBurst
  \/ EndBurst
  \/ FinishBurst

--------------------------------------------------------------------------------
(* The access point comes and goes once setup has connected to it. *)

WifiChange ==
  /\ \/ wifi = "connected" /\ wifi' = "lost"
     \/ wifi = "lost" /\ wifi' = "connected"
  /\ UNCHANGED <<clock, cache, mutex, callback, loopVars, radioVars, upstream, acceptedAt>>

Arrival ==
  \E frame \in Frames, ttl \in ArrivingTtls, mac \in Macs :
    Hear(BuildEmergencyPacket(frame, ttl), mac)

Next == Tick \/ Arrival \/ OnResult \/ Loop \/ WifiChange

Spec == Init /\ [][Next]_vars

(***************************************************************************)
(* The same relay when its tasks keep up with the clock: loop() and a      *)
(* callback that waits for the mutex get to run within a unit of time, and *)
(* the sleeps of a forwarding gateway hold loop() back by less than one.   *)
(* The passes of loop that find nothing due change nothing and are left    *)
(* out.                                                                    *)
(***************************************************************************)
LoopIdle ==
  /\ loopPc = "top"
  /\ IF isBroadcasting THEN ~BurstOver ELSE Due(Now) = {}

PromptTick ==
  /\ LoopIdle
  /\ callback.pc # "waiting"
  /\ Tick

PromptLoop ==
  /\ Loop
  /\ loopPc = "top" /\ ~isBroadcasting => Due(Now) # {}

PromptNext == PromptTick \/ Arrival \/ OnResult \/ PromptLoop \/ WifiChange

PromptSpec == Init /\ [][PromptNext]_vars

(***************************************************************************)
(* The two tasks are preemptive and the mutex hands itself to a task that  *)
(* waits for it, so a step that stays possible is taken.  Real time goes   *)
(* on: infinitely many advertisements do not fit in one unit of time.      *)
(* Nothing is assumed of the neighbours or of the access point.            *)
(***************************************************************************)
FairSpec ==
  PromptSpec /\ SF_vars(PromptTick) /\ WF_vars(OnResult) /\ WF_vars(PromptLoop)

--------------------------------------------------------------------------------
(* What the relay guarantees. *)

CachedIn(frame) == {i \in Slots : cache[i].active /\ cache[i].hmac = frame}
OnAir(frame) == isBroadcasting /\ advData.hmac_sig = frame
Queued(frame) == ~OnAir(frame) /\ \E i \in CachedIn(frame) : ~cache[i].broadcasted
HeardFrom(frame) == UNION {cache[i].seen_macs : i \in CachedIn(frame)}

(***************************************************************************)
(* The search of checkCache stops at the first live entry of a frame and   *)
(* purges only what it meets on the way, and a slot is reused as soon as   *)
(* its entry expires; still no frame ever has two entries, so it has one   *)
(* counter and one turn on the air.                                        *)
(***************************************************************************)
OneEntryPerFrame ==
  \A i, j \in Slots :
    cache[i].active /\ cache[j].active /\ cache[i].hmac = cache[j].hmac => i = j

(***************************************************************************)
(* rx_count, which decides on the suppression of a frame, is the number of *)
(* different neighbours heard since the entry was written, whatever copies *)
(* they repeated and whatever the slot held before.                        *)
(***************************************************************************)
CountsDistinctSenders ==
  \A i \in Slots : cache[i].active =>
    /\ cache[i].rx_count = Cardinality(cache[i].seen_macs)
    /\ cache[i].rx_count \in 1 .. MAX_TRACKED_MACS

(***************************************************************************)
(* What waits for a turn and what is on the air is the signed body of the  *)
(* frame the entry is looked up by, with the TTL of a copy that was heard  *)
(* less one and never zero: clearing and writing the TTL bits of the flags *)
(* leaves the bits the signature covers alone.                             *)
(***************************************************************************)
OneHopLess(packet, frame) ==
  /\ packet.hmac_sig = frame
  /\ VerifyHmac(packet)
  /\ Ttl(packet.flags) > 0
  /\ Ttl(packet.flags) + 1 \in ArrivingTtls

TransmitsOneHopLess ==
  /\ \A i \in Slots : cache[i].active /\ ~cache[i].broadcasted =>
       OneHopLess(cache[i].packet, cache[i].hmac)
  /\ isBroadcasting => OneHopLess(advData, advData.hmac_sig)

(***************************************************************************)
(* "A new frame is accepted only once per cache lifetime": a frame that is *)
(* in the cache is accepted again CACHE_TTL_MS after it was last accepted  *)
(* at the earliest.                                                        *)
(***************************************************************************)
AcceptOncePerLifetime ==
  [][\A f \in Frames :
       acceptedAt'[f] # acceptedAt[f] /\ acceptedAt[f] # -1 /\ CachedIn(f) # {} =>
         acceptedAt'[f] >= acceptedAt[f] + CACHE_TTL_MS]_vars

(***************************************************************************)
(* And no less often: a copy with hops left is dropped only when the frame *)
(* was accepted less than CACHE_TTL_MS before, whatever copies came first. *)
(* A copy on its last hop, of which the relay does nothing, never makes it *)
(* drop one that it could pass on.                                         *)
(***************************************************************************)
AcceptsWhateverCameFirst ==
  [][callback.pc # "idle" /\ callback'.pc = "idle" /\ Ttl(callback.packet.flags) > 1 =>
       \/ acceptedAt'[HeardFrame] = callback.readAt
       \/ /\ acceptedAt[HeardFrame] # -1
          /\ callback.readAt < acceptedAt[HeardFrame] + CACHE_TTL_MS]_vars

(***************************************************************************)
(* A frame is out of the cache before its lifetime is over only when       *)
(* addToCache found every slot taken by such a frame, and then it is the   *)
(* one that was accepted first.                                            *)
(***************************************************************************)
LifetimeOver(frame) == clock >= acceptedAt[frame] + CACHE_TTL_MS

EvictsOldestWhenFull ==
  [][\A f \in Frames : CachedIn(f) # {} /\ CachedIn(f)' = {} /\ ~LifetimeOver(f) =>
       \A i \in Slots :
         /\ cache[i].active
         /\ acceptedAt[cache[i].hmac] >= acceptedAt[f]]_vars

(***************************************************************************)
(* "a bounded 500 ms transmit burst": the radio advertises for             *)
(* BROADCAST_BURST from the pass of loop that started the burst, neither   *)
(* longer nor, cut short by a later pass, less.                            *)
(***************************************************************************)
BurstIsBounded ==
  [][/\ advertising' => clock' <= loopReadAt' + BROADCAST_BURST
     /\ advertising /\ ~advertising' => clock = loopReadAt + BROADCAST_BURST]_vars

(***************************************************************************)
(* "stores the frame and schedules a rebroadcast": a queued frame leaves   *)
(* the queue only for the air or because REDUNDANCY neighbours sent it.    *)
(***************************************************************************)
NoSilentLoss ==
  [][\A f \in Frames : Queued(f) /\ ~Queued(f)' =>
       OnAir(f)' \/ Cardinality(HeardFrom(f)) >= REDUNDANCY]_vars

(***************************************************************************)
(* "No need to reboradcast": the entry marked at the end of a burst is the *)
(* one whose packet was on the air.                                        *)
(***************************************************************************)
MarksWhatWasAired ==
  [][loopPc = "ending" /\ loopPc' = "top" =>
       \A i \in Slots : cache[i].active /\ ~cache[i].broadcasted /\ cache'[i].broadcasted =>
         cache[i].hmac = advData.hmac_sig]_vars

(***************************************************************************)
(* An entry that waits for its turn, or is on the air, is there until it   *)
(* is marked: no lookup purges it, no newer frame evicts it, and no copy   *)
(* accepted again in its place makes it forget the neighbours it heard.    *)
(* This is what a relay owes its life cycle, and what it does not do when  *)
(* more is queued than one lifetime can air.                               *)
(***************************************************************************)
UnsentStays ==
  \A i \in Slots : cache[i].active /\ ~cache[i].broadcasted =>
    /\ cache'[i].active /\ cache'[i].hmac = cache[i].hmac
    /\ cache[i].seen_macs \subseteq cache'[i].seen_macs

KeepsUnsent == [][UnsentStays]_vars

\* "then returns to scanning": the radio never stays in a burst for good.
ReturnsToScanning == ~scanning ~> scanning

\* A queued frame does not stay in the queue for good: it is aired,
\* cancelled, or its entry expires.
QueueDrains == \A f \in Frames : Queued(f) ~> ~Queued(f)

(***************************************************************************)
(* The relay implements the life cycle it promises for every frame.        *)
(***************************************************************************)
FrameStatus(frame) ==
  IF OnAir(frame) THEN "airing"
  ELSE IF Queued(frame) THEN "queued"
  ELSE IF CachedIn(frame) = {} THEN "unknown" ELSE "done"

Lifecycle == INSTANCE FrameLifecycle WITH
  status <- [f \in Frames |-> FrameStatus(f)],
  heardFrom <- [f \in Frames |-> HeardFrom(f)]

ImplementsLifecycle == Lifecycle!Spec

================================================================================
