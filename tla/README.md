# BLE beacon mesh: specifications

TLA+ specifications of the programs in this repository: the ESP32 firmware that
floods emergency packets over Bluetooth advertisements, the UDP simulation of the
same mesh, and the generator of simulated topologies. TLC checks them on small
instances; for every component with state, TLAPS proves the type correctness and
the safety properties that the runs find to hold, for every value of the constants and
under the hypotheses listed in [Proofs](#proofs). It proves that the relays and the victim
composed on the air remain what they are alone, and that the timings of the three add up
to a flood that is new to every relay, relayed once and silenced by nobody. Liveness is
model-checked only.

- [The system](#the-system)
- [What is hard](#what-is-hard)
- [What makes each part correct](#what-makes-each-part-correct)
- [Modules](#modules)
- [How the models read the code](#how-the-models-read-the-code)
- [Runs](#runs)
- [Fairness](#fairness)
- [Proofs](#proofs)
- [Disagreements between the code and its documentation](#disagreements-between-the-code-and-its-documentation)
- [Not modelled](#not-modelled)
- [What is left](#what-is-left)

## The system

A victim builds a 25-byte packet, signs it and advertises it. Relays scan, drop
what their cache knows, take one hop off the TTL and advertise the packet after a
random delay, unless enough neighbours did so first. A gateway is a relay with
Wi-Fi: it sends what it hears to a server in UDP datagrams. There is no routing
table, no acknowledgement and no state that survives a reset.

| Component | Source | State | Operations |
|---|---|---|---|
| Emergency packet | `arduino/include/emergencyPacket.h`, `udp-simulator/emergencyPacket.h` | 25 bytes; `flags` holds the GPS bit and a 5-bit TTL | build and sign; take one hop off; verify |
| Victim | `arduino/src/esp-victim.cpp` | `globalPacket`, `lastMinute`, the advertisement data, the radio | `setup`; `loop`: rebuild when the minute changes, advertise, pause |
| Relay and gateway | `arduino/src/esp-relay.cpp` | `isBroadcasting`, `broadcastEndTime`, `currentBroadcastIndex`, `cacheMutex`, the radio, Wi-Fi | `onResult` on the BLE task; `loop` on the Arduino task |
| Time-aware cache | `arduino/src/timeAwareCache.cpp`, `arduino/include/timeAwareCache.h` | `entries[CACHE_SIZE]`: signature, packet, expiry, time of broadcast, senders, two flags | `checkCache`, `addToCache` |
| Circular buffer | `udp-simulator/lib/circularBuff.cpp`, `.h` | 256 signatures and a cursor | `containsBuff`, `addToBuff` |
| Simulated victim, relay, exit | `udp-simulator/victim.cpp`, `node.cpp`, `exit.cpp` | a ring each; sockets on the zones | broadcast; receive and pass on; receive and announce |
| Mesh generator | `udp-simulator/tools/generate_mesh.py` | relays, active zones, depths, exits | draw relays, search, place exits, render |
| UDP scanner | `python-scanner/udp-scanner.py` | cache of signatures with their time | verify, show one packet of a burst |
| BLE scanner | `python-scanner/ble-scanner.py` | none | verify, print |

How they interact:

- *Victim and relays, over the air.* Advertisements are heard or not, by any
  neighbour, as often as the library reports them. Nothing goes back.
- *The two tasks of a relay, through shared memory.* The BLE task runs `onResult`
  for every advertisement, the Arduino task runs `loop`. They share the cache
  under `cacheMutex`, and the radio and `currentBroadcastIndex` without it.
- *Gateway and scanner, over UDP.* Three datagrams per packet, unacknowledged.
- *Simulated nodes, over bridged networks (zones).* A broadcast in a zone is
  queued at every socket of the zone, the sender's own included.
- *Generator and simulation.* The generator writes the composition that says
  which node is attached to which zones.

## What is hard

`PROJECT.json` lists the hazards line by line, each with the properties that
watch it. They are of these kinds:

- **Two tasks, one cache.** The mark at the end of a burst is written without the
  mutex (`esp-relay.cpp:183`), when the slot may hold another frame; and `loop` reads
  `millis()` before it waits for the mutex (`:173`).
- **Sleeping with the mutex.** A gateway that forwards keeps it over three
  datagrams and their delays, takes the decision to do so from one reading of
  the Wi-Fi status (`:68`), and puts the frame aside whatever became of the datagrams.
- **32-bit time.** `expires_at`, `broadcast_time` and `broadcastEndTime` are
  sums modulo 2^32 compared with `>=`.
- **A full table.** The oldest entry is evicted, queued or on the air as it may
  be; expired entries are purged although they were never sent.
- **Partial purges.** `checkCache` purges only what it passes on its way.
- **Which copy comes first.** A copy on its last hop is of no use to a relay, and must
  not keep it from passing on one that comes later with hops left.
- **Flooding.** Relays hear themselves and each other; copies come in any order
  with any TTL; rings of signatures are bounded.
- **Timers of different nodes.** A relay forgets a frame after 2 s whatever its
  neighbours do; the victim repeats its packet every 5 s; a relay cancels what it
  hears often enough. Nothing but these lengths keeps a frame from going round,
  from being dropped as old, or from being left to nobody.
- **A window on a lossy network.** The scanner has 20 ms to tell the copies of a
  burst from a new one.
- **A search that never lowers a depth** (`generate_mesh.py:98`), with a comment
  that wonders whether it should.

## What makes each part correct

| Component | Properties |
|---|---|
| Packet | every copy that is passed on still verifies, and its TTL counts hops |
| Cache | one entry per frame; the receive counter is the number of different neighbours heard since the frame was accepted; a frame is accepted once per lifetime, and no copy with hops left is dropped after it; only the oldest of a full cache is forgotten early |
| Relay | what waits and what is on the air has one hop less than a copy heard; if `loop` keeps up with the clock and the clock does not wrap, a burst lasts what it should; every frame follows its life cycle; the radio returns to scanning; the queue drains |
| Victim | packets of the current minute, one per burst, and pauses longer than a relay remembers |
| Circular buffer | it is the set of the last `HASHES` signatures let through |
| Relays and victim, over the air | each relay relays a burst once and can relay the next; suppression silences nobody unless somebody spoke; what was accepted is relayed |
| Scanner | one datagram of a burst is shown; none is hidden unless the frame was just shown |
| Simulated mesh | each relay passes a packet on once, the flood dies out, every exit that can be reached is reached |
| Generator | depths are distances, the main mesh is connected, exits are the furthest zones, every zone in use is declared |

## Modules

```
EmergencyPacket ── TimeAwareCache ── Relay ──┬─ MCRelay
       │                               │     └─ SenderCount ── MCSenderCount
       │                               │ · · · · FrameLifecycle   (abstract)
       │                               │
       │                BleMesh · · · ·┴· · VictimBeacon
       └── CircularBuff ──┬── DuplicateFilter · · RecentHashes    (abstract)
                          └── UdpMesh ── MCUdpMesh
GenerateMesh ── MCGenerateMesh          Uplink

SharedLemmas ──┬── RelayProofs ········ BleMeshProofs ········ VictimBeaconProofs
               ├── UdpMeshProofs
               └── DuplicateFilterProofs     UplinkProofs      GenerateMeshProofs
```

A line is EXTENDS, a dotted line INSTANCE: of an abstract specification under a
refinement mapping, or, in `BleMesh`, of the components it composes (`Relay`
twice, `VictimBeacon` once). Each module of proofs extends the module it is named
for as well (`RelayProofs` extends `SenderCount`, and so `Relay`), and `BleMeshProofs` takes `RelayProofs` and `VictimBeaconProofs` under the
same instances as `BleMesh` takes the components.

| Module | What it models |
|---|---|
| `EmergencyPacket` | The flags byte, `BuildEmergencyPacket`, `NextHop` (the TTL step of relays), `VerifyHmac` (the scanners' check). |
| `TimeAwareCache` | `CheckCache` and `AddToCache` as functions from cache to cache. |
| `Relay` | One relay or gateway with its two tasks, mutex, radio and Wi-Fi. |
| `SenderCount` | A relay with the history of the neighbours it heard since it accepted each frame: what its counters should count. |
| `FrameLifecycle` | What a relay promises for each frame: unknown, queued, airing, done, and the neighbours that count. |
| `CircularBuff` | The ring of a simulated node: rows and cursor. The row at which the cursor turns back is a constant of its own (`LAST_ROW`, the 255 of `circularBuff.cpp:17`); `RingAssumption` says that it is the last row, as it is for 256. |
| `DuplicateFilter` | The test that node and exit start with, on the ring. |
| `RecentHashes` | A filter that remembers the last `HASHES` signatures, as a sequence. |
| `UdpMesh` | Victims, relays and exits of the simulation on a lossy, reordering network. |
| `GenerateMesh` | `build_mesh` with every outcome of its random draws. |
| `VictimBeacon` | The victim's `setup` and `loop` against a clock that goes on between any two steps. |
| `BleMesh` | A victim and two relays in reach of each other: what one advertises is what the others may hear. |
| `Uplink` | Gateways that send bursts of datagrams, the network between, and the scanner with its window. |
| `MCRelay`, `MCSenderCount`, `MCUdpMesh`, `MCGenerateMesh` | Symmetry and topologies for TLC. |
| `SharedLemmas` | Lemmas about packets and about the ring, for the proofs about several components. |
| `RelayProofs`, `VictimBeaconProofs`, `UplinkProofs`, `DuplicateFilterProofs`, `UdpMeshProofs`, `GenerateMeshProofs` | The theorems about each component. |
| `BleMeshProofs` | The theorems about the composition on the air: each node keeps its specification, and the flood of one burst. |

An operator named `Mutant…` is the operator defined after it with a plausible
mistake. No specification uses it; it shows that a property tells the two apart,
and `PROJECT.json` pairs each property with the mistake it detects.

### Relay and the code

| Action | Code |
|---|---|
| `Hear` | the advertisement has the right length and company id; `now` is read (`esp-relay.cpp:42-59`) |
| `DropDuplicate` | `checkCache` finds the frame and counts its sender |
| `DropExhausted` | not found, no uplink, TTL 1 or 0 |
| `Queue` | not found, no uplink: TTL less one, `addToCache` with a jitter |
| `StartForward`, `SendDatagram`, `FinishForward` | not found, connected: datagrams with sleeps between, then `addToCache`, a second `checkCache`, and the mark |
| `EnterLoop` | `loop` reads `now`, then waits for the mutex |
| `CancelCovered`, `StartBurst` | the sweep over the slots: cancel the covered, air the first that is not |
| `KeepBurst`, `EndBurst`, `FinishBurst` | a pass during a burst; its end in two steps, the radio first, then the mark |
| `WifiChange`, `Tick` | the environment |

The cache steps are whole critical sections. `esp-relay.cpp:183` is the only access
to the cache without the mutex, and it writes one flag: wherever it falls within
a critical section, the result is that of falling just before or just after. The
section that sleeps is split at its sleeps.

### Uplink, the air and the code

| Action | Code |
|---|---|
| `Uplink!StartForward`, `SendDatagram` | the loop over three datagrams and its delay (`esp-relay.cpp:71-77`); the mutex, kept throughout, makes a gateway send one burst at a time |
| `Uplink!Show`, `Suppress` | `datagram_received`: past the window or never seen, the time is written and the frame shown; else nothing is written (`udp-scanner.py:57-64`) |
| `Uplink!Lose`, and a datagram that stays in `network` when it is received | the network |
| `BleMesh!VictimStep` | `setup` and `loop` of the victim, as in `VictimBeacon` |
| `BleMesh!HearA`, `OnResultA`, `LoopA`, and the same of B | `onResult` and `loop` of a relay, as in `Relay`; a packet is heard only while the victim or the other relay has it on the air, under that node's address |
| `BleMesh!Tick` | one clock for all; it goes on when no task of any node has anything to do |

## How the models read the code

- **Packets.** A frame is the body with its signature, and two bodies never share
  one (64 bits of HMAC). Phone, time and payload are read by nobody but the
  signature. The flags are kept as a byte, with the source's masks as
  arithmetic, because the TTL shares it with a bit that is signed.
- **Time.** `clock` counts without bound; what the code sees is `clock % UINT32`.
  Each configuration says how long a unit is.
- **The radio** scans or advertises. In `Relay` a relay hears any frame, with any TTL of
  `ArrivingTtls`, from any neighbour, whenever it scans: this covers all
  neighbours there can be, well-behaved or not. In `BleMesh` it hears what is on
  the air.
- **Wi-Fi.** `setup` ends with or without a connection. Without one it is off
  for good; a connection may be lost and found again at any time. Datagrams are
  lost at will.
- **History variables** (`acceptedAt`, `heardSince`, `forwarded`, `passMinute`, `silentSince`,
  `shown`, `shownAt`) record what properties speak of and never guard a step.
- **Bounds.** `MAX_CLOCK` stops the clock and `LAST_ARRIVAL` the arrivals;
  `BRD_LIFETIME` is the code's own bound on a victim's broadcasts; `MAX_DELAY` is how
  long a datagram of the uplink may take before it counts as lost, its gateway's
  own lateness included. Nothing else is bounded.
- **Simulation.** A simulated process has no threads and shares nothing, so the
  handling of a datagram is one step. Nobody in the simulation verifies a
  signature (its victim signs all 25 bytes, the scanners check 17), so
  `TtlCountsHops` asks that the signed bits of the flags are those the victim
  wrote. The network is a set: a duplicate of a
  datagram would be dropped by the ring of its receiver.

## Runs

Each run asks one question. Times are for two workers.

| Run | Module, configuration | Shows | States |
|---|---|---|---|
| `relay_safety` | `MCSenderCount` | tasks scheduled freely, fewer slots than frames, fewer addresses than neighbours, a gateway that loses its access point: the cache is consistent, its counters are the numbers of neighbours heard since a frame was accepted (or the size of the array), only correct packets wait or are sent, a frame still cached is accepted again a lifetime later at the earliest, a copy with hops left is accepted whatever came before unless its frame just was, and only the oldest of a full cache goes early | 2.5 M, 135 s |
| `relay_live` | `MCRelay_live` | a gateway, its tasks scheduled fairly: `Relay` implements `FrameLifecycle`, a burst of a `loop` that keeps up with the clock is `BROADCAST_BURST` long, the radio returns to scanning, the queue drains | 0.1 M, 75 s |
| `air` | `MCBleMesh` | a victim and two relays: each node does what its own module says; a burst is relayed once by each and the next one can be; suppression leaves a speaker; what is queued gets its turn before it expires; what was accepted is relayed | 0.2 M, 45 s |
| `uplink` | `MCUplink` | a lossy network: one datagram of a burst is shown, and none hidden that should not be | 1.5 M, 50 s |
| `relay_backlog` | `MCRelay_backlog` | *violation*: the fifth of five frames is purged unsent | |
| `relay_race` | `MCRelay_race` | *violation*: the mark after a burst hits another frame | |
| `relay_wrap` | `MCRelay_wrap` | *violation*: a frame is accepted twice when `millis()` wraps | |
| `filter` | `MCDuplicateFilter` | the ring implements `RecentHashes` | 3 k |
| `mesh_storm` | `MCUdpMesh_storm` | loss, reordering and forgetful rings: the TTL counts hops and the flood ends | 0.2 M |
| `mesh_reach` | `MCUdpMesh_reach` | with a row per signature and no loss: relayed once, and every exit reached | 61 k |
| `generate` | `MCGenerateMesh_mesh` | depths, connection, placement of exits and the zones declared, for all draws | 6 k |
| `beacon` | `MCVictimBeacon_beacon` | bursts, pauses and the rollover of the minute | 31 k |

Why the bounds are enough:

- **`relay_safety`.** Three frames for two slots: one entry is reused while another
  is looked for, and a new frame meets a full cache. Three neighbours for an array of
  two: the second is counted and covers the frame (`REDUNDANCY` is 2), the third finds
  the array full. TTL 1 and 3 give a last hop and a hop to spare; copies of a frame come
  in any order. The lifetime is as long as the clock runs, so that what was accepted at 0
  expires at 2, and callbacks that read the clock at 1 are still waiting then: entries
  expire, or do not, by the reading of the callback that looks. Their slots are written
  again with the addresses of before in them, by the same frame and by others. The
  gateway falls back to a relay when it loses its access point, also between
  the decision to forward and the mark; its datagrams change nothing that these
  properties speak of and are sent in `relay_live`. All that this run checks is also
  proved without any of these bounds: the invariants for clocks that wrap too, the action
  properties for clocks that do not, since `AcceptOncePerLifetime` fails when they do
  (`relay_wrap`).
- **`relay_live`.** Units of 500 ms: a burst is one, a lifetime four, as in the code.
  The clock runs for 3.5 s, long enough for what is heard in the first second to
  be aired or cancelled and the radio to come back; jitters of zero
  and 500 ms separate the entries. Frames are heard in the first second only, on their last hop or not, so that
  no lookup purges an entry in this run: a later arrival makes the search for fair
  cycles several times as long. What purges and renewed acceptances do to the life
  cycle is in `UnsentKeptImplementsLifecycle`, and in the run `air`, where entries do expire and
  frames are accepted again. The clock stopping does not hide a failure:
  the liveness properties are *leads to* and are met before. Two frames fit in a
  lifetime; with five the life cycle fails (`relay_backlog`), since a burst takes
  500 ms of a lifetime of 2 s.
- **`relay_race`.** Three frames for two slots: one more than fits.
- **`air`.** Units of 250 ms: airing, pause, burst and lifetime are in the ratio of
  the code, jitters fall within one unit, and the clock runs past the second
  burst of the victim and all that follows it. With everybody in reach of everybody and
  every advertisement heard or not, the line from the victim over one relay to the
  other is among the behaviours. `NodesKeepTheirSpecs` checks that a relay is never made to
  hear what `Relay` does not take into account, and `RelaysKeepUnsent` that what the relay
  theorems ask for is so on the air. The values satisfy `TimingsFit`, the hypothesis under
  which this is proved (6 and 5 are less than a lifetime of 8, 11 is at most the pause of 18), as
  those of the code do (1400 and 1200 ms, a lifetime of 2000; 2700 ms, a pause of 4500). REDUNDANCY is 2: with three transmitters a relay
  hears two at most. One slot: there is one frame, since the minute of the victim
  does not end within 7.5 s.
- **`uplink`.** Units of 5 ms: three datagrams, a window of four units, and a network
  that delays by one, the largest spread for which the promise can hold. Two gateways
  and two frames: bursts overlap, follow on each other, and frames mix. The clock
  runs for 35 ms, past the window and into a second one.
- **`filter`.** Four rows and six signatures: the cursor wraps and meets each row
  in every state of the others.
- **`mesh_storm`.** Two relays on neighbouring zones feed each other; one row for
  two signatures makes each packet push the other out, the worst case.
- **`mesh_reach`.** Three relays: the smallest mesh with two ways of different length
  to an exit, so that copies with different TTLs overtake one another. The
  victim's datagrams are sent once: a repetition would be dropped.
- **`generate`.** Three relays and the six zones the generator draws from for them,
  two exits: trees, cycles, islands (all relays may be), and fewer reachable
  zones than exits.
- **`beacon`.** A minute of 6 s instead of 60 s, not a multiple of the burst and
  its pause, so that bursts meet each phase of a minute within 20 s; a burst is
  500 ms, a pause 4.5 s and a lifetime 2 s, as in the code.

CHECK_DEADLOCK is off where the program stops by itself or the clock does: in the
simulation the victims end and the sockets run dry, the generator ends, the
gateways have forwarded every frame, and the victim and the nodes on the air wait
for a clock that has reached its bound. A relay always has a
step (`loop` spins, advertisements go on), and deadlock is checked there.

## Fairness

- **Relay** (`FairSpec`). `WF(OnResult)` and `WF(PromptLoop)`: both tasks are
  preemptive FreeRTOS tasks, and a mutex is handed to a waiting task; a step that
  stays possible is taken. `SF(PromptTick)`: real time goes on although
  advertisements keep interrupting. Nothing is assumed of the neighbours or of the
  access point. `PromptSpec` adds that both tasks keep up with the clock: `loop` and
  a callback that waits run within one unit (250 or 500 ms), which the code needs
  for its own delays of 50 to 200 ms to mean anything. The run
  `relay_safety` and all theorems about a relay but `BurstIsBoundedHolds` are about `Spec`,
  without it. `BleMesh` takes the same view of time as `PromptSpec`, in its theorems too.
- **Simulation** (`FairSpec`). `WF(SomethingHandled)`: processes go on reading.
  `ReliableSpec` adds that victims broadcast and that bridges lose nothing; it is
  used only for the promise that needs it, `ReachesEveryExit`.
- **The air** (`BleMesh!FairSpec`). The same as for a relay, for every task of every
  node. There are two relays to be heard by, so that real time goes on is
  said outright: infinitely many hearings take infinitely many units of time.
- The other modules promise nothing that needs fairness.

## Proofs

TLAPS checks the following for every value of the constants: any set of frames,
neighbours, gateways or nodes, any size of a cache or ring, any lifetime, delay and
width of the clock, any mesh. A hypothesis is stated in the theorem itself.

| Module | Theorem | Says | Hypothesis |
|---|---|---|---|
| `RelayProofs` | `TypeCorrect` | `Spec => []TypeOK` | |
| | `Invariance` | `Spec => []IInv` | |
| | `OneEntryPerFrameHolds` | `Spec => []OneEntryPerFrame` | |
| | `CountsDistinctSendersHolds` | `Spec => []CountsDistinctSenders` | |
| | `CountsNeighboursHeardHolds` | `CountedSpec => []CountsNeighboursHeard` | |
| | `TransmitsOneHopLessHolds` | `Spec => []TransmitsOneHopLess` | |
| | `AcceptOncePerLifetimeHolds` | `Spec => AcceptOncePerLifetime` | `NoWrap` |
| | `AcceptsWhateverCameFirstHolds` | `Spec => AcceptsWhateverCameFirst` | `NoWrap` |
| | `EvictsOldestWhenFullHolds` | `Spec => EvictsOldestWhenFull` | `NoWrap` |
| | `BurstIsBoundedHolds` | `PromptSpec => BurstIsBounded` | `NoBurstWrap` |
| | `UnsentKeptImplementsLifecycle` | `Spec => ImplementsLifecycle` | `KeepsUnsent` |
| | `UnsentKeptLosesNothing` | `Spec => NoSilentLoss` | `KeepsUnsent` |
| | `UnsentKeptMarksAired` | `Spec => MarksWhatWasAired` | `KeepsUnsent` |
| | `AirsWhatIsHeardHolds` | `Spec => []AirsWhatIsHeard` | |
| `BleMeshProofs` | `NodesKeepTheirSpecsHolds` | `Spec => NodesKeepTheirSpecs` | |
| | `TypeCorrect` | `Spec => []TypeOK` | |
| | `RelaysAcceptOncePerLifetime` | `Spec => A!AcceptOncePerLifetime /\ B!AcceptOncePerLifetime` | no wrap of the clock |
| | `RelaysKeepLifecycle` | `Spec /\ RelaysKeepUnsent => A!ImplementsLifecycle /\ B!ImplementsLifecycle` | in the theorem |
| | `AcceptOncePerBurstHolds` | `Spec => AcceptOncePerBurst` | `TimingsFit` |
| | `RelaysKeepUnsentHolds` | `Spec => RelaysKeepUnsent` | `TimingsFit` |
| | `EveryBurstIsNewHolds` | `Spec => EveryBurstIsNew` | `TimingsFit` |
| | `SomebodyRelaysHolds` | `Spec => []SomebodyRelays` | `TimingsFit` |
| | `RelaysImplementLifecycle` | `Spec => A!ImplementsLifecycle /\ B!ImplementsLifecycle` | `TimingsFit` |
| | `RelaysLoseNothing` | `Spec => A!NoSilentLoss /\ B!NoSilentLoss` | `TimingsFit` |
| `VictimBeaconProofs` | `TypeCorrect` | `Spec => []TypeOK` | |
| | `OnePacketPerBurstHolds` | `Spec => OnePacketPerBurst` | |
| | `SilenceOutlastsCachesHolds` | `Spec => SilenceOutlastsCaches` | `PAUSE >= CACHE_TTL_MS` |
| | `AirsThisMinuteHolds` | `Spec => AirsThisMinute` | |
| `UplinkProofs` | `TypeCorrect` | `Spec => []TypeOK` | |
| | `HiddenOnlyAfterShownHolds` | `Spec => HiddenOnlyAfterShown` | |
| | `BurstShownOnceHolds` | `Spec => []BurstShownOnce` | in the property: the window is wider than a burst and the delays |
| `DuplicateFilterProofs` | `TypeCorrect` | `Spec => []TypeOK` | |
| | `RingImplementsRecentHashes` | `Spec => ImplementsRecentHashes` | |
| `UdpMeshProofs` | `TypeCorrect` | `Spec => []TypeOK` | |
| | `RelaysOnceHolds` | `Spec => RelaysOnce` | `EnoughRows` |
| | `TtlCountsHopsHolds` | `Spec => []TtlCountsHops` | |
| `GenerateMeshProofs` | `TypeCorrect`, `Invariance` | `Spec => []TypeOK`, `Spec => []IInv` | |
| | `DepthsAreDistancesHolds` | `Spec => []DepthsAreDistances` | |
| | `MainMeshIsReachableHolds` | `Spec => []MainMeshIsReachable` | |
| | `ExitsAreFurthestHolds` | `Spec => []ExitsAreFurthest` | |
| | `DeclaresEveryZoneHolds` | `Spec => []DeclaresEveryZone` | |

### Assumptions and hypotheses

**On constants**, named in the modules and evaluated by TLC in every run:
`FramesAssumption` (frames with GPS are frames, the zero signature is none),
`CacheAssumption` and `RingAssumption` (sizes are positive numbers, and the ring's cursor
turns back at its last row),
`RelayAssumption` (TTLs have five bits; REDUNDANCY lies between 2 and
`MAX_TRACKED_MACS`), `BeaconAssumption` (the offset of the wall clock leaves room for the
`lastMinute` that `setup` pretends), `UplinkAssumption`, `MeshAssumption`,
`GenerateMeshAssumption` (two zones to draw for each relay, as
the script makes them), `BleMeshAssumption` (what `FramesAssumption`, `CacheAssumption`,
`RelayAssumption` and `BeaconAssumption` ask of the nodes, and a TTL that fits in the
flags).

**In theorems:**

- `NoWrap`, `NoBurstWrap`: the run ends before `millis()` wraps, 49.7 days after the
  relay was switched on. `relay_wrap` shows that `AcceptOncePerLifetime` fails
  after it; a burst begun less than `BROADCAST_BURST` before the wrap ends at once. The invariants need no such
  thing: they hold across the wrap.
- `KeepsUnsent`: an unsent entry stays in its slot, with the neighbours heard, until it is
  marked. This is not so in general: a relay that hears more than it can air breaks it, and `relay_backlog` and
  `relay_race` show what follows. The theorems say that *nothing else* takes a
  relay off the life cycle of `FrameLifecycle`: not the readings of the
  clock before the mutex, nor callbacks during a burst, nor forwarding, nor the wrap. On the air
  it is no hypothesis: `RelaysKeepUnsentHolds` has it from the timings.
- `TimingsFit(longest)`, for the flood of one burst. With `longest` no less than any
  jitter: `2 * (longest + BROADCAST_BURST) < CACHE_TTL_MS`, so that what a relay has from
  the other relay, and relays in turn, is over before that one forgets;
  `AIRING + longest + BROADCAST_BURST < CACHE_TTL_MS`, so is what it has from the victim; and
  `longest + BROADCAST_BURST + CACHE_TTL_MS <= PAUSE`, so that a relay that heard a burst
  last has forgotten it when the next begins. In the code `longest` is 200 ms, a burst 500,
  `AIRING` 500, the lifetime 2000 and the pause 4500: 1400, 1200 and 2700. The run
  ends before the clocks wrap (`MAX_CLOCK + CACHE_TTL_MS < UINT32`). Beyond this and
  `BleMeshAssumption` nothing is assumed: not of `REDUNDANCY`, the cache size, the TTL, or
  who hears what.
- `PAUSE >= CACHE_TTL_MS`: 4500 ms and 2000 ms in the code.
- `EnoughRows`: as many rows as frames, 256 in the code. Without it relays do pass
  packets on again (`mesh_storm`); `TtlCountsHops` holds all the same.
- `BurstIsBounded` is about `PromptSpec`: tasks that keep up with the clock. That `loop` sees
  the end of a burst within a unit is assumed there, not shown; what is proved is that the
  end it waits for is the right one and that nothing moves it.

### The relay

**The inductive invariant.** None of the three invariants is inductive alone.

- `IInv == TypeOK /\ HeardFromNeighbour /\ CacheInv /\ AirInv`.
- `CacheInv` holds of each entry that the counter counts its senders (`Counted`),
  that an entry still to be broadcast carries a correct packet (`Sendable`), and
  that no two entries share a signature (`Unique`).
- `HeardFromNeighbour` says that the packet a callback holds is as a neighbour
  built it: without it the packet stored by `Queue` after a wait for the mutex is
  unknown.
- `AirInv` says the same of the advertisement data, which outlives its entry.

**The argument.** `Unique` is the delicate one. `CheckCache` stops at the first
live entry, so expired entries of the same frame may remain behind it; that a new
entry never meets one rests on the `now` of the lookup being the `now` of the
insertion (`CheckedCacheKeeps`, `AddToCacheKeeps`): a lookup that finds nothing has
passed all slots, and one reading of the clock serves both, however old it is. For a
forwarding gateway the mutex is held between the two, and `MarkForwarded` must
find the entry just added, or else find it expired already
(`FinishForwardKeeps`). Therefore `OneEntryPerFrame` holds whatever the scheduling and
even when the clock wraps, although `AcceptOncePerLifetime` does not.

**Time.** `TimeInv` adds that every reading of the clock is in the past and that an
entry expires `CACHE_TTL_MS` after its frame was last accepted (`Expiring`). A frame that is
accepted while it has an entry was purged by that very lookup (`CheckCachePurges`,
`AcceptsExpired`), at a reading at or past its expiry; and the clock has not gone
back since. An entry that goes before its time was replaced in a cache that stayed
full after the purge, by the least expiry (`AddToCacheEvicts`, `EvictsOldest`). A lookup that
hits has found an entry that is not expired, so a copy with a hop left is dropped within the
lifetime of an acceptance only (`AcceptsUnlessKnown`); a copy without one adds no entry.

**Counters.** `CountsDistinctSenders` relates the counter to the addresses of the entry,
`CountsNeighboursHeard` both to what was heard. `HeardInv` says that an entry has addresses
of neighbours heard since the acceptance, and all of them while there is room (`Tracks`).
It needs `Unique`, since a neighbour heard is recorded in one entry only, and that an
accepted frame has no other entry.

**Bursts.** `BurstInv` ties `broadcastEndTime` to the reading a burst began with, and
says that an advertising relay is at the top of `loop` with its burst not past its end.

**The life cycle.** Where unsent entries are kept, `LifeInv` says that the slot of a
burst holds, unsent, the frame on the air. With it each action is a step of
`FrameLifecycle` or a stutter (`LifeStep`, one lemma per action): a lookup may make frames
unknown that were done, in any number, and count a sender, or make way for a new one;
the sweep cancels or airs one; the mark ends it. The mapping is stated
over a cache and the frame on the air as parameters (`StatusIn`, `SendersIn`), so that
one lemma speaks of the states before and after a step. `NoSilentLoss` and
`MarksWhatWasAired` follow from the life cycle alone.

**Airtime.** `AirtimeInv` says that an entry carries the packet of its own frame, and
what is on the air likewise. With `IInv` it follows that a relay airs, to the bit, what
another relay may be told to expect (`AirsWhatIsHeard`): the signed bits of the flags
from the victim, and a TTL one less than one that arrives.

### The air

Each relay hears what the other airs, so neither can be reasoned about first. The
proof is a joint induction: `NodesInv`, the invariants of both relays, and `VictimInv` hold before
a step; then what either hears in it is an arrival of `Relay` (`AHearsArrivals`,
`BHearsArrivals`: from the victim by its invariants, from the other relay by
`AirsWhatIsHeard`), so the step is one of `Relay` for each, and the invariants hold
after it by the lemmas of `RelayProofs`. The victim hears nobody and is settled
beforehand (`VictimOfBleMesh`). That the composition keeps the specification of
each node carries every theorem of `RelayProofs` and `VictimBeaconProofs` over to it;
three are spelled out (no frame is accepted twice in a lifetime, the life cycle, and that
nothing queued is lost). The lemmas `Same…` equate the instances of a module in `BleMesh` with those in
the module of its proofs.

**The flood of one burst.** `FloodInv`, with `NodesInv` and `VictimInv`, is inductive
where the timings fit. It has two phases.

- *In a pass* of the victim's `loop`, from the moment the packet is on the air
  (`Flood`), there is one frame in the mesh. For one relay this is `RelaysOne` of
  `RelayProofs`: it has not heard the frame (`Unheard`), or holds a single entry of it in
  the first slot (`Alone`), that is heard at once or will be sent `longest` after it was
  accepted at the latest (`InTurn`); a callback that waits for the mutex read the clock in
  this very unit (`Hearing`). An empty cache gives the first slot, and with one
  frame the sweep of `loop` has no choice to make, so nothing unsent waits longer than its
  jitter.
- *Between the relays*: `Reached` is the chain of acceptances. A relay has the frame
  from the victim, within `AIRING` of the start, or from the other relay, which has it
  from the victim, within the jitter and burst of that one. A third link does not exist, because
  the first relay still remembers when the second airs; this is where
  `2 * (longest + BROADCAST_BURST) < CACHE_TTL_MS` is needed. `Audible` says the same of
  a packet between its hearing and its acceptance, and `Senders` that a relay has
  counted the other only if that one has begun a burst. `SomebodyRelays` follows:
  REDUNDANCY is at least two, so who cancels has counted the other relay.
- *Otherwise* (`Quiet`) everything is forgotten and no callback waits. The pause is over
  only when the last acceptance of the chain is a lifetime old (`FloodForgotten`), which
  gives `EveryBurstIsNew` and, with the minute that may have changed or not, starts
  the next pass with whatever packet it has (`FloodStarts`).

The lemmas `One…` of `RelayProofs` say what each step of a relay does to `RelaysOne`, and
are used for both relays; `Flood…A` and `Flood…B` add what the step means to the other one.

### The others

- **Victim.** `RadioInv` says what each step of a pass may rely on (the radio is on
  while airing, the pause counts from its end). `PacketInv` relates the three readings of the clock in
  a pass: the packet on the air is of the minute marked last or a later one, unless the pass is on
  its way to replace it. Steps of `Tick` may fall between any two of them.
- **Uplink.** `FilterInv`: the scanner's cache is what was shown last. `OnceInv`, for a gateway and a
  frame, has three parts: before the burst nothing of it is anywhere
  (`NothingBefore`); its datagrams, those still to come included, were sent within a
  burst of each other and none is overdue (`OneBurst`); once one is shown, all others
  arrive inside the window, which other gateways can only move on
  (`RestIsHidden`).
- **Ring and filter.** `WellFormed`: rows are written in order, and no signature is in two. `AddToBuff`
  keeps it (`AddToBuffWellFormed`), and a ring with a row for every frame never
  overwrites one (`NothingForgotten`, a count of the rows). The
  refinement reads the ring from its oldest row; `WriteRowAppends` shows that writing at
  the cursor is an append that drops the oldest, on either side of the wrap (`RowsWrap`).
- **UDP mesh.** `CacheInv`: rings are well formed and hold what their relay has passed
  on. `HopInv`: a datagram's zone is within as many hops as its TTL has lost;
  passing it on widens the zones by one hop (`WithinWidens`). `Within` is a recursive
  function; that it satisfies its equation is proved from least counterexamples
  (`WithinSolvable`).
- **Generator.** `Measured` is the invariant of a breadth-first search: each depth
  comes from a neighbour one nearer (`Found`), the queue is in order of depth and spans one
  hop (`Queued`), and who has left it has no neighbour further than one hop
  (`Visited`). It answers the question in the comment at `generate_mesh.py:98`: no minimum
  need be kept. At the end depths are distances (`SearchEnds`). No
  depth exceeds the number of relays, since relays that serve different hops of a
  shortest way differ (`DepthsBounded`, a count). For the mesh, each relay drawn takes it one
  hop further at most (`MeshInv`); for the exits, the furthest
  first, round robin (`FirstAreFurthest`, `RoundRobin`).

### Only model-checked

- *Liveness*: `ReturnsToScanning`, `QueueDrains`, `FloodDiesOut`, `ReachesEveryExit`,
  `AcceptedIsRelayed`. Fairness and ENABLED are out of the prover's reach.
- *`ImplementsLifecycle` without a hypothesis*: false for arbitrary constants
  (`relay_backlog`); in `relay_live` it holds for two frames.

## Disagreements between the code and its documentation

Three are shown by a run that finds the property violated:

1. **A queued frame may be lost in silence** (`relay_backlog`). The README (line 51)
   says that a new frame is stored and a rebroadcast scheduled, and names coverage
   as the only reason to cancel it; entries are purged unsent when their lifetime
   ends before their turn comes.
2. **The mark after a burst may hit another frame** (`relay_race`). The slot can be
   reused during the burst, and the mark is by slot.
3. **A frame is accepted twice when `millis()` wraps** (`relay_wrap`), against "accepted
   only once per cache lifetime".

Others were met and have no run:

- `esp-relay.cpp:177`: a burst begun in the last 500 ms before `millis()` wraps is cut
  short, against the "bounded 500 ms transmit burst" (line 59): `broadcastEndTime` is small, and
  the next pass of `loop` stops the advertisement. `NoBurstWrap` excludes it.
- `esp-relay.cpp:70`: the comment says that three datagrams "guarantee delivery". They may
  all be lost, or the access point go before the first, and the frame is put aside as sent.
- `node.cpp:87`: line 78 says that the simulator mirrors the relay. It remembers a packet before it
  looks at the TTL, `esp-relay.cpp:94-109` only one that it queues (`AcceptsWhateverCameFirst`).
  A packet that takes a detour first is dropped where the relay would pass the direct copy
  on, and this is why `ReachesEveryExit` asks for fewer relays than hops.
- `generate_mesh.py:65-68`: when zones run short, an island may be drawn from
  zones of the mesh, and is none.
- `esp-victim.cpp:111-112`: the comment speaks of one second, the delay is 500 ms.
- `timeAwareCache.cpp:23` and `:28`: the status texts name 15 seconds, where
  `CACHE_TTL_MS` is 2 s, and the text about the sender is the wrong way round.

## Not modelled

- **MurmurHash3**: vendored; it fills the phone field, which no component reads.
- **HMAC**: stands behind the identity of a frame; see above.
- **`listener.cpp`**: a demonstration of a socket that no script builds.
- **`arduino/include/circularBuff.h`**: included by nothing.
- **Scripts, templates, prompts, console output**: no state of their own.
- **The BLE and Wi-Fi libraries**: external; modelled by what may come out of them.
  Whether the library reports a neighbour more than once per scan
  (`esp-relay.cpp:160`, without `wantDuplicates`) is left open: a repetition may
  be heard, or not.
- **`esp-relay.cpp:59`**: the pointer to the sender's address outlives the object it
  comes from. In `Relay` the address is any of `Macs` at each hearing, so a wrong
  one is among the behaviours; `BleMesh` takes the sender's own.
- **Calls of the BLE library under the mutex** (`esp-relay.cpp:208-211`): taken as
  immediate. Whether one of them waits for the task that runs `onResult`, which may
  be waiting for the mutex, is not in the repository.
- **Meshes on the air of more than two relays**, and more than one victim: two relays
  already exceed what a unit test reaches, and each further relay multiplies the
  states.

## What is left

Every component with state is modelled. The safety properties that the runs check and find
to hold are proved, for one node and for two relays and a victim on the air, under the
hypotheses of [Proofs](#proofs): no wrap of the clock, a prompt `loop`, timings that fit,
rows enough, where a theorem names them. What remains open:

- the wait of `loop` for a forwarding gateway (`esp-relay.cpp:173`): its `now` is up to 15 ms old
  then and the burst that much shorter, less than the unit of any model here;

- liveness, which the provers at hand cannot reason about;
- meshes on the air of three or more relays. There the chain of `Reached` grows by a link per
  relay, and with the timings of the code the third relay's turn may
  come after the first has forgotten (three times 700 ms exceed a lifetime of 2 s), so
  the inequalities above would no longer do: the first relay may accept and
  relay the frame again, for as long as its TTL lasts;
- several victims: their frames would share the radio of a relay, and
  `relay_backlog` shows that five of them do not fit in a lifetime.
