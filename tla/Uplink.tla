--------------------------------- MODULE Uplink ---------------------------------
(***************************************************************************)
(* The way of a frame from the gateways to the server: a gateway fires     *)
(* UDP_COPIES datagrams spaced by a delay, the network loses, duplicates   *)
(* and reorders them, and the scanner of the server (udp-scanner.py) shows *)
(* a frame unless it showed it less than CACHE_TTL ago.                    *)
(*                                                                         *)
(* A unit of the clock is that delay.  A datagram that takes longer than   *)
(* MAX_DELAY, from the instant its gateway should send it, counts as lost. *)
(***************************************************************************)
EXTENDS Integers

CONSTANTS
  Frames,
  Gateways,
  UDP_COPIES,     \* 3 in the code
  CACHE_TTL,      \* 20 ms
  MAX_DELAY,      \* bound: a datagram takes this long at most
  MAX_CLOCK       \* bound: the clock stops there

ASSUME UplinkAssumption ==
  /\ {CACHE_TTL, MAX_DELAY, MAX_CLOCK} \subseteq Nat
  /\ UDP_COPIES \in Nat \ {0}

Never == -1

VARIABLES
  clock,
  burst,          \* the burst each gateway is sending
  forwarded,      \* frames in the cache of each gateway
  network,        \* datagrams in flight
  cache,          \* the scanner's: when a frame passed the filter last, or Never
  shown,          \* history: how many datagrams of each burst were shown
  shownAt         \* history: when a frame was shown last, or Never

gatewayVars == <<burst, forwarded>>
scannerVars == <<cache, shown, shownAt>>
vars == <<clock, gatewayVars, network, scannerVars>>

NoBurst == [left |-> 0]
Bursts == [frame : Frames, left : 1 .. UDP_COPIES, nextAt : 0 .. MAX_CLOCK + 1]
Datagrams == [from : Gateways, frame : Frames, sentAt : 0 .. MAX_CLOCK]

TypeOK ==
  /\ clock \in 0 .. MAX_CLOCK
  /\ burst \in [Gateways -> Bursts \cup {NoBurst}]
  /\ forwarded \in [Gateways -> SUBSET Frames]
  /\ network \subseteq Datagrams
  /\ {cache, shownAt} \subseteq [Frames -> {Never} \cup 0 .. MAX_CLOCK]
  /\ shown \in [Gateways \X Frames -> Nat]

Init ==
  /\ clock = 0
  /\ burst = [g \in Gateways |-> NoBurst]
  /\ forwarded = [g \in Gateways |-> {}]
  /\ network = {}
  /\ cache = [f \in Frames |-> Never]
  /\ shown = [b \in Gateways \X Frames |-> 0]
  /\ shownAt = [f \in Frames |-> Never]

\* Time goes on when no gateway is due to send and no datagram is overdue.
Tick ==
  /\ clock < MAX_CLOCK
  /\ \A g \in Gateways : burst[g] # NoBurst => clock < burst[g].nextAt
  /\ \A d \in network : clock < d.sentAt + MAX_DELAY
  /\ clock' = clock + 1
  /\ UNCHANGED <<gatewayVars, network, scannerVars>>

--------------------------------------------------------------------------------
(* A gateway.  It keeps its mutex for the burst, so it sends one at a time, *)
(* and caches the frame for longer than the clock runs.                     *)

StartForward(g, frame) ==
  /\ burst[g] = NoBurst
  /\ frame \notin forwarded[g]
  /\ burst' = [burst EXCEPT ![g] = [frame |-> frame, left |-> UDP_COPIES, nextAt |-> clock]]
  /\ forwarded' = [forwarded EXCEPT ![g] = @ \cup {frame}]
  /\ UNCHANGED <<clock, network, scannerVars>>

\* One copy too many.
MutantMoreToSend(left) == left > 0

MoreToSend(left) == left > 1

SendDatagram(g) ==
  /\ burst[g] # NoBurst
  /\ clock = burst[g].nextAt
  /\ network' = network \cup {[from |-> g, frame |-> burst[g].frame, sentAt |-> clock]}
  /\ burst' = IF MoreToSend(burst[g].left)
              THEN [burst EXCEPT ![g].left = @ - 1, ![g].nextAt = @ + 1]
              ELSE [burst EXCEPT ![g] = NoBurst]
  /\ UNCHANGED <<clock, forwarded, scannerVars>>

Lose(d) ==
  /\ network' = network \ {d}
  /\ UNCHANGED <<clock, gatewayVars, scannerVars>>

--------------------------------------------------------------------------------
(* The scanner: datagram_received.  Another copy of the datagram may still *)
(* be on its way.                                                          *)

Showable(frame) == cache[frame] = Never \/ clock - cache[frame] >= CACHE_TTL

\* The time the frame was shown is written the first time only.
MutantCacheShown(frame) == [cache EXCEPT ![frame] = IF @ = Never THEN clock ELSE @]

CacheShown(frame) == [cache EXCEPT ![frame] = clock]

Show(d) ==
  /\ Showable(d.frame)
  /\ cache' = CacheShown(d.frame)
  /\ shown' = [shown EXCEPT ![<<d.from, d.frame>>] = @ + 1]
  /\ shownAt' = [shownAt EXCEPT ![d.frame] = clock]
  /\ network' \in {network, network \ {d}}
  /\ UNCHANGED <<clock, gatewayVars>>

\* A copy that is not shown prolongs the suppression.
MutantCacheSuppressed(frame) == CacheShown(frame)

\* What a copy that is not shown leaves in the cache.
CacheSuppressed(frame) == cache

Suppress(d) ==
  /\ ~Showable(d.frame)
  /\ cache' = CacheSuppressed(d.frame)
  /\ network' \in {network, network \ {d}}
  /\ UNCHANGED <<clock, gatewayVars, shown, shownAt>>

DatagramReceived(d) == Show(d) \/ Suppress(d)

Next ==
  \/ Tick
  \/ \E g \in Gateways, frame \in Frames : StartForward(g, frame)
  \/ \E g \in Gateways : SendDatagram(g)
  \/ \E d \in network : Lose(d) \/ DatagramReceived(d)

Spec == Init /\ [][Next]_vars

--------------------------------------------------------------------------------
(***************************************************************************)
(* "so as not to show all the packets of a burst": of the copies of one    *)
(* burst the scanner shows one, also when copies of other gateways come    *)
(* between them, when the window is longer than a burst and the spread of  *)
(* the network's delay together.                                           *)
(***************************************************************************)
BurstShownOnce ==
  UDP_COPIES - 1 + MAX_DELAY < CACHE_TTL =>
    \A g \in Gateways, f \in Frames : shown[<<g, f>>] <= 1

(***************************************************************************)
(* The filter hides no frame for long, however many gateways repeat it: a  *)
(* datagram that is not shown arrives less than CACHE_TTL after one of the *)
(* same frame that was.                                                    *)
(***************************************************************************)
HiddenOnlyAfterShown ==
  [][\A d \in network : Suppress(d) =>
       shownAt[d.frame] # Never /\ clock - shownAt[d.frame] < CACHE_TTL]_vars

=================================================================================
