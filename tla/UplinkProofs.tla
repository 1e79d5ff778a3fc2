------------------------------ MODULE UplinkProofs ------------------------------
(***************************************************************************)
(* Proofs about the way of a frame to the server, for any number of        *)
(* gateways and frames and any TTL, delay and length of a burst.           *)
(***************************************************************************)
EXTENDS Uplink, TLAPS

(***************************************************************************)
(* However late and in whatever order datagrams arrive, gateways, network  *)
(* and scanner keep their types.                                           *)
(***************************************************************************)
THEOREM TypeCorrect == Spec => []TypeOK
<1>1. Init => TypeOK
  BY UplinkAssumption DEF Init, TypeOK, NoBurst, Never
<1>2. ASSUME TypeOK, [Next]_vars
      PROVE  TypeOK'
  <2> USE <1>2, UplinkAssumption DEF TypeOK
  <2>1. CASE Tick
    BY <2>1 DEF Tick, gatewayVars, scannerVars
  <2>2. ASSUME NEW g \in Gateways, NEW frame \in Frames, StartForward(g, frame)
        PROVE  TypeOK'
    <3>1. [frame |-> frame, left |-> UDP_COPIES, nextAt |-> clock] \in Bursts
      BY DEF Bursts
    <3> QED
      BY <2>2, <3>1 DEF StartForward, scannerVars
  <2>3. ASSUME NEW g \in Gateways, SendDatagram(g)
        PROVE  TypeOK'
    <3>1. burst[g] \in Bursts
      BY <2>3 DEF SendDatagram
    <3>2. network' \subseteq Datagrams
      BY <2>3, <3>1 DEF SendDatagram, Bursts, Datagrams
    <3>3. burst' \in [Gateways -> Bursts \cup {NoBurst}]
      <4>1. CASE MoreToSend(burst[g].left)
        <5> DEFINE later == [burst[g] EXCEPT !.left = @ - 1, !.nextAt = @ + 1]
        <5>1. later \in Bursts
          BY <2>3, <3>1, <4>1 DEF SendDatagram, MoreToSend, Bursts
        <5>2. burst' = [burst EXCEPT ![g] = later]
          BY <2>3, <4>1 DEF SendDatagram
        <5> QED
          BY <5>1, <5>2
      <4>2. CASE ~MoreToSend(burst[g].left)
        BY <2>3, <4>2 DEF SendDatagram
      <4> QED
        BY <4>1, <4>2
    <3> QED
      BY <2>3, <3>2, <3>3 DEF SendDatagram, scannerVars
  <2>4. ASSUME NEW d \in network, Lose(d)
        PROVE  TypeOK'
    BY <2>4 DEF Lose, gatewayVars, scannerVars
  <2>5. ASSUME NEW d \in network, Show(d)
        PROVE  TypeOK'
    <3>1. d.from \in Gateways /\ d.frame \in Frames
      BY DEF Datagrams
    <3>2. /\ cache' \in [Frames -> {Never} \cup 0 .. MAX_CLOCK]
          /\ shownAt' \in [Frames -> {Never} \cup 0 .. MAX_CLOCK]
          /\ shown' \in [Gateways \X Frames -> Nat]
      BY <2>5, <3>1 DEF Show, CacheShown
    <3> QED
      BY <2>5, <3>2 DEF Show, gatewayVars
  <2>6. ASSUME NEW d \in network, Suppress(d)
        PROVE  TypeOK'
    BY <2>6 DEF Suppress, CacheSuppressed, gatewayVars
  <2>7. CASE UNCHANGED vars
    BY <2>7 DEF vars, gatewayVars, scannerVars
  <2> QED
    BY <2>1, <2>2, <2>3, <2>4, <2>5, <2>6, <2>7 DEF Next, DatagramReceived
<1> QED
  BY <1>1, <1>2, PTL DEF Spec

--------------------------------------------------------------------------------
(* What the scanner hides. *)

\* The filter's cache tells when a frame was shown last.
FilterInv ==
  /\ cache = shownAt
  /\ \A frame \in Frames : shownAt[frame] <= clock

\* datagram_received writes the time of a frame exactly when it shows it.
LEMMA FilterInvariance == Spec => [](TypeOK /\ FilterInv)
<1>1. Init => FilterInv
  BY DEF Init, FilterInv, Never
<1>2. ASSUME TypeOK, TypeOK', FilterInv, [Next]_vars
      PROVE  FilterInv'
  <2> USE <1>2 DEF FilterInv, TypeOK, Never
  <2>1. CASE Tick
    BY <2>1 DEF Tick, scannerVars
  <2>2. ASSUME NEW d \in network, Show(d)
        PROVE  FilterInv'
    BY <2>2 DEF Show, CacheShown, Datagrams
  <2>3. ASSUME NEW d \in network, Suppress(d)
        PROVE  FilterInv'
    BY <2>3 DEF Suppress, CacheSuppressed
  <2>4. CASE UNCHANGED <<clock, scannerVars>>
    BY <2>4 DEF scannerVars
  <2> QED
    BY <2>1, <2>2, <2>3, <2>4
    DEF Next, DatagramReceived, StartForward, SendDatagram, Lose, vars, scannerVars
<1> QED
  BY <1>1, <1>2, TypeCorrect, PTL DEF Spec

(***************************************************************************)
(* However many gateways repeat a frame, datagram_received hides it only   *)
(* for CACHE_TTL after it showed it.                                       *)
(***************************************************************************)
THEOREM HiddenOnlyAfterShownHolds == Spec => HiddenOnlyAfterShown
<1>1. ASSUME TypeOK, FilterInv, NEW d \in network, Suppress(d)
      PROVE  shownAt[d.frame] # Never /\ clock - shownAt[d.frame] < CACHE_TTL
  <2>1. d.frame \in Frames
    BY <1>1 DEF TypeOK, Datagrams
  <2> QED
    BY <1>1, <2>1, UplinkAssumption
    DEF Suppress, Showable, FilterInv, TypeOK, Never
<1>2. TypeOK /\ FilterInv /\ [Next]_vars =>
        [\A d \in network : Suppress(d) =>
           shownAt[d.frame] # Never /\ clock - shownAt[d.frame] < CACHE_TTL]_vars
  BY <1>1
<1> QED
  BY <1>2, FilterInvariance, PTL DEF Spec, HiddenOnlyAfterShown

--------------------------------------------------------------------------------
(* What the scanner shows. *)

InBurst(g, frame) == burst[g] # NoBurst /\ burst[g].frame = frame
From(g, frame) == {d \in network : d.from = g /\ d.frame = frame}
\* When the gateway sends the last datagram of its burst.
LastAt(g) == burst[g].nextAt + burst[g].left - 1

(***************************************************************************)
(* A gateway that has not begun the burst of a frame has sent nothing of   *)
(* it.                                                                     *)
(***************************************************************************)
NothingBefore(g, frame) ==
  frame \notin forwarded[g] =>
    ~InBurst(g, frame) /\ From(g, frame) = {} /\ shown[<<g, frame>>] = 0

(***************************************************************************)
(* The datagrams of a burst, those to come included, leave within          *)
(* UDP_COPIES - 1 of each other, and none is late.                         *)
(***************************************************************************)
OneBurst(g, frame) ==
  \A d \in From(g, frame) :
    /\ d.sentAt <= clock /\ clock <= d.sentAt + MAX_DELAY
    /\ \A e \in From(g, frame) : e.sentAt <= d.sentAt + UDP_COPIES - 1
    /\ InBurst(g, frame) => LastAt(g) <= d.sentAt + UDP_COPIES - 1

(***************************************************************************)
(* Once one of them was shown, the rest arrives while the scanner hides    *)
(* the frame, whoever's datagram it showed since.                          *)
(***************************************************************************)
RestIsHidden(g, frame) ==
  /\ shown[<<g, frame>>] <= 1
  /\ shown[<<g, frame>>] = 1 =>
       /\ shownAt[frame] # Never
       /\ \A d \in From(g, frame) : d.sentAt + MAX_DELAY < shownAt[frame] + CACHE_TTL
       /\ InBurst(g, frame) => LastAt(g) + MAX_DELAY < shownAt[frame] + CACHE_TTL

OnceInv(g, frame) ==
  NothingBefore(g, frame) /\ OneBurst(g, frame) /\ RestIsHidden(g, frame)

\* The window is longer than a burst and the spread of the network's delay.
WideWindow == UDP_COPIES - 1 + MAX_DELAY < CACHE_TTL

\* Before the first burst nothing was shown.
LEMMA OnceInvInit ==
  ASSUME Init, NEW g \in Gateways, NEW f \in Frames
  PROVE  OnceInv(g, f)
BY DEF Init, OnceInv, NothingBefore, OneBurst, RestIsHidden, InBurst, From

\* Every step keeps what is known of a burst, its copies and the window.
LEMMA OnceInvKept ==
  ASSUME WideWindow, TypeOK, FilterInv, [Next]_vars,
         NEW g \in Gateways, NEW f \in Frames, OnceInv(g, f)
  PROVE  OnceInv(g, f)'
<1> USE UplinkAssumption DEF TypeOK, OnceInv, NothingBefore, OneBurst, RestIsHidden,
                             InBurst, From, LastAt
<1>1. CASE Tick
  <2>1. clock' = clock + 1 /\ \A d \in network : clock < d.sentAt + MAX_DELAY
    BY <1>1 DEF Tick
  <2>2. UNCHANGED <<burst, forwarded, network, shown, shownAt>>
    BY <1>1 DEF Tick, gatewayVars, scannerVars
  <2> QED
    BY <2>1, <2>2 DEF Datagrams
<1>2. ASSUME NEW h \in Gateways, NEW frame \in Frames, StartForward(h, frame)
      PROVE  OnceInv(g, f)'
  <2>1. UNCHANGED <<clock, network, shown, shownAt>>
    BY <1>2 DEF StartForward, scannerVars
  <2>2. CASE h = g /\ frame = f
    <3>1. From(g, f)' = {} /\ shown'[<<g, f>>] = 0 /\ f \in forwarded'[g]
      BY <1>2, <2>1, <2>2 DEF StartForward
    <3> QED
      BY <3>1
  <2>3. CASE h # g \/ frame # f
    <3>1. ~InBurst(g, f)' \/ UNCHANGED burst[g]
      BY <1>2, <2>3 DEF StartForward, NoBurst
    <3>2. f \in forwarded[g] <=> f \in forwarded'[g]
      BY <1>2, <2>3 DEF StartForward
    <3>3. ~InBurst(g, f)' \/ (InBurst(g, f) /\ LastAt(g)' = LastAt(g))
      BY <3>1
    <3> HIDE DEF InBurst, LastAt
    <3> QED
      BY <2>1, <3>2, <3>3
  <2> QED
    BY <2>2, <2>3
<1>3. ASSUME NEW h \in Gateways, SendDatagram(h)
      PROVE  OnceInv(g, f)'
  <2> DEFINE sent == [from |-> h, frame |-> burst[h].frame, sentAt |-> clock]
  <2>1. burst[h] \in Bursts /\ clock = burst[h].nextAt
    BY <1>3 DEF SendDatagram
  <2>2. UNCHANGED <<clock, forwarded, shown, shownAt>>
    BY <1>3 DEF SendDatagram, scannerVars
  <2>3. network' = network \cup {sent}
    BY <1>3 DEF SendDatagram
  <2>4. \/ burst'[g] = NoBurst
        \/ burst'[g] = burst[g]
        \/ burst[g] # NoBurst /\ burst'[g].frame = burst[g].frame /\ LastAt(g)' = LastAt(g)
    BY <1>3, <2>1 DEF SendDatagram, Bursts
  <2>5. InBurst(g, f)' => InBurst(g, f) /\ LastAt(g)' = LastAt(g)
    BY <2>4
  <2>6. CASE InBurst(g, f) /\ h = g
    <3>1. From(g, f)' = From(g, f) \cup {sent} /\ f \in forwarded[g]
      BY <2>3, <2>6
    <3>2. LastAt(g) \in Int /\ clock <= LastAt(g) /\ LastAt(g) <= clock + UDP_COPIES - 1
      BY <2>1, <2>6 DEF Bursts
    <3>3. sent.sentAt = clock
      OBVIOUS
    <3>4. \A d \in From(g, f) : d.sentAt \in Nat
      BY DEF Datagrams
    <3> HIDE DEF sent, From, LastAt, InBurst
    <3> QED
      BY <2>2, <2>5, <2>6, <3>1, <3>2, <3>3, <3>4
  <2>7. CASE ~(InBurst(g, f) /\ h = g)
    <3>1. From(g, f)' = From(g, f)
      BY <1>3, <2>3, <2>7 DEF SendDatagram
    <3> HIDE DEF From, LastAt, InBurst
    <3> QED
      BY <2>2, <2>5, <3>1
  <2> QED
    BY <2>6, <2>7
<1>4. ASSUME NEW d \in network, Lose(d)
      PROVE  OnceInv(g, f)'
  BY <1>4 DEF Lose, gatewayVars, scannerVars
<1>5. ASSUME NEW d \in network, Show(d)
      PROVE  OnceInv(g, f)'
  <2>1. UNCHANGED <<clock, burst, forwarded>> /\ From(g, f)' \subseteq From(g, f)
    BY <1>5 DEF Show, gatewayVars
  <2>2. d.from \in Gateways /\ d.frame \in Frames /\ d.sentAt \in Nat
    BY DEF Datagrams
  <2>3. CASE d.frame # f
    <3>1. shown'[<<g, f>>] = shown[<<g, f>>] /\ shownAt'[f] = shownAt[f]
      BY <1>5, <2>2, <2>3 DEF Show
    <3> QED
      BY <2>1, <3>1
  <2>4. CASE d.frame = f
    <3>1. shownAt'[f] = clock
      BY <1>5, <2>2, <2>4 DEF Show
    <3>2. shownAt[f] = Never \/ clock >= shownAt[f] + CACHE_TTL
      BY <1>5, <2>2, <2>4 DEF Show, Showable, FilterInv, Never
    <3>3. CASE d.from # g
      <4>1. shown'[<<g, f>>] = shown[<<g, f>>]
        BY <1>5, <2>2, <3>3 DEF Show
      <4>2. \A e \in From(g, f) : e.sentAt \in Nat
        BY DEF Datagrams
      <4>3. InBurst(g, f) => LastAt(g) \in Int
        BY DEF Bursts
      <4>4. LastAt(g)' = LastAt(g) /\ (InBurst(g, f)' <=> InBurst(g, f))
        BY <2>1
      <4>5. clock \in Nat /\ (shownAt[f] # Never => shownAt[f] \in Nat)
        OBVIOUS
      <4> HIDE DEF From, LastAt, InBurst, TypeOK
      <4>6. NothingBefore(g, f)' /\ OneBurst(g, f)'
        BY <2>1, <4>1, <4>4
      <4>7. RestIsHidden(g, f)'
        BY <2>1, <3>1, <3>2, <4>1, <4>2, <4>3, <4>4, <4>5 DEF Never
      <4> QED
        BY <4>6, <4>7
    <3>4. CASE d.from = g
      <4>1. d \in From(g, f) /\ f \in forwarded[g]
        BY <2>4, <3>4
      <4>2. shown[<<g, f>>] # 1
        BY <2>2, <3>2, <4>1 DEF Never
      <4>3. shown'[<<g, f>>] = 1
        <5>1. <<g, f>> \in Gateways \X Frames
          OBVIOUS
        <5>2. shown[<<g, f>>] = 0
          BY <4>2, <5>1
        <5>3. shown' = [shown EXCEPT ![<<g, f>>] = @ + 1]
          BY <1>5, <2>4, <3>4 DEF Show
        <5> QED
          BY <5>1, <5>2, <5>3
      <4>4. \A e \in From(g, f) : e.sentAt \in Nat
        BY DEF Datagrams
      <4>5. InBurst(g, f) => LastAt(g) \in Int
        BY DEF Bursts
      <4>6. LastAt(g)' = LastAt(g) /\ (InBurst(g, f)' <=> InBurst(g, f))
        BY <2>1
      <4>7. clock \in Nat
        OBVIOUS
      <4> HIDE DEF From, LastAt, InBurst, TypeOK
      <4>8. NothingBefore(g, f)' /\ OneBurst(g, f)'
        BY <2>1, <4>1, <4>6
      <4>9. RestIsHidden(g, f)'
        BY <2>1, <2>2, <3>1, <4>1, <4>3, <4>4, <4>5, <4>6, <4>7 DEF WideWindow, Never
      <4> QED
        BY <4>8, <4>9
    <3> QED
      BY <3>3, <3>4
  <2> QED
    BY <2>3, <2>4
<1>6. ASSUME NEW d \in network, Suppress(d)
      PROVE  OnceInv(g, f)'
  BY <1>6 DEF Suppress, gatewayVars
<1>7. CASE UNCHANGED vars
  BY <1>7 DEF vars, gatewayVars, scannerVars
<1> QED
  BY <1>1, <1>2, <1>3, <1>4, <1>5, <1>6, <1>7 DEF Next, DatagramReceived

(***************************************************************************)
(* Of the copies of a burst the scanner shows one at most.                 *)
(***************************************************************************)
THEOREM BurstShownOnceHolds == Spec => []BurstShownOnce
<1> DEFINE AllOnce == \A g \in Gateways, f \in Frames : OnceInv(g, f)
<1>1. Init => AllOnce
  BY OnceInvInit
<1>2. WideWindow /\ TypeOK /\ FilterInv /\ [Next]_vars /\ AllOnce => AllOnce'
  BY OnceInvKept
<1>3. AllOnce => BurstShownOnce
  BY DEF OnceInv, RestIsHidden, BurstShownOnce
<1>4. ~WideWindow => BurstShownOnce
  BY DEF WideWindow, BurstShownOnce
<1>5. CASE WideWindow
  <2> HIDE DEF AllOnce
  <2> QED
    BY <1>1, <1>2, <1>3, <1>5, FilterInvariance, PTL DEF Spec
<1>6. CASE ~WideWindow
  BY <1>4, <1>6, PTL
<1> QED
  BY <1>5, <1>6
=================================================================================
