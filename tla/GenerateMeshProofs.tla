--------------------------- MODULE GenerateMeshProofs ---------------------------
(***************************************************************************)
(* Proofs about build_mesh, for any number of relays and exits and         *)
(* whatever is drawn: the search measures distances, and the exits are     *)
(* where it says the furthest zones are.                                   *)
(***************************************************************************)
EXTENDS GenerateMesh, FiniteSetTheorems, SequenceTheorems, WellFoundedInduction, TLAPS

\* Induction: a set of naturals with 0 and the successor of each member is Nat.
LEMMA SetInduction ==
  ASSUME NEW S \in SUBSET Nat, 0 \in S, \A n \in S : n + 1 \in S
  PROVE  S = Nat
<1> DEFINE Less == OpToRel(<, Nat)
           Rest == Nat \ S
<1>1. \A x, y \in Nat : y < x => <<y, x>> \in Less
  BY DEF OpToRel
<1>2. IsWellFoundedOn(Less, Nat)
  BY NatLessThanWellFounded
<1> HIDE DEF Less
<1>3. ASSUME NEW x \in Rest, \A y \in Rest : <<y, x>> \notin Less
      PROVE  FALSE
  <2>1. x - 1 \in Nat /\ x - 1 < x /\ (x - 1) + 1 = x
    OBVIOUS
  <2>2. x - 1 \in S
    BY <1>1, <1>3, <2>1
  <2> QED
    BY <2>1, <2>2
<1>4. Rest = {}
  <2> HIDE DEF Rest
  <2> QED
    BY <1>2, <1>3, WFMin DEF Rest
<1> QED
  BY <1>4

--------------------------------------------------------------------------------
(***************************************************************************)
(* Within, with the graph as a parameter: what is true of it is then true  *)
(* of the graph before and after a step.                                   *)
(***************************************************************************)
Step(G, zones) == zones \cup UNION {G[z] : z \in zones}

Solves(G, f, S) ==
  f = [hops \in S |-> IF hops = 0 THEN {zone_1} ELSE Step(G, f[hops - 1])]

Reach(G) == CHOOSE f : Solves(G, f, Nat)

\* A solution, hop by hop.
LEMMA SolutionAt ==
  ASSUME NEW G, NEW S, NEW f, Solves(G, f, S)
  PROVE  \A hops \in S : f[hops] = IF hops = 0 THEN {zone_1} ELSE Step(G, f[hops - 1])
BY DEF Solves

\* Up to any number of hops the equation has a solution.
LEMMA BoundedSolution ==
  ASSUME NEW G, NEW n \in Nat
  PROVE  \E f : Solves(G, f, 0 .. n)
<1> DEFINE Solved == {m \in Nat : \E f : Solves(G, f, 0 .. m)}
<1>1. 0 \in Solved
  <2> DEFINE f == [hops \in 0 .. 0 |-> {zone_1}]
  <2>1. Solves(G, f, 0 .. 0)
    BY DEF Solves
  <2> QED
    BY <2>1
<1>2. ASSUME NEW m \in Solved
      PROVE  m + 1 \in Solved
  <2>1. m \in Nat
    OBVIOUS
  <2>2. PICK f : Solves(G, f, 0 .. m)
    OBVIOUS
  <2>3. \A hops \in 0 .. m : f[hops] = IF hops = 0 THEN {zone_1} ELSE Step(G, f[hops - 1])
    BY <2>2 DEF Solves
  <2> DEFINE g == [hops \in 0 .. m + 1 |-> IF hops <= m THEN f[hops] ELSE Step(G, f[m])]
  <2>4. \A hops \in 0 .. m : g[hops] = f[hops]
    BY <2>1
  <2>5. g[m + 1] = Step(G, g[m])
    BY <2>1, <2>4
  <2>6. ASSUME NEW hops \in 0 .. m + 1
        PROVE  g[hops] = IF hops = 0 THEN {zone_1} ELSE Step(G, g[hops - 1])
    <3>1. CASE hops = m + 1
      BY <2>1, <2>5, <3>1
    <3>2. CASE hops # m + 1
      <4>1. hops \in 0 .. m /\ (hops # 0 => hops - 1 \in 0 .. m)
        BY <2>1, <3>2
      <4> HIDE DEF g
      <4> QED
        BY <2>3, <2>4, <4>1
    <3> QED
      BY <3>1, <3>2
  <2>7. Solves(G, g, 0 .. m + 1)
    <3>1. g = [hops \in 0 .. m + 1 |-> g[hops]]
      OBVIOUS
    <3> HIDE DEF g
    <3> QED
      BY <2>6, <3>1 DEF Solves
  <2> QED
    BY <2>1, <2>7
<1> HIDE DEF Solved
<1>3. Solved = Nat
  BY <1>1, <1>2, SetInduction DEF Solved
<1> QED
  BY <1>3 DEF Solved

\* Two solutions agree as far as both go.
LEMMA SolutionsAgree ==
  ASSUME NEW G, NEW m \in Nat, NEW n \in Nat, m <= n,
         NEW f, Solves(G, f, 0 .. m), NEW g, Solves(G, g, 0 .. n),
         NEW k \in 0 .. m
  PROVE  f[k] = g[k]
<1> DEFINE Same == {i \in Nat : i <= m => f[i] = g[i]}
<1>1. \A i \in 0 .. m : f[i] = IF i = 0 THEN {zone_1} ELSE Step(G, f[i - 1])
  BY DEF Solves
<1>2. \A i \in 0 .. n : g[i] = IF i = 0 THEN {zone_1} ELSE Step(G, g[i - 1])
  BY DEF Solves
<1>3. 0 \in Same
  <2>1. 0 \in 0 .. m /\ 0 \in 0 .. n
    OBVIOUS
  <2>2. f[0] = {zone_1} /\ g[0] = {zone_1}
    BY <1>1, <1>2, <2>1
  <2> QED
    BY <2>2
<1>4. ASSUME NEW i \in Same
      PROVE  i + 1 \in Same
  <2>1. CASE i + 1 <= m
    <3>1. /\ i \in Nat /\ i <= m /\ (i + 1) - 1 = i /\ i + 1 # 0
          /\ i + 1 \in 0 .. m /\ i + 1 \in 0 .. n
      BY <2>1
    <3>2. f[i + 1] = Step(G, f[i]) /\ g[i + 1] = Step(G, g[i])
      BY <1>1, <1>2, <3>1
    <3> QED
      BY <3>1, <3>2
  <2> QED
    BY <2>1
<1> HIDE DEF Same
<1>5. Same = Nat
  BY <1>3, <1>4, SetInduction DEF Same
<1> QED
  BY <1>5 DEF Same

\* The equation of Within holds for any number of hops.
LEMMA ReachSteps ==
  ASSUME NEW G
  PROVE  /\ Reach(G)[0] = {zone_1}
         /\ \A n \in Nat : Reach(G)[n + 1] = Step(G, Reach(G)[n])
<1> DEFINE sol(n) == CHOOSE f : Solves(G, f, 0 .. n)
           f == [n \in Nat |-> sol(n)[n]]
<1>1. ASSUME NEW n \in Nat
      PROVE  Solves(G, sol(n), 0 .. n)
  BY BoundedSolution
<1> HIDE DEF sol
<1>2. ASSUME NEW n \in Nat
      PROVE  f[n] = IF n = 0 THEN {zone_1} ELSE Step(G, f[n - 1])
  <2>1. sol(n)[n] = IF n = 0 THEN {zone_1} ELSE Step(G, sol(n)[n - 1])
    <3>1. \A i \in 0 .. n : sol(n)[i] = IF i = 0 THEN {zone_1} ELSE Step(G, sol(n)[i - 1])
      BY <1>1 DEF Solves
    <3> QED
      BY <3>1
  <2>2. CASE n = 0
    BY <2>1, <2>2
  <2>3. CASE n # 0
    <3>1. n - 1 \in Nat /\ n - 1 <= n /\ n - 1 \in 0 .. n - 1
      BY <2>3
    <3>2. sol(n - 1)[n - 1] = sol(n)[n - 1]
      BY <1>1, <3>1, SolutionsAgree
    <3> QED
      BY <2>1, <2>3, <3>1, <3>2
  <2> QED
    BY <2>2, <2>3
<1>3. Solves(G, f, Nat)
  <2>1. f = [n \in Nat |-> f[n]]
    OBVIOUS
  <2> HIDE DEF f
  <2> QED
    BY <1>2, <2>1 DEF Solves
<1> HIDE DEF f
<1>4. Solves(G, Reach(G), Nat)
  BY <1>3 DEF Reach
<1>5. Reach(G)[0] = {zone_1}
  BY <1>4, SolutionAt
<1>6. ASSUME NEW n \in Nat
      PROVE  Reach(G)[n + 1] = Step(G, Reach(G)[n])
  <2>1. n + 1 \in Nat /\ n + 1 # 0 /\ (n + 1) - 1 = n
    OBVIOUS
  <2>2. Reach(G)[n + 1] = Step(G, Reach(G)[(n + 1) - 1])
    BY <1>4, <2>1, SolutionAt
  <2> QED
    BY <2>1, <2>2
<1> QED
  BY <1>5, <1>6

\* More hops reach no less.
LEMMA ReachWidens ==
  ASSUME NEW G, NEW m \in Nat, NEW n \in Nat, m <= n
  PROVE  Reach(G)[m] \subseteq Reach(G)[n]
<1> DEFINE Wider == {i \in Nat : m <= i => Reach(G)[m] \subseteq Reach(G)[i]}
<1>1. 0 \in Wider
  OBVIOUS
<1>2. ASSUME NEW i \in Wider
      PROVE  i + 1 \in Wider
  <2>1. i \in Nat /\ (m <= i => Reach(G)[m] \subseteq Reach(G)[i])
    OBVIOUS
  <2>2. Reach(G)[i] \subseteq Reach(G)[i + 1]
    BY <2>1, ReachSteps DEF Step
  <2>3. m <= i + 1 => m <= i \/ m = i + 1
    BY <2>1
  <2>4. m <= i + 1 => Reach(G)[m] \subseteq Reach(G)[i + 1]
    BY <2>1, <2>2, <2>3
  <2> QED
    BY <2>1, <2>4
<1> HIDE DEF Wider
<1>3. Wider = Nat
  BY <1>1, <1>2, SetInduction DEF Wider
<1> QED
  BY <1>3 DEF Wider

\* A graph with more edges reaches no less.
LEMMA ReachGrows ==
  ASSUME NEW G \in [Zones -> SUBSET Zones], NEW H, \A z \in Zones : G[z] \subseteq H[z],
         NEW n \in Nat
  PROVE  Reach(G)[n] \subseteq Reach(H)[n] /\ Reach(G)[n] \subseteq Zones
<1> DEFINE Wider == {i \in Nat : Reach(G)[i] \subseteq Reach(H)[i] /\ Reach(G)[i] \subseteq Zones}
<1>1. 0 \in Wider
  BY ReachSteps, GenerateMeshAssumption
<1>2. ASSUME NEW i \in Wider
      PROVE  i + 1 \in Wider
  <2>1. i \in Nat /\ Reach(G)[i] \subseteq Reach(H)[i] /\ Reach(G)[i] \subseteq Zones
    OBVIOUS
  <2>2. /\ Reach(G)[i + 1] = Step(G, Reach(G)[i])
        /\ Reach(H)[i + 1] = Step(H, Reach(H)[i])
    BY <2>1, ReachSteps
  <2>3. /\ Step(G, Reach(G)[i]) \subseteq Step(H, Reach(H)[i])
        /\ Step(G, Reach(G)[i]) \subseteq Zones
    BY <2>1 DEF Step
  <2> QED
    BY <2>1, <2>2, <2>3
<1> HIDE DEF Wider
<1>3. Wider = Nat
  BY <1>1, <1>2, SetInduction DEF Wider
<1> QED
  BY <1>3 DEF Wider

(***************************************************************************)
(* The search has measured distances: depths that begin with 0 at the      *)
(* victim's zone, grow by one from some neighbour to each other zone, and  *)
(* by one at most from any zone to its neighbours.                         *)
(***************************************************************************)
LEMMA DepthsReach ==
  ASSUME NEW G, NEW D, NEW d, zone_1 \in D, d[zone_1] = 0,
         \A z \in D : d[z] \in Nat,
         \A y \in D : \A z \in G[y] : z \in D /\ d[z] <= d[y] + 1,
         NEW n \in Nat, NEW z \in Reach(G)[n]
  PROVE  z \in D /\ d[z] <= n
<1> DEFINE Near == {i \in Nat : \A y \in Reach(G)[i] : y \in D /\ d[y] <= i}
<1>1. 0 \in Near
  BY ReachSteps
<1>2. ASSUME NEW i \in Near
      PROVE  i + 1 \in Near
  <2>1. i \in Nat /\ \A y \in Reach(G)[i] : y \in D /\ d[y] <= i
    OBVIOUS
  <2>2. Reach(G)[i + 1] = Step(G, Reach(G)[i])
    BY <2>1, ReachSteps
  <2>3. ASSUME NEW x \in Step(G, Reach(G)[i])
        PROVE  x \in D /\ d[x] <= i + 1
    <3>1. CASE x \in Reach(G)[i]
      BY <2>1, <3>1
    <3>2. CASE x \notin Reach(G)[i]
      <4>1. PICK y \in Reach(G)[i] : x \in G[y]
        BY <3>2 DEF Step
      <4>2. y \in D /\ d[y] <= i /\ d[y] \in Nat
        BY <2>1
      <4>3. x \in D /\ d[x] <= d[y] + 1 /\ d[x] \in Nat
        BY <4>1, <4>2
      <4> QED
        BY <2>1, <4>2, <4>3
    <3> QED
      BY <3>1, <3>2
  <2> QED
    BY <2>1, <2>2, <2>3
<1> HIDE DEF Near
<1>3. Near = Nat
  BY <1>1, <1>2, SetInduction DEF Near
<1> QED
  BY <1>3 DEF Near

--------------------------------------------------------------------------------
(* The search, with the graph, the depths and the queue as parameters. *)

\* The depths begin at the victim's zone and come from a neighbour each.
Found(G, d) ==
  /\ zone_1 \in DOMAIN d
  /\ \A z \in DOMAIN d : d[z] = 0 <=> z = zone_1
  /\ DOMAIN d \subseteq Zones
  /\ \A z \in DOMAIN d : d[z] \in Nat
  /\ \A z \in DOMAIN d : d[z] > 0 => \E y \in DOMAIN d : z \in G[y] /\ d[y] = d[z] - 1

\* The nearest zone is at the head of the queue, and none is further than one hop from it.
Queued(d, q) ==
  /\ q \in Seq(DOMAIN d)
  /\ \A i, j \in 1 .. Len(q) : i <= j => d[q[i]] <= d[q[j]]
  /\ \A z \in DOMAIN d, i \in 1 .. Len(q) : d[z] <= d[q[i]] + 1

\* A zone that has left the queue is no further than those in it, nor are its
\* neighbours further than one hop from it.
Visited(G, d, q) ==
  \A z \in DOMAIN d :
    \/ \E i \in 1 .. Len(q) : q[i] = z
    \/ /\ \A y \in G[z] : y \in DOMAIN d /\ d[y] <= d[z] + 1
       /\ \A i \in 1 .. Len(q) : d[z] <= d[q[i]]

Measured(G, d, q) == Found(G, d) /\ Queued(d, q) /\ Visited(G, d, q)

\* The members of a set in some order.
LEMMA SetToSeqsLists ==
  ASSUME NEW S, IsFiniteSet(S), NEW s \in SetToSeqs(S)
  PROVE  /\ s \in Seq(S) /\ Len(s) = Cardinality(S)
         /\ \A x \in S : \E i \in 1 .. Len(s) : s[i] = x
         /\ \A i, j \in 1 .. Len(s) : i # j => s[i] # s[j]
<1> DEFINE n == Cardinality(S)
<1>1. n \in Nat
  BY FS_CardinalityType
<1>2. s \in [1 .. n -> S] /\ \A i, j \in 1 .. n : i # j => s[i] # s[j]
  BY DEF SetToSeqs
<1>3. s \in Seq(S) /\ Len(s) = n
  BY <1>1, <1>2
<1>4. s \in Injection(1 .. n, S)
  BY <1>2 DEF Injection, IsInjective
<1>5. Cardinality(1 .. n) = n
  BY <1>1, FS_Interval
<1>6. s \in Surjection(1 .. n, S)
  BY <1>4, <1>5, FS_Injection
<1>7. \A x \in S : \E i \in 1 .. n : s[i] = x
  BY <1>6 DEF Surjection
<1> QED
  BY <1>2, <1>3, <1>7

\* Zones in the order in which Python goes through them.
LEMMA ZonesListed ==
  ASSUME NEW N \in SUBSET Zones, NEW s \in SetToSeqs(N)
  PROVE  /\ s \in Seq(N) /\ Len(s) \in Nat
         /\ \A x \in N : \E i \in 1 .. Len(s) : s[i] = x
         /\ \A i \in 1 .. Len(s) : s[i] \in N
<1>1. IsFiniteSet(N)
  BY FS_Subset, GenerateMeshAssumption
<1>2. s \in Seq(N) /\ \A x \in N : \E i \in 1 .. Len(s) : s[i] = x
  BY <1>1, SetToSeqsLists
<1> QED
  BY <1>2, LenProperties, ElementOfSeq

\* The search begins with the victim's zone only.
LEMMA SearchBegins ==
  ASSUME NEW G, NEW d, d = [z \in {zone_1} |-> 0], NEW q, q = <<zone_1>>
  PROVE  Measured(G, d, q)
<1>1. DOMAIN d = {zone_1} /\ d[zone_1] = 0
  OBVIOUS
<1>2. q \in Seq({zone_1}) /\ Len(q) = 1 /\ q[1] = zone_1
  OBVIOUS
<1> QED
  BY <1>1, <1>2, GenerateMeshAssumption DEF Measured, Found, Queued, Visited

\* Visiting the zone at the head of the queue.
LEMMA SearchStep ==
  ASSUME NEW G \in [Zones -> SUBSET Zones], NEW d, NEW q, Measured(G, d, q), q # <<>>,
         NEW N, N = G[Head(q)] \ DOMAIN d, NEW found \in SetToSeqs(N),
         NEW e, e = [z \in DOMAIN d \cup N |-> IF z \in N THEN d[Head(q)] + 1 ELSE d[z]]
  PROVE  Measured(G, e, Tail(q) \o found)
<1> DEFINE c == Head(q)
           t == Tail(q)
           r == t \o found
<1>1. /\ q \in Seq(DOMAIN d) /\ Len(q) \in Nat \ {0} /\ c = q[1] /\ 1 \in 1 .. Len(q)
      /\ c \in DOMAIN d /\ c \in Zones /\ d[c] \in Nat
  <2>1. q \in Seq(DOMAIN d)
    BY DEF Measured, Queued
  <2>2. Len(q) \in Nat \ {0} /\ 1 \in 1 .. Len(q) /\ c = q[1]
    BY <2>1, EmptySeq
  <2>3. c \in DOMAIN d
    BY <2>1, <2>2, ElementOfSeq
  <2> QED
    BY <2>1, <2>2, <2>3 DEF Measured, Found
<1>2. /\ DOMAIN e = DOMAIN d \cup N
      /\ \A z \in DOMAIN d : e[z] = d[z] /\ z \notin N
      /\ \A z \in N : e[z] = d[c] + 1
      /\ N = G[c] \ DOMAIN d /\ N \subseteq Zones
  BY <1>1
<1>3. /\ found \in Seq(N) /\ Len(found) \in Nat
      /\ \A x \in N : \E i \in 1 .. Len(found) : found[i] = x
      /\ \A i \in 1 .. Len(found) : found[i] \in N
  BY <1>2, ZonesListed
<1>4. /\ t \in Seq(DOMAIN d) /\ Len(t) = Len(q) - 1
      /\ \A i \in 1 .. Len(t) : t[i] = q[i + 1]
  BY <1>1, HeadTailProperties
<1>5. /\ r \in Seq(DOMAIN e) /\ Len(r) = Len(t) + Len(found)
      /\ \A i \in 1 .. Len(r) : r[i] = IF i <= Len(t) THEN t[i] ELSE found[i - Len(t)]
  <2>1. t \in Seq(DOMAIN e) /\ found \in Seq(DOMAIN e)
    BY <1>2, <1>3, <1>4
  <2> QED
    BY <2>1, ConcatProperties
<1> HIDE DEF c, t, r
\* What is in the new queue was in the old one, not further than its head by more than one hop, or is new.
<1>6. ASSUME NEW i \in 1 .. Len(r)
      PROVE  /\ i <= Len(t) => /\ i + 1 \in 1 .. Len(q) /\ r[i] = q[i + 1]
                              /\ r[i] \in DOMAIN d /\ e[r[i]] = d[q[i + 1]]
             /\ i > Len(t) => r[i] \in N /\ e[r[i]] = d[c] + 1
             /\ e[r[i]] \in Nat /\ d[c] <= e[r[i]] /\ e[r[i]] <= d[c] + 1
  <2>1. Len(t) \in Nat /\ Len(q) \in Nat
    BY <1>1, <1>4
  <2>2. CASE i <= Len(t)
    <3>1. i + 1 \in 1 .. Len(q) /\ i \in 1 .. Len(t)
      BY <1>4, <2>1, <2>2
    <3>2. r[i] = q[i + 1]
      BY <1>4, <1>5, <2>2, <3>1
    <3>3. q[i + 1] \in DOMAIN d
      BY <1>1, <3>1, ElementOfSeq
    <3>4. d[q[i + 1]] \in Nat /\ d[c] <= d[q[i + 1]] /\ d[q[i + 1]] <= d[c] + 1
      <4>1. d[q[1]] <= d[q[i + 1]]
        BY <1>1, <3>1 DEF Measured, Queued
      <4>2. d[q[i + 1]] <= d[q[1]] + 1
        BY <1>1, <3>3 DEF Measured, Queued
      <4>3. d[q[i + 1]] \in Nat
        BY <3>3 DEF Measured, Found
      <4> QED
        BY <1>1, <4>1, <4>2, <4>3
    <3> QED
      BY <1>2, <2>1, <2>2, <3>1, <3>2, <3>3, <3>4
  <2>3. CASE i > Len(t)
    <3>1. i - Len(t) \in 1 .. Len(found)
      BY <1>3, <1>5, <2>1, <2>3
    <3>2. r[i] = found[i - Len(t)]
      BY <1>5, <2>1, <2>3
    <3>3. r[i] \in N
      BY <1>3, <3>1, <3>2
    <3> QED
      BY <1>1, <1>2, <2>1, <2>3, <3>3
  <2> QED
    BY <2>1, <2>2, <2>3
<1>7. Found(G, e)
  <2>1. /\ zone_1 \in DOMAIN e /\ DOMAIN e \subseteq Zones
        /\ \A z \in DOMAIN e : e[z] = 0 <=> z = zone_1
    <3>1. \A z \in N : e[z] # 0 /\ z # zone_1
      BY <1>1, <1>2 DEF Measured, Found
    <3> QED
      BY <1>2, <3>1 DEF Measured, Found
  <2>2. \A z \in DOMAIN e : e[z] \in Nat
    BY <1>1, <1>2 DEF Measured, Found
  <2>3. ASSUME NEW z \in DOMAIN e, e[z] > 0
        PROVE  \E y \in DOMAIN e : z \in G[y] /\ e[y] = e[z] - 1
    <3>1. CASE z \in DOMAIN d
      <4>1. PICK y \in DOMAIN d : z \in G[y] /\ d[y] = d[z] - 1
        BY <1>2, <2>3, <3>1 DEF Measured, Found
      <4> QED
        BY <1>2, <3>1, <4>1
    <3>2. CASE z \in N
      BY <1>1, <1>2, <3>2
    <3> QED
      BY <1>2, <3>1, <3>2
  <2> QED
    BY <2>1, <2>2, <2>3 DEF Found
<1>8. Queued(e, r)
  <2>1. ASSUME NEW i \in 1 .. Len(r), NEW j \in 1 .. Len(r), i <= j
        PROVE  e[r[i]] <= e[r[j]]
    <3>1. CASE j > Len(t)
      BY <1>1, <1>6, <3>1
    <3>2. CASE ~(j > Len(t))
      <4>1. Len(t) \in Nat /\ i <= Len(t) /\ j <= Len(t)
        BY <1>1, <1>4, <2>1, <3>2
      <4>2. i + 1 \in 1 .. Len(q) /\ e[r[i]] = d[q[i + 1]]
        BY <1>6, <4>1
      <4>3. j + 1 \in 1 .. Len(q) /\ e[r[j]] = d[q[j + 1]]
        BY <1>6, <4>1
      <4>4. i + 1 <= j + 1
        BY <2>1
      <4>5. d[q[i + 1]] <= d[q[j + 1]]
        BY <4>2, <4>3, <4>4 DEF Measured, Queued
      <4> QED
        BY <4>2, <4>3, <4>5
    <3> QED
      BY <3>1, <3>2
  <2>2. ASSUME NEW z \in DOMAIN e, NEW i \in 1 .. Len(r)
        PROVE  e[z] <= e[r[i]] + 1
    <3>1. e[z] <= d[c] + 1 /\ e[z] \in Nat
      <4>1. CASE z \in DOMAIN d
        BY <1>1, <1>2, <4>1 DEF Measured, Queued, Found
      <4>2. CASE z \in N
        BY <1>1, <1>2, <4>2
      <4> QED
        BY <1>2, <4>1, <4>2
    <3>2. e[r[i]] \in Nat /\ d[c] <= e[r[i]]
      BY <1>6
    <3> QED
      BY <1>1, <3>1, <3>2
  <2> QED
    BY <1>5, <2>1, <2>2 DEF Queued
<1>9. Visited(G, e, r)
  <2> SUFFICES ASSUME NEW z \in DOMAIN e, ~\E i \in 1 .. Len(r) : r[i] = z
               PROVE  /\ \A y \in G[z] : y \in DOMAIN e /\ e[y] <= e[z] + 1
                      /\ \A i \in 1 .. Len(r) : e[z] <= e[r[i]]
    BY DEF Visited
  <2>1. z \notin N
    <3>1. ASSUME z \in N
          PROVE  FALSE
      <4>1. PICK i \in 1 .. Len(found) : found[i] = z
        BY <1>3, <3>1
      <4>2. Len(t) \in Nat /\ Len(found) \in Nat /\ Len(r) = Len(t) + Len(found)
        BY <1>1, <1>3, <1>4, <1>5
      <4>3. /\ Len(t) + i \in 1 .. Len(r) /\ ~(Len(t) + i <= Len(t))
            /\ (Len(t) + i) - Len(t) = i
        BY <4>2
      <4>4. r[Len(t) + i] = found[i]
        BY <1>5, <4>3
      <4> QED
        BY <4>1, <4>3, <4>4
    <3> QED
      BY <3>1
  <2>2. z \in DOMAIN d /\ e[z] = d[z] /\ d[z] \in Nat /\ z \in Zones
    BY <1>2, <2>1 DEF Measured, Found
  <2>3. CASE z = c
    <3>1. ASSUME NEW y \in G[z]
          PROVE  y \in DOMAIN e /\ e[y] <= e[z] + 1
      <4>1. CASE y \in DOMAIN d
        BY <1>1, <1>2, <2>2, <2>3, <4>1 DEF Measured, Queued
      <4>2. CASE y \notin DOMAIN d
        BY <1>1, <1>2, <2>2, <2>3, <4>2
      <4> QED
        BY <4>1, <4>2
    <3> QED
      BY <1>6, <2>2, <2>3, <3>1
  <2>4. CASE z # c
    <3>1. ~\E i \in 1 .. Len(q) : q[i] = z
      <4>1. ASSUME NEW i \in 1 .. Len(q), q[i] = z
            PROVE  FALSE
        <5>1. i # 1
          BY <1>1, <2>4, <4>1
        <5>2. /\ i - 1 \in 1 .. Len(t) /\ (i - 1) + 1 = i
              /\ i - 1 \in 1 .. Len(r) /\ i - 1 <= Len(t)
          BY <1>1, <1>3, <1>4, <1>5, <5>1
        <5>3. r[i - 1] = q[i]
          BY <1>6, <5>2
        <5> QED
          BY <4>1, <5>2, <5>3
      <4> QED
        BY <4>1
    <3>2. /\ \A y \in G[z] : y \in DOMAIN d /\ d[y] <= d[z] + 1
          /\ \A i \in 1 .. Len(q) : d[z] <= d[q[i]]
      BY <2>2, <3>1 DEF Measured, Visited
    <3>3. d[z] <= d[c]
      BY <1>1, <3>2
    <3>4. \A i \in 1 .. Len(r) : e[z] <= e[r[i]]
      <4>1. ASSUME NEW i \in 1 .. Len(r)
            PROVE  e[z] <= e[r[i]]
        <5>1. e[r[i]] \in Nat /\ d[c] <= e[r[i]]
          BY <1>6
        <5> QED
          BY <1>1, <2>2, <3>3, <5>1
      <4> QED
        BY <4>1
    <3>5. \A y \in G[z] : y \in DOMAIN e /\ e[y] <= e[z] + 1
      BY <1>2, <2>2, <3>2
    <3> QED
      BY <3>4, <3>5
  <2> QED
    BY <2>3, <2>4
<1> QED
  BY <1>7, <1>8, <1>9 DEF Measured, r, t

\* No zone is further than one hop from its neighbours.
LEMMA NeighboursAreNear ==
  ASSUME NEW G, NEW d, NEW q, Measured(G, d, q),
         NEW y \in DOMAIN d, NEW z \in DOMAIN d, z \in G[y]
  PROVE  d[z] <= d[y] + 1
<1>1. CASE \E i \in 1 .. Len(q) : q[i] = y
  BY <1>1 DEF Measured, Queued
<1>2. CASE ~\E i \in 1 .. Len(q) : q[i] = y
  BY <1>2 DEF Measured, Visited
<1> QED
  BY <1>1, <1>2

GraphOf(r) == [z \in Zones |-> {y \in Zones \ {z} : \E i \in DOMAIN r : {y, z} \subseteq r[i]}]

(***************************************************************************)
(* A depth is not more than the number of relays: for each hop on the way  *)
(* to a zone there is a relay, and no relay serves two of them, because it *)
(* would bring the further end of one within a hop of the nearer end of    *)
(* the other.                                                              *)
(***************************************************************************)
LEMMA DepthsBounded ==
  ASSUME NEW r \in Seq(SUBSET Zones), NEW d, NEW q, Measured(GraphOf(r), d, q),
         NEW z \in DOMAIN d
  PROVE  d[z] <= Len(r)
<1> DEFINE G == GraphOf(r)
           n == Len(r)
           Hop(k, i) == \E x, y \in DOMAIN d : {x, y} \subseteq r[i] /\ d[x] = k /\ d[y] = k - 1
<1>1. n \in Nat /\ DOMAIN r = 1 .. n
  BY LenProperties
<1>2. DOMAIN d \subseteq Zones /\ \A x \in DOMAIN d : d[x] \in Nat
  BY DEF Measured, Found
<1>3. ASSUME NEW k \in 1 .. d[z]
      PROVE  \E i \in 1 .. n : Hop(k, i)
  <2> DEFINE Levels == {m \in Nat : m <= d[z] => \E x \in DOMAIN d : d[x] = d[z] - m}
  <2>1. 0 \in Levels
    BY <1>2
  <2>2. ASSUME NEW m \in Levels
        PROVE  m + 1 \in Levels
    <3>1. m \in Nat /\ d[z] \in Nat
      BY <1>2
    <3>2. CASE m + 1 <= d[z]
      <4>1. PICK x \in DOMAIN d : d[x] = d[z] - m
        BY <3>1, <3>2
      <4>2. d[x] > 0 /\ d[x] - 1 = d[z] - (m + 1)
        BY <3>1, <3>2, <4>1
      <4>3. \E y \in DOMAIN d : d[y] = d[x] - 1
        BY <4>2 DEF Measured, Found
      <4> QED
        BY <3>1, <4>2, <4>3
    <3> QED
      BY <3>1, <3>2
  <2> HIDE DEF Levels
  <2>3. Levels = Nat
    BY <2>1, <2>2, SetInduction DEF Levels
  <2>4. PICK x \in DOMAIN d : d[x] = k
    <3>1. d[z] - k \in Nat /\ d[z] - k <= d[z] /\ d[z] - (d[z] - k) = k
      BY <1>2
    <3>2. d[z] - k \in Levels
      BY <2>3, <3>1
    <3> QED
      BY <3>1, <3>2 DEF Levels
  <2>5. PICK y \in DOMAIN d : x \in G[y] /\ d[y] = k - 1
    BY <2>4 DEF Measured, Found
  <2>6. \E i \in 1 .. n : {x, y} \subseteq r[i]
    BY <1>1, <1>2, <2>5 DEF GraphOf
  <2> QED
    BY <2>4, <2>5, <2>6
<1>4. ASSUME NEW j \in 1 .. d[z], NEW k \in 1 .. d[z], NEW i \in 1 .. n, Hop(j, i), Hop(k, i), j < k
      PROVE  FALSE
  <2>1. PICK y \in DOMAIN d : y \in r[i] /\ d[y] = j - 1
    BY <1>4
  <2>2. PICK x \in DOMAIN d : x \in r[i] /\ d[x] = k
    BY <1>4
  <2>3. x # y
    BY <1>4, <2>1, <2>2
  <2>4. x \in G[y]
    BY <1>1, <1>2, <2>1, <2>2, <2>3 DEF GraphOf
  <2>5. d[x] <= d[y] + 1
    BY <2>4, NeighboursAreNear
  <2> QED
    BY <1>4, <2>1, <2>2, <2>5
<1> HIDE DEF Hop, n, G
<1>5. ASSUME ~(d[z] <= n)
      PROVE  FALSE
  <2> DEFINE f == [k \in 1 .. d[z] |-> CHOOSE i \in 1 .. n : Hop(k, i)]
  <2>1. f \in [1 .. d[z] -> 1 .. n] /\ \A k \in 1 .. d[z] : Hop(k, f[k])
    BY <1>3
  <2> HIDE DEF f
  <2>2. /\ IsFiniteSet(1 .. d[z]) /\ Cardinality(1 .. d[z]) = d[z]
        /\ IsFiniteSet(1 .. n) /\ Cardinality(1 .. n) = n
    <3>1. d[z] \in Nat /\ d[z] >= 1
      BY <1>1, <1>2, <1>5
    <3>2. IsFiniteSet(1 .. d[z]) /\ Cardinality(1 .. d[z]) = d[z]
      BY <3>1, FS_Interval
    <3>3. IsFiniteSet(1 .. n) /\ Cardinality(1 .. n) = n
      BY <1>1, FS_Interval
    <3> QED
      BY <3>2, <3>3
  <2>3. n < d[z]
    BY <1>1, <1>2, <1>5
  <2>4. PICK j \in 1 .. d[z], k \in 1 .. d[z] : j # k /\ f[j] = f[k]
    <3> DEFINE hops == 1 .. d[z]
               rows == 1 .. n
    <3>1. f \in [hops -> rows] /\ IsFiniteSet(hops) /\ IsFiniteSet(rows)
      BY <2>1, <2>2
    <3>2. Cardinality(rows) < Cardinality(hops)
      BY <2>2, <2>3
    <3> HIDE DEF hops, rows
    <3>3. \E j, k \in hops : j # k /\ f[j] = f[k]
      BY <3>1, <3>2, FS_PigeonHole
    <3> QED
      BY <3>3 DEF hops
  <2>5. f[j] \in 1 .. n /\ Hop(j, f[j]) /\ Hop(k, f[j])
    BY <2>1, <2>4
  <2>6. j < k \/ k < j
    BY <2>4
  <2> QED
    BY <1>4, <2>5, <2>6
<1> QED
  BY <1>5 DEF n

\* A zone with a depth is within as many hops.
LEMMA FoundIsReached ==
  ASSUME NEW G, NEW d, Found(G, d), NEW z \in DOMAIN d
  PROVE  z \in Reach(G)[d[z]]
<1> DEFINE Near == {n \in Nat : \A x \in DOMAIN d : d[x] = n => x \in Reach(G)[n]}
<1>1. 0 \in Near
  BY ReachSteps DEF Found
<1>2. ASSUME NEW n \in Near
      PROVE  n + 1 \in Near
  <2>1. ASSUME NEW x \in DOMAIN d, d[x] = n + 1
        PROVE  x \in Reach(G)[n + 1]
    <3>1. n \in Nat /\ n + 1 > 0 /\ (n + 1) - 1 = n
      OBVIOUS
    <3>2. PICK y \in DOMAIN d : x \in G[y] /\ d[y] = n
      BY <2>1, <3>1 DEF Found
    <3>3. y \in Reach(G)[n]
      BY <3>2
    <3>4. Reach(G)[n + 1] = Step(G, Reach(G)[n])
      BY <3>1, ReachSteps
    <3> QED
      BY <3>2, <3>3, <3>4 DEF Step
  <2> QED
    BY <2>1
<1> HIDE DEF Near
<1>3. Near = Nat
  BY <1>1, <1>2, SetInduction DEF Near
<1>4. d[z] \in Nat
  BY DEF Found
<1> QED
  BY <1>3, <1>4 DEF Near

(***************************************************************************)
(* With nothing left in the queue the depths are distances: a zone has one *)
(* when it can be reached at all, and it is the least number of hops that  *)
(* suffices.                                                               *)
(***************************************************************************)
LEMMA SearchEnds ==
  ASSUME NEW r \in Seq(SUBSET Zones), NEW d, Measured(GraphOf(r), d, <<>>),
         NEW n \in Nat, Len(r) <= n
  PROVE  /\ DOMAIN d = Reach(GraphOf(r))[n]
         /\ \A z \in DOMAIN d, hops \in Nat : z \in Reach(GraphOf(r))[hops] <=> d[z] <= hops
<1> DEFINE G == GraphOf(r)
           D == DOMAIN d
<1>1. zone_1 \in D /\ d[zone_1] = 0 /\ \A z \in D : d[z] \in Nat
  BY DEF Measured, Found
<1>2. \A y \in D : \A z \in G[y] : z \in D /\ d[z] <= d[y] + 1
  <2>1. \A i \in 1 .. Len(<<>>) : FALSE
    BY EmptySeq
  <2> QED
    BY <2>1 DEF Measured, Visited
<1>3. ASSUME NEW z \in D
      PROVE  z \in Reach(G)[d[z]] /\ d[z] <= n
  <2>1. z \in Reach(G)[d[z]]
    BY FoundIsReached DEF Measured
  <2>2. d[z] <= Len(r)
    BY DepthsBounded
  <2>3. Len(r) \in Nat /\ d[z] \in Nat
    BY <1>1, LenProperties
  <2> QED
    BY <2>1, <2>2, <2>3
<1> HIDE DEF G
<1>4. ASSUME NEW hops \in Nat, NEW z \in Reach(G)[hops]
      PROVE  z \in D /\ d[z] <= hops
  BY <1>1, <1>2, DepthsReach
<1>5. ASSUME NEW z \in D, NEW hops \in Nat, d[z] <= hops
      PROVE  z \in Reach(G)[hops]
  <2>1. z \in Reach(G)[d[z]] /\ d[z] \in Nat
    BY <1>1, <1>3
  <2>2. Reach(G)[d[z]] \subseteq Reach(G)[hops]
    BY <1>5, <2>1, ReachWidens
  <2> QED
    BY <2>1, <2>2
<1>6. D = Reach(G)[n]
  BY <1>3, <1>4, <1>5
<1> QED
  BY <1>4, <1>5, <1>6 DEF G

--------------------------------------------------------------------------------
(* The invariant. *)

\* While the relays are drawn, the search has not begun.
DrawingInv ==
  phase = "relays" =>
    /\ Len(relays) < num_relays
    /\ depths = [z \in {zone_1} |-> 0]
    /\ queue = <<zone_1>>

\* The depths are those of the graph of the relays, and a search that has ended has left no zone out.
SearchInv ==
  /\ Measured(graph, depths, queue)
  /\ phase \in {"exits", "done"} => queue = <<>>

\* Each relay takes the mesh one hop further at most.
MeshInv == active_networks \subseteq Reach(graph)[Len(relays)]

\* No exit is placed, and no zone declared but the relays', before the last step.
PlacesInv ==
  phase # "done" => exit_nodes = <<>> /\ all_generated_networks = UNION ToSet(relays)

\* An exit in each of the furthest zones there are, as many as there are exits.
Furthest ==
  /\ ExitZones \subseteq DOMAIN depths
  /\ Cardinality(ExitZones) = Least(num_exits, Cardinality(DOMAIN depths))
  /\ \A x \in ExitZones, y \in DOMAIN depths \ ExitZones : depths[y] <= depths[x]

ExitsInv ==
  phase = "done" =>
    /\ exit_nodes \in Seq(Zones) /\ Len(exit_nodes) = num_exits
    /\ Furthest
    /\ all_generated_networks = ExitZones \cup UNION ToSet(relays)

IInv ==
  /\ phase \in {"relays", "search", "exits", "done"}
  /\ relays \in Seq(SUBSET Zones) /\ Len(relays) <= num_relays
  /\ active_networks \subseteq Zones
  /\ DrawingInv /\ SearchInv /\ MeshInv /\ PlacesInv /\ ExitsInv

\* Before the first draw only the victim's zone is active, and it is at no distance.
LEMMA InitIInv == Init => IInv
<1> SUFFICES ASSUME Init PROVE IInv
  OBVIOUS
<1>1. relays \in Seq(SUBSET Zones) /\ Len(relays) = 0 /\ DOMAIN relays = {}
  BY DEF Init
<1>2. 0 < num_relays /\ 0 <= num_relays
  BY GenerateMeshAssumption
<1>3. Measured(graph, depths, queue)
  BY SearchBegins DEF Init
<1>4. MeshInv
  <2>1. Reach(graph)[0] = {zone_1}
    BY ReachSteps
  <2> QED
    BY <1>1, <2>1 DEF MeshInv, Init
<1>5. UNION ToSet(relays) = {}
  BY <1>1 DEF ToSet
<1> QED
  BY <1>1, <1>2, <1>3, <1>4, <1>5, GenerateMeshAssumption
  DEF Init, IInv, DrawingInv, SearchInv, PlacesInv, ExitsInv

\* A relay more: the edges there were and those between its zones.
LEMMA GraphGrows ==
  ASSUME NEW r \in Seq(SUBSET Zones), NEW nets \in SUBSET Zones
  PROVE  /\ GraphOf(r) \in [Zones -> SUBSET Zones]
         /\ \A z \in Zones : GraphOf(r)[z] \subseteq GraphOf(Append(r, nets))[z]
         /\ \A y, z \in nets : y # z => y \in GraphOf(Append(r, nets))[z]
         /\ UNION ToSet(Append(r, nets)) = nets \cup UNION ToSet(r)
<1> DEFINE s == Append(r, nets)
           n == Len(r)
<1>1. /\ n \in Nat /\ DOMAIN r = 1 .. n /\ DOMAIN s = 1 .. n + 1
      /\ \A i \in 1 .. n : s[i] = r[i] /\ i \in 1 .. n + 1
      /\ s[n + 1] = nets /\ n + 1 \in 1 .. n + 1
      /\ \A i \in 1 .. n + 1 : i \in 1 .. n \/ i = n + 1
  BY AppendProperties, LenProperties
<1> HIDE DEF s, n
<1>2. \A z \in Zones : GraphOf(r)[z] \subseteq GraphOf(s)[z]
  BY <1>1 DEF GraphOf
<1>3. \A y, z \in nets : y # z => y \in GraphOf(s)[z]
  BY <1>1 DEF GraphOf
<1>4. UNION ToSet(s) = nets \cup UNION ToSet(r)
  BY <1>1 DEF ToSet
<1>5. GraphOf(r) \in [Zones -> SUBSET Zones]
  BY DEF GraphOf
<1> QED
  BY <1>2, <1>3, <1>4, <1>5 DEF s

\* What holds of any relay drawn, whatever zones it has.
LEMMA AddRelayIInv ==
  ASSUME IInv, phase = "relays", NEW nets \in SUBSET Zones, AddRelay(nets),
         active_networks' \subseteq Zones, MeshInv'
  PROVE  IInv'
<1>1. /\ relays \in Seq(SUBSET Zones) /\ Len(relays) \in Nat /\ Len(relays) < num_relays
      /\ relays' \in Seq(SUBSET Zones) /\ Len(relays') = Len(relays) + 1
  BY AppendProperties, LenProperties DEF IInv, DrawingInv, AddRelay
<1>2. phase' \in {"relays", "search"} /\ (phase' = "relays" => Len(relays') # num_relays)
  BY <1>1 DEF AddRelay
<1>3. Len(relays') <= num_relays /\ (phase' = "relays" => Len(relays') < num_relays)
  BY <1>1, <1>2, GenerateMeshAssumption
<1>4. depths' = [z \in {zone_1} |-> 0] /\ queue' = <<zone_1>>
  BY DEF IInv, DrawingInv, AddRelay
<1>5. Measured(graph', depths', queue')
  BY <1>4, SearchBegins
<1>6. exit_nodes' = <<>> /\ all_generated_networks' = UNION ToSet(relays')
  BY <1>1, GraphGrows DEF IInv, PlacesInv, AddRelay
<1> QED
  BY <1>1, <1>2, <1>3, <1>4, <1>5, <1>6 DEF IInv, DrawingInv, SearchInv, PlacesInv, ExitsInv

\* A relay of the main mesh brings its new zones within a hop of its anchor.
LEMMA MainRelayIInv == IInv /\ AddMainRelay => IInv'
<1> SUFFICES ASSUME IInv, AddMainRelay PROVE IInv'
  OBVIOUS
<1>1. PICK anchor \in active_networks, extras \in SUBSET InactivePool :
         /\ AddRelay({anchor} \cup extras)
         /\ active_networks' = active_networks \cup {anchor} \cup extras
  BY DEF AddMainRelay, Anchors, Sample, kSubset
<1>2. anchor \in Zones /\ extras \subseteq Zones /\ anchor \notin extras /\ active_networks' \subseteq Zones
  BY <1>1 DEF IInv, InactivePool
<1>3. MeshInv'
  <2> DEFINE n == Len(relays)
             nets == {anchor} \cup extras
             G == GraphOf(relays)
             H == GraphOf(Append(relays, nets))
  <2>1. n \in Nat /\ relays \in Seq(SUBSET Zones) /\ Len(Append(relays, nets)) = n + 1
    BY <1>2, AppendProperties, LenProperties DEF IInv
  <2>2. /\ G \in [Zones -> SUBSET Zones] /\ \A z \in Zones : G[z] \subseteq H[z]
        /\ \A y, z \in nets : y # z => y \in H[z]
    BY <1>2, <2>1, GraphGrows
  <2>3. active_networks \subseteq Reach(G)[n]
    BY DEF IInv, MeshInv, graph, GraphOf
  <2>4. graph' = H /\ relays' = Append(relays, nets)
    BY <1>1 DEF AddRelay, graph, GraphOf
  <2> HIDE DEF G, H, n
  <2>5. Reach(G)[n] \subseteq Reach(H)[n]
    BY <2>1, <2>2, ReachGrows
  <2>6. Reach(H)[n + 1] = Step(H, Reach(H)[n])
    BY <2>1, ReachSteps
  <2>7. extras \subseteq H[anchor] /\ anchor \in Reach(H)[n]
    BY <1>2, <2>2, <2>3, <2>5
  <2>8. active_networks \cup nets \subseteq Reach(H)[n + 1]
    BY <2>3, <2>5, <2>6, <2>7 DEF Step
  <2> QED
    BY <1>1, <2>1, <2>4, <2>8 DEF MeshInv
<1> QED
  BY <1>1, <1>2, <1>3, AddRelayIInv DEF AddMainRelay

\* An island takes no zone of the main mesh further away.
LEMMA IslandRelayIInv == IInv /\ AddIslandRelay => IInv'
<1> SUFFICES ASSUME IInv, AddIslandRelay PROVE IInv'
  OBVIOUS
<1>1. PICK nets \in SUBSET Zones : AddRelay(nets)
  BY DEF AddIslandRelay, IslandPool, InactivePool, Sample, kSubset
<1>2. active_networks' = active_networks /\ phase = "relays" /\ active_networks \subseteq Zones
  BY DEF AddIslandRelay, IInv
<1>3. MeshInv'
  <2> DEFINE n == Len(relays)
             G == GraphOf(relays)
             H == GraphOf(Append(relays, nets))
  <2>1. n \in Nat /\ n + 1 \in Nat /\ n <= n + 1 /\ relays \in Seq(SUBSET Zones)
        /\ Len(Append(relays, nets)) = n + 1
    BY AppendProperties, LenProperties DEF IInv
  <2>2. G \in [Zones -> SUBSET Zones] /\ \A z \in Zones : G[z] \subseteq H[z]
    BY <2>1, GraphGrows
  <2>3. active_networks \subseteq Reach(G)[n]
    BY DEF IInv, MeshInv, graph, GraphOf
  <2>4. graph' = H /\ relays' = Append(relays, nets)
    BY <1>1 DEF AddRelay, graph, GraphOf
  <2> HIDE DEF G, H, n
  <2>5. Reach(G)[n] \subseteq Reach(H)[n] /\ Reach(H)[n] \subseteq Reach(H)[n + 1]
    BY <2>1, <2>2, ReachGrows, ReachWidens
  <2> QED
    BY <1>2, <2>1, <2>3, <2>4, <2>5 DEF MeshInv
<1> QED
  BY <1>1, <1>2, <1>3, AddRelayIInv

\* Visiting the head of the queue keeps the depths in order.
LEMMA VisitIInv == IInv /\ VisitZone => IInv'
<1> SUFFICES ASSUME IInv, VisitZone PROVE IInv'
  OBVIOUS
<1>1. phase = "search" /\ UNCHANGED <<phase, relays, active_networks, all_generated_networks, exit_nodes>>
  BY DEF VisitZone
<1>2. graph \in [Zones -> SUBSET Zones] /\ graph' = graph
  BY <1>1 DEF graph
<1>3. PICK found \in SetToSeqs(Neighbours) : queue' = Tail(queue) \o found
  BY DEF VisitZone, Enqueue
<1>4. /\ queue # <<>>
      /\ depths' = [z \in DOMAIN depths \cup Neighbours |->
                      IF z \in Neighbours THEN depths[Head(queue)] + 1 ELSE depths[z]]
      /\ Neighbours = graph[Head(queue)] \ DOMAIN depths
  BY DEF VisitZone, Neighbours, Current
<1>5. Measured(graph, depths, queue)
  BY DEF IInv, SearchInv
<1>6. Measured(graph, depths', Tail(queue) \o found)
  <2> HIDE DEF Measured, graph, Neighbours
  <2> QED
    BY <1>2, <1>4, <1>5, SearchStep
<1>7. SearchInv'
  BY <1>1, <1>2, <1>3, <1>6 DEF SearchInv
<1>8. MeshInv'
  BY <1>1, <1>2 DEF IInv, MeshInv
<1> QED
  BY <1>1, <1>7, <1>8 DEF IInv, DrawingInv, PlacesInv, ExitsInv

\* The search ends with an empty queue.
LEMMA EndSearchIInv == IInv /\ EndSearch => IInv'
<1> SUFFICES ASSUME IInv, EndSearch PROVE IInv'
  OBVIOUS
<1>1. /\ phase = "search" /\ phase' = "exits" /\ queue = <<>>
      /\ UNCHANGED <<relays, active_networks, all_generated_networks, depths, queue, exit_nodes>>
  BY DEF EndSearch
<1>2. graph' = graph
  BY <1>1 DEF graph
<1> QED
  BY <1>1, <1>2 DEF IInv, DrawingInv, SearchInv, MeshInv, PlacesInv, ExitsInv

\* The first zones of a list that begins with the furthest are the furthest.
LEMMA FirstAreFurthest ==
  ASSUME NEW d, IsFiniteSet(DOMAIN d), NEW zones \in SetToSeqs(DOMAIN d),
         \A i, j \in DOMAIN zones : i < j => d[zones[i]] >= d[zones[j]],
         \A z \in DOMAIN d : d[z] \in Nat,
         NEW k, k = Least(num_exits, Len(zones)),
         NEW T, T = {zones[i] : i \in 1 .. k}
  PROVE  /\ T \subseteq DOMAIN d
         /\ Cardinality(T) = Least(num_exits, Cardinality(DOMAIN d))
         /\ \A x \in T, y \in DOMAIN d \ T : d[y] <= d[x]
<1> DEFINE n == Len(zones)
<1>1. /\ zones \in Seq(DOMAIN d) /\ n = Cardinality(DOMAIN d) /\ n \in Nat /\ DOMAIN zones = 1 .. n
      /\ \A x \in DOMAIN d : \E i \in 1 .. n : zones[i] = x
      /\ \A i, j \in 1 .. n : i # j => zones[i] # zones[j]
  BY SetToSeqsLists, LenProperties
<1>2. k \in Nat /\ k <= n /\ 1 .. k \subseteq 1 .. n
  BY <1>1, GenerateMeshAssumption DEF Least
<1> HIDE DEF n
<1>3. \A i \in 1 .. n : zones[i] \in DOMAIN d
  BY <1>1, ElementOfSeq DEF n
<1>4. T \subseteq DOMAIN d
  BY <1>2, <1>3
<1>5. Cardinality(T) = k
  <2> DEFINE f == [i \in 1 .. k |-> zones[i]]
  <2>1. f \in Surjection(1 .. k, T)
    BY DEF Surjection
  <2>2. f \in Injection(1 .. k, T)
    BY <1>1, <1>2 DEF Injection, IsInjective
  <2>3. IsFiniteSet(1 .. k) /\ Cardinality(1 .. k) = k
    BY <1>2, FS_Interval
  <2> HIDE DEF f
  <2> QED
    BY <2>1, <2>2, <2>3, FS_Surjection
<1>6. ASSUME NEW x \in T, NEW y \in DOMAIN d \ T
      PROVE  d[y] <= d[x]
  <2>1. PICK i \in 1 .. k : x = zones[i]
    OBVIOUS
  <2>2. PICK j \in 1 .. n : y = zones[j]
    BY <1>1
  <2>3. j \notin 1 .. k
    BY <2>2
  <2>4. i < j /\ i \in 1 .. n
    BY <1>1, <1>2, <2>3
  <2>5. d[zones[i]] >= d[zones[j]] /\ d[zones[i]] \in Nat /\ d[zones[j]] \in Nat
    BY <1>1, <1>3, <2>4
  <2> QED
    BY <2>1, <2>2, <2>5
<1> QED
  BY <1>1, <1>4, <1>5, <1>6 DEF n

\* A remainder is less than the divisor, and a number less than it is its own.
LEMMA Remainders ==
  ASSUME NEW x \in Nat, NEW m \in Nat \ {0}
  PROVE  (x % m) + 1 \in 1 .. m /\ (x < m => x % m = x)
OBVIOUS

\* Going through a list again and again visits all of it.
LEMMA RoundRobin ==
  ASSUME NEW S, NEW s \in Seq(S), NEW n \in Nat \ {0}, Len(s) \in 1 .. n,
         NEW e, e = [i \in 1 .. n |-> s[((i - 1) % Len(s)) + 1]]
  PROVE  e \in Seq(S) /\ Len(e) = n /\ ToSet(e) = ToSet(s)
<1> DEFINE k == Len(s)
           At(i) == ((i - 1) % k) + 1
<1>1. k \in 1 .. n /\ DOMAIN s = 1 .. k
  BY LenProperties
<1> HIDE DEF k
<1>2. \A i \in 1 .. n : At(i) \in 1 .. k
  <2>1. k \in Nat \ {0} /\ \A i \in 1 .. n : i - 1 \in Nat
    BY <1>1
  <2> QED
    BY <2>1, Remainders
<1>3. \A i \in 1 .. k : At(i) = i /\ i \in 1 .. n
  <2>1. k \in Nat \ {0} /\ \A i \in 1 .. k : i - 1 \in Nat /\ i - 1 < k /\ (i - 1) + 1 = i /\ i \in 1 .. n
    BY <1>1
  <2> QED
    BY <2>1, Remainders
<1> HIDE DEF At
<1>4. e = [i \in 1 .. n |-> s[At(i)]]
  BY DEF At, k
<1>5. \A i \in 1 .. k : s[i] \in S
  BY ElementOfSeq DEF k
<1>6. e \in Seq(S) /\ Len(e) = n /\ DOMAIN e = 1 .. n
  BY <1>2, <1>4, <1>5
<1>7. ToSet(e) = ToSet(s)
  <2>1. ToSet(e) = {e[i] : i \in 1 .. n} /\ ToSet(s) = {s[i] : i \in 1 .. k}
    BY <1>1, <1>6 DEF ToSet
  <2>2. \A i \in 1 .. n : e[i] = s[At(i)] /\ At(i) \in 1 .. k
    BY <1>2, <1>4
  <2>3. \A i \in 1 .. k : s[i] = e[i] /\ i \in 1 .. n
    BY <1>3, <2>2
  <2>4. ASSUME NEW x \in ToSet(e)
        PROVE  x \in ToSet(s)
    BY <2>1, <2>2
  <2>5. ASSUME NEW x \in ToSet(s)
        PROVE  x \in ToSet(e)
    BY <2>1, <2>3
  <2> QED
    BY <2>4, <2>5
<1> QED
  BY <1>6, <1>7

\* The exits go to the first zones of the sorted list, round and round.
LEMMA PlaceIInv == IInv /\ PlaceExits => IInv'
<1> SUFFICES ASSUME IInv, PlaceExits PROVE IInv'
  OBVIOUS
<1>1. phase = "exits" /\ phase' = "done" /\ UNCHANGED <<relays, active_networks, depths, queue>>
  BY DEF PlaceExits
<1>2. graph' = graph
  BY <1>1 DEF graph
<1> DEFINE D == DOMAIN depths
           k(zones) == Least(num_exits, Len(zones))
           targets(zones) == SubSeq(zones, 1, k(zones))
<1>3. PICK zones \in SetToSeqs(D) :
        /\ FurthestFirst(zones)
        /\ exit_nodes' = [i \in 1 .. num_exits |-> targets(zones)[((i - 1) % Len(targets(zones))) + 1]]
        /\ all_generated_networks' = all_generated_networks \cup ToSet(targets(zones))
  BY DEF PlaceExits, reachable_networks, DeclareExits
<1>4. zone_1 \in D /\ D \subseteq Zones /\ IsFiniteSet(D) /\ \A z \in D : depths[z] \in Nat
  BY FS_Subset, GenerateMeshAssumption DEF IInv, SearchInv, Measured, Found
<1>5. zones \in Seq(D) /\ Len(zones) \in Nat \ {0} /\ DOMAIN zones = 1 .. Len(zones)
  <2>1. zones \in Seq(D) /\ \E i \in 1 .. Len(zones) : zones[i] = zone_1
    BY <1>4, SetToSeqsLists
  <2> QED
    BY <2>1, LenProperties
<1>6. /\ k(zones) \in 1 .. num_exits /\ k(zones) \in 1 .. Len(zones)
      /\ num_exits \in Nat \ {0}
  BY <1>5, GenerateMeshAssumption DEF Least
<1> HIDE DEF k
<1>7. /\ targets(zones) \in Seq(D) /\ Len(targets(zones)) = k(zones)
      /\ ToSet(targets(zones)) = {zones[i] : i \in 1 .. k(zones)}
  <2>1. \A i \in 1 .. k(zones) : zones[i] \in D
    BY <1>5, <1>6, ElementOfSeq
  <2>2. 1 \in Int /\ k(zones) \in Int /\ 1 <= k(zones) /\ (k(zones) - 1) + 1 = k(zones)
    BY <1>6
  <2>3. /\ targets(zones) \in Seq(D) /\ Len(targets(zones)) = k(zones)
        /\ \A i \in 1 .. k(zones) : targets(zones)[i] = zones[i]
    BY <2>1, <2>2, SubSeqProperties
  <2> HIDE DEF targets
  <2>4. DOMAIN targets(zones) = 1 .. k(zones)
    BY <2>3, LenProperties
  <2> QED
    BY <2>3, <2>4 DEF ToSet
<1> HIDE DEF targets
<1>8. /\ exit_nodes' \in Seq(D) /\ Len(exit_nodes') = num_exits
      /\ ToSet(exit_nodes') = ToSet(targets(zones))
  <2>1. Len(targets(zones)) \in 1 .. num_exits
    BY <1>6, <1>7
  <2>2. targets(zones) \in Seq(D)
    BY <1>7
  <2>3. exit_nodes' = [i \in 1 .. num_exits |-> targets(zones)[((i - 1) % Len(targets(zones))) + 1]]
    BY <1>3
  <2> QED
    BY <1>6, <2>1, <2>2, <2>3, RoundRobin
<1>9. exit_nodes' \in Seq(Zones)
  BY <1>4, <1>8, SeqMonotonic
<1>10. ExitZones' = {zones[i] : i \in 1 .. k(zones)}
  BY <1>7, <1>8 DEF ExitZones
<1>11. Furthest'
  <2>1. \A i, j \in DOMAIN zones : i < j => depths[zones[i]] >= depths[zones[j]]
    BY <1>3 DEF FurthestFirst
  <2>2. k(zones) = Least(num_exits, Len(zones))
    BY DEF k
  <2>3. /\ ExitZones' \subseteq D
        /\ Cardinality(ExitZones') = Least(num_exits, Cardinality(D))
        /\ \A x \in ExitZones', y \in D \ ExitZones' : depths[y] <= depths[x]
    BY <1>4, <1>10, <2>1, <2>2, FirstAreFurthest
  <2> QED
    BY <1>1, <2>3 DEF Furthest
<1>12. all_generated_networks' = ExitZones' \cup UNION ToSet(relays')
  BY <1>1, <1>3, <1>7, <1>10 DEF IInv, PlacesInv
<1> QED
  BY <1>1, <1>2, <1>8, <1>9, <1>11, <1>12
  DEF IInv, DrawingInv, SearchInv, MeshInv, PlacesInv, ExitsInv

\* A step of somebody else.
LEMMA StutterIInv == IInv /\ UNCHANGED vars => IInv'
<1> SUFFICES ASSUME IInv, UNCHANGED vars PROVE IInv'
  OBVIOUS
<1>1. UNCHANGED <<phase, relays, active_networks, all_generated_networks, depths, queue, exit_nodes>>
  BY DEF vars
<1>2. graph' = graph /\ ExitZones' = ExitZones
  BY <1>1 DEF graph, ExitZones
<1> QED
  BY <1>1, <1>2 DEF IInv, DrawingInv, SearchInv, MeshInv, PlacesInv, ExitsInv, Furthest

\* The invariant holds all along build_mesh, whatever it draws.
THEOREM Invariance == Spec => []IInv
<1>1. IInv /\ [Next]_vars => IInv'
  BY MainRelayIInv, IslandRelayIInv, VisitIInv, EndSearchIInv, PlaceIInv, StutterIInv DEF Next
<1> QED
  BY <1>1, InitIInv, PTL DEF Spec

--------------------------------------------------------------------------------
(* What it says of the mesh. *)

\* Within is Reach of the graph of this state.
LEMMA WithinIsReach == Within = Reach(graph)
BY DEF Within, Reach, Solves, Step

\* What the search has measured when it is over.
LEMMA Distances ==
  ASSUME IInv, phase \in {"exits", "done"}
  PROVE  /\ DOMAIN depths = Within[num_relays]
         /\ \A z \in DOMAIN depths : depths[z] \in Nat
         /\ \A z \in DOMAIN depths, hops \in Nat : z \in Within[hops] <=> depths[z] <= hops
<1>1. relays \in Seq(SUBSET Zones) /\ num_relays \in Nat /\ Len(relays) <= num_relays
  BY GenerateMeshAssumption DEF IInv
<1>2. Measured(GraphOf(relays), depths, <<>>) /\ GraphOf(relays) = graph
  BY DEF IInv, SearchInv, graph, GraphOf
<1>3. \A z \in DOMAIN depths : depths[z] \in Nat
  BY <1>2 DEF Measured, Found
<1> QED
  BY <1>1, <1>2, <1>3, SearchEnds, WithinIsReach

(***************************************************************************)
(* A search that never lowers a depth it has written has nonetheless       *)
(* written distances when it ends: "shouldn't we save the minimum" has the *)
(* answer no for any mesh, not only for those small enough to try.         *)
(***************************************************************************)
THEOREM DepthsAreDistancesHolds == Spec => []DepthsAreDistances
<1>1. IInv => DepthsAreDistances
  <2> SUFFICES ASSUME IInv, phase \in {"exits", "done"}
               PROVE  /\ DOMAIN depths = Within[num_relays]
                      /\ \A z \in DOMAIN depths :
                           /\ z \in Within[depths[z]]
                           /\ depths[z] > 0 => z \notin Within[depths[z] - 1]
    BY DEF DepthsAreDistances
  <2>1. \A z \in DOMAIN depths :
          /\ depths[z] \in Nat /\ depths[z] <= depths[z]
          /\ depths[z] > 0 => depths[z] - 1 \in Nat /\ ~(depths[z] <= depths[z] - 1)
    BY Distances
  <2> QED
    BY <2>1, Distances
<1> QED
  BY <1>1, Invariance, PTL

(***************************************************************************)
(* An anchor in the active mesh does guarantee reachability: no zone drawn *)
(* for the main mesh is further than there are relays.                     *)
(***************************************************************************)
THEOREM MainMeshIsReachableHolds == Spec => []MainMeshIsReachable
<1>1. IInv => MainMeshIsReachable
  <2> SUFFICES ASSUME IInv PROVE active_networks \subseteq Within[num_relays]
    BY DEF MainMeshIsReachable
  <2>1. Len(relays) \in Nat /\ num_relays \in Nat /\ Len(relays) <= num_relays
    BY GenerateMeshAssumption, LenProperties DEF IInv
  <2>2. Reach(graph)[Len(relays)] \subseteq Reach(graph)[num_relays]
    BY <2>1, ReachWidens
  <2> QED
    BY <2>2, WithinIsReach DEF IInv, MeshInv
<1> QED
  BY <1>1, Invariance, PTL

(***************************************************************************)
(* The exits are placed in as many zones as there are exits, or in all     *)
(* that can be reached, and no zone without one is further away.           *)
(***************************************************************************)
THEOREM ExitsAreFurthestHolds == Spec => []ExitsAreFurthest
<1>1. IInv => ExitsAreFurthest
  <2> SUFFICES ASSUME IInv, phase = "done"
               PROVE  /\ Cardinality(ExitZones) = Least(num_exits, Cardinality(Within[num_relays]))
                      /\ \A x \in ExitZones, hops \in 0 .. num_relays :
                           x \in Within[hops] => Within[num_relays] \ ExitZones \subseteq Within[hops]
    BY DEF ExitsAreFurthest
  <2>1. /\ ExitZones \subseteq DOMAIN depths
        /\ Cardinality(ExitZones) = Least(num_exits, Cardinality(DOMAIN depths))
        /\ \A x \in ExitZones, y \in DOMAIN depths \ ExitZones : depths[y] <= depths[x]
    BY DEF IInv, ExitsInv, Furthest
  <2>2. ASSUME NEW x \in ExitZones, NEW hops \in 0 .. num_relays, x \in Within[hops],
               NEW y \in Within[num_relays] \ ExitZones
        PROVE  y \in Within[hops]
    <3>1. hops \in Nat /\ x \in DOMAIN depths /\ y \in DOMAIN depths \ ExitZones
      BY <2>1, Distances, GenerateMeshAssumption
    <3>2. depths[x] \in Nat /\ depths[y] \in Nat /\ depths[x] <= hops /\ depths[y] <= depths[x]
      BY <2>1, <2>2, <3>1, Distances
    <3>3. depths[y] <= hops
      BY <3>1, <3>2
    <3> QED
      BY <3>1, <3>3, Distances
  <2> QED
    BY <2>1, <2>2, Distances
<1> QED
  BY <1>1, Invariance, PTL

(***************************************************************************)
(* Every zone a container is in is declared.  That of the victim is one    *)
(* even when no relay has it: nothing else can be reached then, and the    *)
(* exits are placed there.                                                 *)
(***************************************************************************)
THEOREM DeclaresEveryZoneHolds == Spec => []DeclaresEveryZone
<1>1. IInv => DeclaresEveryZone
  <2> SUFFICES ASSUME IInv, phase = "done"
               PROVE  zone_1 \in ExitZones \cup UNION ToSet(relays)
    BY DEF IInv, ExitsInv, DeclaresEveryZone
  <2>1. CASE \E i \in DOMAIN relays : zone_1 \in relays[i]
    BY <2>1 DEF ToSet
  <2>2. CASE ~\E i \in DOMAIN relays : zone_1 \in relays[i]
    <3>1. graph[zone_1] = {} /\ num_relays \in Nat
      BY <2>2, GenerateMeshAssumption DEF graph
    <3> DEFINE D == {zone_1}
               d == [z \in D |-> 0]
    <3>2. \A z \in Reach(graph)[num_relays] : z \in D
      <4>1. /\ zone_1 \in D /\ d[zone_1] = 0 /\ \A z \in D : d[z] \in Nat
            /\ \A y \in D : \A z \in graph[y] : z \in D /\ d[z] <= d[y] + 1
        BY <3>1
      <4> HIDE DEF d, D
      <4>2. ASSUME NEW z \in Reach(graph)[num_relays]
            PROVE  z \in D /\ d[z] <= num_relays
        BY <3>1, <4>1, DepthsReach
      <4> QED
        BY <4>2
    <3>3. ExitZones \subseteq {zone_1}
      BY <3>2, Distances, WithinIsReach DEF IInv, ExitsInv, Furthest
    <3>4. exit_nodes[1] \in ExitZones
      <4>1. 1 \in DOMAIN exit_nodes
        BY GenerateMeshAssumption, LenProperties DEF IInv, ExitsInv
      <4> QED
        BY <4>1 DEF ExitZones, ToSet
    <3> QED
      BY <3>3, <3>4
  <2> QED
    BY <2>1, <2>2
<1> QED
  BY <1>1, Invariance, PTL

\* Every variable of build_mesh keeps its type; a depth is not more than the number of relays.
THEOREM TypeCorrect == Spec => []TypeOK
<1>1. IInv => TypeOK
  <2> SUFFICES ASSUME IInv PROVE TypeOK
    OBVIOUS
  <2>1. relays \in Seq(SUBSET Zones) /\ Len(relays) \in Nat /\ Len(relays) <= num_relays /\ num_relays \in Nat
    BY GenerateMeshAssumption, LenProperties DEF IInv
  <2>2. Measured(GraphOf(relays), depths, queue)
    BY DEF IInv, SearchInv, graph, GraphOf
  <2>3. DOMAIN depths \subseteq Zones /\ \A z \in DOMAIN depths : depths[z] \in Nat
    BY <2>2 DEF Measured, Found
  <2>4. \A z \in DOMAIN depths : depths[z] \in 0 .. num_relays
    <3>1. \A z \in DOMAIN depths : depths[z] <= Len(relays)
      BY <2>1, <2>2, DepthsBounded
    <3> QED
      BY <2>1, <2>3, <3>1
  <2>5. queue \in Seq(Zones)
    BY <2>2, <2>3, SeqMonotonic DEF Measured, Queued
  <2>6. exit_nodes \in Seq(Zones) /\ Len(exit_nodes) \in {0, num_exits}
    BY EmptySeq DEF IInv, PlacesInv, ExitsInv
  <2>7. all_generated_networks \subseteq Zones
    <3>1. UNION ToSet(relays) \subseteq Zones
      <4>1. \A i \in DOMAIN relays : relays[i] \subseteq Zones
        BY <2>1, ElementOfSeq, LenProperties
      <4> QED
        BY <4>1 DEF ToSet
    <3> QED
      BY <2>3, <3>1 DEF IInv, PlacesInv, ExitsInv, Furthest
  <2> QED
    BY <2>1, <2>3, <2>4, <2>5, <2>6, <2>7 DEF IInv, TypeOK
<1> QED
  BY <1>1, Invariance, PTL

=================================================================================
