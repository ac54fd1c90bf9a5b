---------------------------- MODULE MaxFlow_proofs ----------------------------
(***************************************************************************)
(* Proofs about the numbers of the light profile (MaxFlow), for any        *)
(* networks over finitely many nodes, any targets, any budget and any cap  *)
(* of an augmentation: _max_flow sends what no cut holds below, a score is *)
(* a marginal gain, and the proposals are the best edges.                  *)
(*                                                                         *)
(* The search of the model finds paths on which something is left          *)
(* (AugmentingPath); a push along one keeps the residuals those of a flow  *)
(* (PushKeepsFlow); when the search does not reach the sink, what it did   *)
(* reach is a cut the flow fills (SaturatedIsMinCut).  The facts about     *)
(* sums, flows, paths and searches themselves are in SumsAndFlows.         *)
(***************************************************************************)
EXTENDS MaxFlow, SumsAndFlows, SequenceTheorems

----------------------------------------------------------------------------
(* Least numbers                                                           *)

\* A set of numbers has its least one.
LEMMA LeastIs ==
  ASSUME NEW S \in SUBSET Nat, S # {}
  PROVE  Least(S) \in S /\ \A x \in S : Least(S) <= x
<1>1. \E n \in S : \A m \in S : n <= m
  BY LeastNatural
<1> QED BY <1>1 DEF Least

\* The lesser of two.
LEMMA LeastOfTwo ==
  ASSUME NEW a \in Nat, NEW b \in Nat
  PROVE  /\ Least({a, b}) \in Nat
         /\ Least({a, b}) = IF a <= b THEN a ELSE b
<1>1. Least({a, b}) \in {a, b} /\ \A x \in {a, b} : Least({a, b}) <= x
  BY LeastIs
<1> QED BY <1>1

\* The graph is finite, and its ends are two of its vertices.
LEMMA VerticesAreFinite ==
  /\ IsFiniteSet(Vertices) /\ Cardinality(Vertices) \in Nat
  /\ Source \in Vertices /\ Sink \in Vertices /\ Source # Sink
<1>1. IsFiniteSet(Nodes \cup {Source}) /\ Nodes \cup {Source, Sink} = (Nodes \cup {Source}) \cup {Sink}
  BY NamesAssumption, FS_AddElement
<1>2. IsFiniteSet(Vertices)
  BY <1>1, FS_AddElement DEF Vertices
<1> QED BY <1>2, NamesAssumption, FS_CardinalityType DEF Vertices

----------------------------------------------------------------------------
(* The search                                                              *)

\* What the code reaches is what the search of SumsAndFlows reaches.
LEMMA ReachedIs ==
  ASSUME NEW r
  PROVE  Reaches(Vertices, Source, r, Cardinality(Vertices), Reached(r))
<1>1. Cardinality(Vertices) \in Nat /\ Source \in Vertices
  BY VerticesAreFinite
<1>2. Reached(r) = CHOOSE f : f = [k \in 0..Cardinality(Vertices) |->
        IF k = 0 THEN {Source}
        ELSE UNION {{v \in Vertices : v = u \/ r[<<u, v>>] > 0} : u \in f[k - 1]}]
  BY DEF Reached, Depths
<1> QED BY <1>1, <1>2, SearchReaches

\* An augmenting path is a path on which something is left.
LEMMA AugmentingPath ==
  ASSUME NEW r, Augmentable(r), NEW p \in ShortestPaths(r)
  PROVE  /\ p \in Seq(Vertices) /\ IsPath(Vertices, Source, Sink, Len(p), p)
         /\ \A i \in 1..(Len(p) - 1) : r[<<p[i], p[i + 1]>>] > 0
<1> DEFINE N == Cardinality(Vertices)
           R == Reached(r)
           L == Least({k \in Depths : Sink \in R[k]})
<1>1. p \in Prolonged(Source, r, L, R)[L] /\ p[L + 1] = Sink
  BY DEF ShortestPaths, Prolonged
<1>2. N \in Nat /\ Source \in Vertices
  BY VerticesAreFinite
<1>3. L \in 0..N
  <2> DEFINE S == {k \in Depths : Sink \in R[k]}
  <2>1. N \in S /\ S \subseteq 0..N
    BY <1>2 DEF Augmentable, Depths
  <2>2. S \subseteq Nat /\ S # {}
    BY <1>2, <2>1
  <2>3. Least(S) \in S
    BY <2>2, LeastIs
  <2> QED BY <2>1, <2>3
<1>4. Reaches(Vertices, Source, r, N, R)
  BY ReachedIs
<1> HIDE DEF N, R, L
<1> QED BY <1>1, <1>2, <1>3, <1>4, SearchFindsPaths

----------------------------------------------------------------------------
(* Pushes and cuts                                                         *)

\* r is what a flow of x units leaves of the capacities c.
Residual(c, r, x) == IsResidual(Vertices, Source, Sink, c, r, x)

LEMMA ArcsAre == Arcs = Across(Vertices, Vertices)
BY DEF Arcs, Across

\* The arcs of an augmenting path, and what it can carry.
LEMMA BottleneckIs ==
  ASSUME NEW r \in [Arcs -> Int], Augmentable(r), NEW p \in ShortestPaths(r)
  PROVE  /\ ArcsOf(p) = PathArcs(Len(p), p) /\ ArcsOf(p) \subseteq Arcs
         /\ Bottleneck(r, p) \in Nat \ {0}
         /\ \A a \in ArcsOf(p) : Bottleneck(r, p) <= r[a]
<1> DEFINE S == {r[a] : a \in ArcsOf(p)} \cup {MaxStep}
<1>1. /\ p \in Seq(Vertices) /\ IsPath(Vertices, Source, Sink, Len(p), p)
      /\ \A i \in 1..(Len(p) - 1) : r[<<p[i], p[i + 1]>>] > 0
  BY AugmentingPath
<1>2. ArcsOf(p) = PathArcs(Len(p), p)
  BY DEF ArcsOf, PathArcs
<1>3. \A a \in ArcsOf(p) : a \in Arcs /\ r[a] > 0
  <2> SUFFICES ASSUME NEW i \in 1..(Len(p) - 1)
               PROVE  <<p[i], p[i + 1]>> \in Arcs /\ r[<<p[i], p[i + 1]>>] > 0
    BY DEF ArcsOf
  <2>1. Len(p) \in Nat /\ i \in 1..Len(p) /\ i + 1 \in 1..Len(p)
    BY <1>1
  <2>2. p[i] \in Vertices /\ p[i + 1] \in Vertices
    BY <1>1, <2>1 DEF IsPath
  <2> QED BY <1>1, <2>2 DEF Arcs
<1>4. \A x \in S : x \in Nat \ {0}
  BY <1>3, NumbersAssumption
<1>5. S \in SUBSET Nat /\ S # {}
  BY <1>4
<1>6. Least(S) \in S /\ \A x \in S : Least(S) <= x
  BY <1>5, LeastIs
<1>7. Bottleneck(r, p) = Least(S)
  BY DEF Bottleneck
<1> QED BY <1>2, <1>3, <1>4, <1>6, <1>7

\* A push along an augmenting path sends that much more.
LEMMA PushKeepsFlow ==
  ASSUME NEW c \in [Arcs -> Nat], NEW r, NEW x \in Nat, Residual(c, r, x),
         Augmentable(r), NEW p \in ShortestPaths(r)
  PROVE  LET d == Bottleneck(r, p) IN
         d \in Nat /\ Residual(c, Pushed(r, p, d), x + d)
<1> DEFINE d == Bottleneck(r, p)
           q == Pushed(r, p, d)
           n == Len(p)
<1>1. r \in [Arcs -> Int]
  BY ArcsAre DEF Residual, IsResidual
<1>2. /\ ArcsOf(p) = PathArcs(n, p) /\ ArcsOf(p) \subseteq Arcs
      /\ d \in Nat \ {0} /\ \A a \in ArcsOf(p) : d <= r[a]
  BY <1>1, BottleneckIs
<1>3. IsPath(Vertices, Source, Sink, n, p)
  BY AugmentingPath
<1> HIDE DEF d, n
<1> DEFINE P == PathArcs(n, p)
           A == Across(Vertices, Vertices)
<1>4. q = [a \in A |-> r[a] - (IF a \in P THEN d ELSE 0)
                             + (IF <<a[2], a[1]>> \in P THEN d ELSE 0)]
  BY <1>2, ArcsAre DEF Pushed, Reversed
<1>5. c \in [A -> Int] /\ P \subseteq A /\ d \in Nat /\ \A a \in P : d <= r[a]
  BY <1>2, ArcsAre
<1> HIDE DEF q
<1>6. Residual(c, q, x + d)
  BY <1>3, <1>4, <1>5, VerticesAreFinite, PushSendsMore DEF Residual
<1> QED BY <1>2, <1>6 DEF q, d

\* What cuts carry.
LEMMA CutsAreNumbers ==
  ASSUME NEW c \in [Arcs -> Nat], NEW S \in SUBSET Nodes
  PROVE  /\ IsCut(Vertices, Source, Sink, S \cup {Source})
         /\ CutCapacity(c, S \cup {Source}) \in Nat
         /\ CutCapacity(c, S \cup {Source}) =
              SumFunctionOnSet(c, Across(S \cup {Source}, Vertices \ (S \cup {Source})))
<1> DEFINE T == S \cup {Source}
           A == Across(T, Vertices \ T)
<1>1. IsCut(Vertices, Source, Sink, T)
  BY NamesAssumption DEF IsCut, Vertices
<1>2. T \in SUBSET Vertices /\ Vertices \ T \in SUBSET Vertices
  BY <1>1 DEF IsCut
<1>3. IsFiniteSet(A)
  BY <1>2, VerticesAreFinite, ArcsAreFinite
<1>4. \A y \in A : c[y] \in Nat
  BY <1>2 DEF Across, Arcs
<1>5. CutCapacity(c, T) = SumFunctionOnSet(c, A)
  BY DEF CutCapacity, Across
<1> HIDE DEF A, T
<1>6. SumFunctionOnSet(c, A) \in Nat
  BY <1>3, <1>4, SumNotNegative
<1> QED BY <1>1, <1>5, <1>6 DEF T, A

\* The minimum cut is one of them and none is less.
LEMMA MinCutIs ==
  ASSUME NEW c \in [Arcs -> Nat]
  PROVE  /\ MinCut(c) \in Nat
         /\ \E S \in SUBSET Nodes : MinCut(c) = CutCapacity(c, S \cup {Source})
         /\ \A S \in SUBSET Nodes : MinCut(c) <= CutCapacity(c, S \cup {Source})
<1> DEFINE C == {CutCapacity(c, S \cup {Source}) : S \in SUBSET Nodes}
<1>1. \A S \in SUBSET Nodes : CutCapacity(c, S \cup {Source}) \in Nat
  BY CutsAreNumbers
<1>2. C \in SUBSET Nat /\ C # {}
  BY <1>1
<1>3. Least(C) \in C /\ \A x \in C : Least(C) <= x
  BY <1>2, LeastIs
<1>4. MinCut(c) = Least(C)
  BY DEF MinCut
<1> QED BY <1>2, <1>3, <1>4

\* A flow that cannot be augmented is as large as the minimum cut.
LEMMA SaturatedIsMinCut ==
  ASSUME NEW c \in [Arcs -> Nat], NEW r, NEW x \in Nat, Residual(c, r, x), ~Augmentable(r)
  PROVE  x = MinCut(c)
<1> DEFINE N == Cardinality(Vertices)
           R == Reached(r)[N]
           S == R \ {Source}
<1>1. N \in Nat /\ IsFiniteSet(Vertices) /\ Source \in Vertices
  BY VerticesAreFinite
<1>2. Reaches(Vertices, Source, r, N, Reached(r))
  BY ReachedIs
<1>3. R \subseteq Vertices /\ Source \in R
  <2>1. N \in 0..N /\ 0 \in 0..N /\ 0 <= N
    BY <1>1
  <2>2. R \subseteq Vertices /\ Reached(r)[0] \subseteq R
    BY <1>1, <1>2, <2>1, ReachGrows
  <2> QED BY <1>2, <2>2 DEF Reaches
<1>4. \A u \in R, v \in Vertices : r[<<u, v>>] > 0 => v \in R
  BY <1>1, <1>2, ReachEnds
<1>5. Sink \notin R
  BY DEF Augmentable
<1> HIDE DEF R
<1>6. S \in SUBSET Nodes /\ S \cup {Source} = R
  BY <1>3, <1>5 DEF Vertices
<1>7. c \in [Across(Vertices, Vertices) -> Nat]
  BY ArcsAre
<1>8. x = CutCapacity(c, S \cup {Source})
  <2>1. IsCut(Vertices, Source, Sink, R)
    BY <1>6, CutsAreNumbers
  <2>2. x = SumFunctionOnSet(c, Across(R, Vertices \ R))
    BY <1>1, <1>4, <1>7, <2>1, ResidualFillsCut DEF Residual
  <2> QED BY <1>6, <2>2, CutsAreNumbers
<1>9. ASSUME NEW T \in SUBSET Nodes PROVE x <= CutCapacity(c, T \cup {Source})
  <2>1. /\ IsCut(Vertices, Source, Sink, T \cup {Source})
        /\ CutCapacity(c, T \cup {Source}) =
             SumFunctionOnSet(c, Across(T \cup {Source}, Vertices \ (T \cup {Source})))
    BY CutsAreNumbers
  <2>2. x <= SumFunctionOnSet(c, Across(T \cup {Source}, Vertices \ (T \cup {Source})))
    BY <1>1, <1>7, <2>1, ResidualBelowCut DEF Residual
  <2> QED BY <2>1, <2>2
<1>10. MinCut(c) <= x
  BY <1>6, <1>8, MinCutIs
<1>11. x <= MinCut(c)
  BY <1>9, MinCutIs
<1>12. MinCut(c) \in Nat
  BY MinCutIs
<1> QED BY <1>10, <1>11, <1>12

----------------------------------------------------------------------------
(* The invariant                                                           *)

EdgeIds(n) == {n.edges[i].id : i \in DOMAIN n.edges}

\* The residuals are those of a flow of total units.
FlowInv ==
  pc = "flow" =>
    HasFlow(net) /\ Residual(Capacities(net, bump, target), residual, total)

\* The base and the scores found so far are those of the true bound.
ScoreInv ==
  /\ bump \in EdgeIds(net) \cup {NoEdge} /\ DOMAIN scores \subseteq EdgeIds(net)
  /\ bump # NoEdge \/ pc \in {"scored", "done"} => base = TrueBound(net, NoEdge, target)
  /\ \A i \in DOMAIN scores :
       scores[i] = TrueBound(net, i, target) - TrueBound(net, NoEdge, target)
  /\ pc \in {"scored", "done"} => DOMAIN scores = EdgeIds(net)

Gain(i) == scores[net.edges[i].id]

\* The proposals made so far are the best ones.
ProposalInv ==
  /\ pc \in {"build", "flow"} => proposals = <<>>
  /\ Len(proposals) <= Units
  /\ \A k, l \in DOMAIN proposals : proposals[k] = proposals[l] => k = l
  /\ \A k \in DOMAIN proposals : Gain(proposals[k]) > 0
  /\ \A j \in DOMAIN net.edges :
       (\A k \in DOMAIN proposals : proposals[k] # j) =>
         \A k \in DOMAIN proposals : Gain(j) <= Gain(proposals[k])
  /\ pc = "done" => Len(proposals) >= Units \/ Proposable = {}

IInv == TypeOK /\ FlowInv /\ ScoreInv /\ ProposalInv

----------------------------------------------------------------------------
(* Capacities                                                              *)

\* The edges of a network.
LEMMA EdgesAre ==
  ASSUME NEW n \in Networks
  PROVE  /\ IsFiniteSet(DOMAIN n.edges) /\ DOMAIN n.edges \subseteq Nat \ {0}
         /\ \A i \in DOMAIN n.edges : n.edges[i] \in EdgeFields /\ n.edges[i].id \in Ids
<1>1. n.edges \in Seq(EdgeFields)
  BY NetworksAssumption
<1>2. Len(n.edges) \in Nat /\ DOMAIN n.edges = 1..Len(n.edges)
  BY <1>1
<1>3. \A i \in DOMAIN n.edges : n.edges[i] \in EdgeFields
  BY <1>1
<1>4. IsFiniteSet(1..Len(n.edges))
  BY <1>2, FS_Interval
<1> QED BY <1>2, <1>3, <1>4 DEF EdgeFields

\* A perturbed edge may certify one unit more, another one is unchanged.
LEMMA CertifiedIs ==
  ASSUME NEW e \in EdgeFields, NEW b
  PROVE  /\ Certified(e, b) \in Nat
         /\ Certified(e, NoEdge) <= Certified(e, b)
         /\ Certified(e, b) <= Certified(e, NoEdge) + (IF e.id = b THEN 1 ELSE 0)
<1> DEFINE q == Positive(e.arrival - e.service)
           x == e.capacity - e.reserved - e.charged - q
           more(i) == IF e.id = i THEN 1 ELSE 0
<1>1. /\ e.id \in Ids /\ e.capacity \in Nat /\ e.reserved \in Nat /\ e.charged \in Nat
      /\ e.arrival \in Nat /\ e.service \in Nat
  BY DEF EdgeFields
<1>2. q \in Nat
  BY <1>1 DEF Positive
<1>3. more(NoEdge) = 0 /\ more(b) \in 0..1
  BY <1>1, NumbersAssumption
<1>4. \A i : Certified(e, i) = Positive(e.capacity + more(i) - e.reserved - e.charged - q)
  BY DEF Certified
<1> HIDE DEF q, more
<1>5. /\ e.capacity + more(b) - e.reserved - e.charged - q = x + more(b)
      /\ e.capacity + more(NoEdge) - e.reserved - e.charged - q = x
      /\ x \in Int
  BY <1>1, <1>2, <1>3
<1> HIDE DEF x
<1>6. Certified(e, b) = Positive(x + more(b)) /\ Certified(e, NoEdge) = Positive(x)
  BY <1>4, <1>5
<1>7. /\ Positive(x + more(b)) \in Nat /\ Positive(x) <= Positive(x + more(b))
      /\ Positive(x + more(b)) <= Positive(x) + more(b)
  BY <1>3, <1>5 DEF Positive
<1> QED BY <1>6, <1>7 DEF more

CertifiedIn(n, b) == [i \in DOMAIN n.edges |-> Certified(n.edges[i], b)]

\* The edges between two nodes are some of the network's.
LEMMA BetweenIs ==
  ASSUME NEW n \in Networks, NEW a
  PROVE  Between(n, a) \subseteq DOMAIN n.edges /\ IsFiniteSet(Between(n, a))
<1>1. Between(n, a) \subseteq DOMAIN n.edges
  BY DEF Between
<1>2. IsFiniteSet(DOMAIN n.edges)
  BY EdgesAre
<1> QED BY <1>1, <1>2, FS_Subset

\* Capacities are natural numbers.
LEMMA CapacitiesAreNumbers ==
  ASSUME NEW n \in Networks, NEW b, NEW t \in Nat
  PROVE  Capacities(n, b, t) \in [Arcs -> Nat]
<1>1. ASSUME NEW a \in Arcs PROVE SumFunctionOnSet(CertifiedIn(n, b), Between(n, a)) \in Nat
  <2>1. Between(n, a) \subseteq DOMAIN n.edges /\ IsFiniteSet(Between(n, a))
    BY BetweenIs
  <2>2. \A i \in Between(n, a) : CertifiedIn(n, b)[i] \in Nat
    BY <2>1, EdgesAre, CertifiedIs DEF CertifiedIn
  <2> QED BY <2>1, <2>2, SumNotNegative
<1>2. Capacities(n, b, t) =
        [a \in Arcs |->
           IF a[1] = Source THEN IF a[2] \in SourceNodes(n) THEN t ELSE 0
           ELSE IF a[2] = Sink THEN IF a[1] \in SinkNodes(n) THEN t ELSE 0
           ELSE SumFunctionOnSet(CertifiedIn(n, b), Between(n, a))]
  BY DEF Capacities, CertifiedIn
<1> QED BY <1>1, <1>2

\* The true bound is a number, never more than the target.
LEMMA TrueBoundIs ==
  ASSUME NEW n \in Networks, NEW b, NEW t \in Nat
  PROVE  /\ TrueBound(n, b, t) \in Nat
         /\ HasFlow(n) => LET m == MinCut(Capacities(n, b, t)) IN
                            /\ m \in Nat
                            /\ TrueBound(n, b, t) = IF t <= m THEN t ELSE m
<1> DEFINE m == MinCut(Capacities(n, b, t))
<1>1. m \in Nat
  BY CapacitiesAreNumbers, MinCutIs
<1>2. TrueBound(n, b, t) = IF HasFlow(n) THEN Least({t, m}) ELSE 0
  BY DEF TrueBound
<1> HIDE DEF m
<1>3. Least({t, m}) = IF t <= m THEN t ELSE m
  BY <1>1, LeastOfTwo
<1> QED BY <1>1, <1>2, <1>3 DEF m

\* The edges of the id i.
Sharing(n, i) == {k \in DOMAIN n.edges : n.edges[k].id = i}

\* One unit more on the edges of an id adds to a cut at most one unit per edge,
\* and takes nothing away.
LEMMA CutsGrowLittle ==
  ASSUME NEW n \in Networks, NEW i, NEW t \in Nat, NEW S \in SUBSET Nodes
  PROVE  LET before == CutCapacity(Capacities(n, NoEdge, t), S \cup {Source})
             after == CutCapacity(Capacities(n, i, t), S \cup {Source}) IN
         /\ Cardinality(Sharing(n, i)) \in Nat
         /\ before <= after /\ after <= before + Cardinality(Sharing(n, i))
<1> DEFINE T == S \cup {Source}
           A == Across(T, Vertices \ T)
           E == DOMAIN n.edges
           c0 == Capacities(n, NoEdge, t)
           c1 == Capacities(n, i, t)
           f0 == CertifiedIn(n, NoEdge)
           f1 == CertifiedIn(n, i)
           one == [k \in E |-> IF n.edges[k].id = i THEN 1 ELSE 0]
           Inner(a) == a[1] # Source /\ a[2] # Sink
           B == [a \in A |-> IF Inner(a) THEN Between(n, a) ELSE {}]
           more == [a \in A |-> SumFunctionOnSet(one, B[a])]
           U == {k \in E : \E a \in A : k \in B[a]}
<1>1. c0 \in [Arcs -> Nat] /\ c1 \in [Arcs -> Nat]
  BY CapacitiesAreNumbers
<1>2. IsFiniteSet(E)
  BY EdgesAre
<1>3. \A k \in E : /\ f0[k] \in Nat /\ f1[k] \in Nat /\ one[k] \in Nat
                   /\ f0[k] <= f1[k] /\ f1[k] <= f0[k] + one[k]
  BY EdgesAre, CertifiedIs DEF CertifiedIn
<1>4. /\ CutCapacity(c0, T) = SumFunctionOnSet(c0, A)
      /\ CutCapacity(c1, T) = SumFunctionOnSet(c1, A)
  BY <1>1, CutsAreNumbers
<1>5. IsFiniteSet(A) /\ A \subseteq Arcs
  <2>1. T \in SUBSET Vertices
    BY DEF Vertices
  <2>2. Vertices \ T \in SUBSET Vertices
    OBVIOUS
  <2> HIDE DEF T
  <2>3. IsFiniteSet(A)
    BY <2>1, <2>2, VerticesAreFinite, ArcsAreFinite
  <2>4. A \subseteq Arcs
    BY <2>1, <2>2 DEF Across, Arcs
  <2> QED BY <2>3, <2>4
<1> HIDE DEF T, A
<1>6. \A a \in A : B[a] \subseteq E /\ IsFiniteSet(B[a])
  <2>1. \A a : Between(n, a) \subseteq E /\ IsFiniteSet(Between(n, a))
    BY BetweenIs
  <2> QED BY <2>1, FS_EmptySet
<1>7. ASSUME NEW a \in A
      PROVE  /\ more[a] \in Nat /\ c0[a] \in Nat /\ c1[a] \in Nat
             /\ c0[a] <= c1[a] /\ c1[a] <= c0[a] + more[a]
  <2>1. c0[a] \in Nat /\ c1[a] \in Nat
    BY <1>1, <1>5
  <2>2. more[a] = SumFunctionOnSet(one, B[a])
    OBVIOUS
  <2>3. B[a] \subseteq E /\ IsFiniteSet(B[a])
    BY <1>6
  <2>4. CASE Inner(a)
    <3>1. B[a] = Between(n, a)
      BY <2>4
    <3>2. c0[a] = SumFunctionOnSet(f0, B[a]) /\ c1[a] = SumFunctionOnSet(f1, B[a])
      BY <1>5, <2>4, <3>1 DEF Capacities, CertifiedIn
    <3> DEFINE h == [k \in E |-> f0[k] + one[k]]
    <3>3. \A k \in B[a] : /\ f0[k] \in Nat /\ f1[k] \in Nat /\ one[k] \in Nat
                          /\ f0[k] <= f1[k] /\ f1[k] <= f0[k] + one[k]
      BY <1>3, <2>3
    <3>4. \A k \in B[a] : h[k] = f0[k] + one[k]
      BY <2>3
    <3> HIDE DEF B, f0, f1, one, c0, c1, h, more
    <3>5. \A k \in B[a] : /\ f0[k] \in Int /\ f1[k] \in Int /\ one[k] \in Int /\ h[k] \in Int
                          /\ f1[k] <= h[k]
      BY <3>3, <3>4
    <3>6. SumFunctionOnSet(f0, B[a]) <= SumFunctionOnSet(f1, B[a])
      BY <2>3, <3>3, <3>5, SumOfLess
    <3>7. SumFunctionOnSet(f1, B[a]) <= SumFunctionOnSet(h, B[a])
      BY <2>3, <3>5, SumOfLess
    <3>8. SumFunctionOnSet(h, B[a]) = SumFunctionOnSet(f0, B[a]) + SumFunctionOnSet(one, B[a])
      BY <2>3, <3>4, <3>5, SumOfPairs
    <3>9. SumFunctionOnSet(one, B[a]) \in Nat
      BY <2>3, <3>3, SumNotNegative
    <3> QED BY <2>1, <2>2, <3>2, <3>6, <3>7, <3>8, <3>9
  <2>5. CASE ~Inner(a)
    <3>1. c0[a] = c1[a]
      BY <1>5, <2>5 DEF Capacities
    <3>2. B[a] = {}
      BY <2>5
    <3>3. more[a] = 0
      BY <2>2, <3>2, SumOfNothing
    <3> HIDE DEF c0, c1, more
    <3> QED BY <2>1, <3>1, <3>3
  <2> QED BY <2>4, <2>5
<1>8. SumFunctionOnSet(more, A) = SumFunctionOnSet(one, U)
  <2>1. \A a \in A : /\ IsFiniteSet(B[a]) /\ (\A k \in B[a] : one[k] \in Int)
                     /\ more[a] = SumFunctionOnSet(one, B[a])
    BY <1>3, <1>6
  <2>2. \A a, b \in A : a # b => B[a] \cap B[b] = {}
    BY DEF Between
  <2>3. \A k : k \in U <=> \E a \in A : k \in B[a]
    BY <1>6
  <2> HIDE DEF U, B, more, one
  <2> QED BY <1>5, <2>1, <2>2, <2>3, SumOfGroups, SMTT(30)
<1>9. SumFunctionOnSet(one, U) <= Cardinality(Sharing(n, i)) /\ Cardinality(Sharing(n, i)) \in Nat
  <2> DEFINE K == Sharing(n, i)
             R == E \ K
  <2>1. U \in SUBSET E /\ K \subseteq E /\ R \subseteq E /\ K \cap R = {} /\ K \cup R = E
    BY DEF Sharing
  <2>2. \A k \in K : one[k] = 1
    BY DEF Sharing
  <2>3. \A k \in R : one[k] = 0
    BY DEF Sharing
  <2> HIDE DEF U, K, R, one, E
  <2>4. SumFunctionOnSet(one, U) <= SumFunctionOnSet(one, E)
    BY <1>2, <1>3, <2>1, SumOfPart
  <2>5. IsFiniteSet(K)
    BY <1>2, <2>1, FS_Subset
  <2>6. IsFiniteSet(R)
    BY <1>2, <2>1, FS_Subset
  <2>7. SumFunctionOnSet(one, K \cup R) = SumFunctionOnSet(one, K) + SumFunctionOnSet(one, R)
    BY <1>3, <2>1, <2>5, <2>6, SumOfUnion
  <2>8. SumFunctionOnSet(one, K) = Cardinality(K)
    BY <2>2, <2>5, SumOfOnes
  <2>9. SumFunctionOnSet(one, R) = 0
    BY <2>3, <2>6, SumOfZeros
  <2>10. Cardinality(K) \in Nat
    BY <2>5, FS_CardinalityType
  <2>11. SumFunctionOnSet(one, E) = SumFunctionOnSet(one, K) + SumFunctionOnSet(one, R)
    BY <2>1, <2>7
  <2> QED BY <2>4, <2>8, <2>9, <2>10, <2>11 DEF K
<1>10. SumFunctionOnSet(c0, A) <= SumFunctionOnSet(c1, A)
  <2> HIDE DEF c0, c1, more
  <2>1. \A a \in A : c0[a] \in Int /\ c1[a] \in Int /\ c0[a] <= c1[a]
    BY <1>7
  <2> QED BY <1>5, <2>1, SumOfLess
<1>11. SumFunctionOnSet(c1, A) <= SumFunctionOnSet(c0, A) + SumFunctionOnSet(more, A)
  <2> DEFINE h == [a \in A |-> c0[a] + more[a]]
  <2>1. \A a \in A : h[a] = c0[a] + more[a]
    OBVIOUS
  <2> HIDE DEF c0, c1, more, h
  <2>2. \A a \in A : /\ c0[a] \in Int /\ c1[a] \in Int /\ more[a] \in Int /\ h[a] \in Int
                     /\ c1[a] <= h[a]
    BY <1>7, <2>1
  <2>3. SumFunctionOnSet(c1, A) <= SumFunctionOnSet(h, A)
    BY <1>5, <2>2, SumOfLess
  <2>4. SumFunctionOnSet(h, A) = SumFunctionOnSet(c0, A) + SumFunctionOnSet(more, A)
    BY <1>5, <2>1, <2>2, SumOfPairs
  <2> QED BY <2>3, <2>4
<1>12. SumFunctionOnSet(c0, A) \in Nat /\ SumFunctionOnSet(c1, A) \in Nat
  <2> HIDE DEF c0, c1, more
  <2>1. \A a \in A : c0[a] \in Nat /\ c1[a] \in Nat
    BY <1>7
  <2> QED BY <1>5, <2>1, SumNotNegative
<1>13. SumFunctionOnSet(more, A) \in Nat
  <2> HIDE DEF c0, c1, more
  <2>1. \A a \in A : more[a] \in Nat
    BY <1>7
  <2> QED BY <1>5, <2>1, SumNotNegative
<1>14. CutCapacity(c0, T) <= CutCapacity(c1, T)
  BY <1>4, <1>10
<1>15. CutCapacity(c1, T) <= CutCapacity(c0, T) + Cardinality(Sharing(n, i))
  <2> HIDE DEF c0, c1, more, one, U
  <2> QED BY <1>4, <1>8, <1>9, <1>11, <1>12, <1>13
<1> QED BY <1>9, <1>14, <1>15 DEF T

\* So the minimum cut grows by no more, and neither does the true bound.
LEMMA MarginsAreSmall ==
  ASSUME NEW n \in Networks, NEW i, NEW t \in Nat
  PROVE  /\ Cardinality(Sharing(n, i)) \in Nat
         /\ TrueBound(n, i, t) - TrueBound(n, NoEdge, t) \in 0..Cardinality(Sharing(n, i))
<1> DEFINE c0 == Capacities(n, NoEdge, t)
           c1 == Capacities(n, i, t)
           K == Cardinality(Sharing(n, i))
           x0 == TrueBound(n, NoEdge, t)
           x1 == TrueBound(n, i, t)
<1>1. c0 \in [Arcs -> Nat] /\ c1 \in [Arcs -> Nat]
  BY CapacitiesAreNumbers
<1>2. ASSUME NEW S \in SUBSET Nodes
      PROVE  /\ K \in Nat
             /\ CutCapacity(c0, S \cup {Source}) \in Nat /\ CutCapacity(c1, S \cup {Source}) \in Nat
             /\ CutCapacity(c0, S \cup {Source}) <= CutCapacity(c1, S \cup {Source})
             /\ CutCapacity(c1, S \cup {Source}) <= CutCapacity(c0, S \cup {Source}) + K
  BY <1>1, CutsGrowLittle, CutsAreNumbers
<1>3. K \in Nat
  BY <1>2
<1>4. x0 \in Nat /\ x1 \in Nat
  BY TrueBoundIs
<1>5. /\ MinCut(c0) \in Nat
      /\ \E S \in SUBSET Nodes : MinCut(c0) = CutCapacity(c0, S \cup {Source})
      /\ \A S \in SUBSET Nodes : MinCut(c0) <= CutCapacity(c0, S \cup {Source})
  BY <1>1, MinCutIs
<1>6. /\ MinCut(c1) \in Nat
      /\ \E S \in SUBSET Nodes : MinCut(c1) = CutCapacity(c1, S \cup {Source})
      /\ \A S \in SUBSET Nodes : MinCut(c1) <= CutCapacity(c1, S \cup {Source})
  BY <1>1, MinCutIs
<1>7. HasFlow(n) => /\ x0 = IF t <= MinCut(c0) THEN t ELSE MinCut(c0)
                    /\ x1 = IF t <= MinCut(c1) THEN t ELSE MinCut(c1)
  BY TrueBoundIs
<1>8. ~HasFlow(n) => x0 = 0 /\ x1 = 0
  BY DEF TrueBound
<1> HIDE DEF c0, c1, K, x0, x1
<1>9. MinCut(c0) <= MinCut(c1)
  <2>1. PICK S \in SUBSET Nodes : MinCut(c1) = CutCapacity(c1, S \cup {Source})
    BY <1>6
  <2>2. MinCut(c0) <= CutCapacity(c0, S \cup {Source})
    BY <1>5
  <2>3. CutCapacity(c0, S \cup {Source}) \in Nat
        /\ CutCapacity(c0, S \cup {Source}) <= CutCapacity(c1, S \cup {Source})
    BY <1>2
  <2>4. MinCut(c0) \in Nat /\ MinCut(c1) \in Nat
    BY <1>5, <1>6
  <2> QED BY <2>1, <2>2, <2>3, <2>4
<1>10. MinCut(c1) <= MinCut(c0) + K
  <2>1. PICK S \in SUBSET Nodes : MinCut(c0) = CutCapacity(c0, S \cup {Source})
    BY <1>5
  <2>2. MinCut(c1) <= CutCapacity(c1, S \cup {Source})
    BY <1>6
  <2>3. /\ K \in Nat /\ CutCapacity(c1, S \cup {Source}) \in Nat
        /\ CutCapacity(c1, S \cup {Source}) <= CutCapacity(c0, S \cup {Source}) + K
    BY <1>2
  <2>4. MinCut(c0) \in Nat /\ MinCut(c1) \in Nat
    BY <1>5, <1>6
  <2> QED BY <2>1, <2>2, <2>3, <2>4
<1>11. x1 - x0 \in 0..K
  BY <1>3, <1>4, <1>5, <1>6, <1>7, <1>8, <1>9, <1>10
<1> QED BY <1>3, <1>11 DEF K, x0, x1

----------------------------------------------------------------------------
(* The invariant is inductive                                              *)

\* It holds before anything is computed.
LEMMA InitIsGood == Init => IInv
<1> SUFFICES ASSUME Init PROVE IInv
  OBVIOUS
<1>1. net \in Networks /\ proposals = <<>> /\ scores = <<>> /\ Units \in Nat
  BY NumbersAssumption DEF Init
<1>2. Len(proposals) = 0 /\ DOMAIN proposals = {} /\ DOMAIN scores = {}
  BY <1>1
<1>3. TypeOK
  <2>1. residual \in [Arcs -> Int]
    BY DEF Init
  <2>2. proposals \in Seq(DOMAIN net.edges)
    BY <1>1
  <2>3. /\ target \in Targets /\ pc = "build" /\ bump = NoEdge /\ total = 0 /\ base = 0
    BY DEF Init
  <2> QED BY <1>1, <1>2, <2>1, <2>2, <2>3 DEF TypeOK
<1>4. FlowInv
  BY DEF Init, FlowInv
<1>5. ScoreInv
  BY <1>2 DEF Init, ScoreInv
<1>6. ProposalInv
  BY <1>1, <1>2 DEF Init, ProposalInv
<1> QED BY <1>3, <1>4, <1>5, <1>6 DEF IInv

\* What the bound of a network leads to.
LEMMA ConcludeIsGood ==
  ASSUME IInv, pc \in {"build", "flow"}, NEW bound, bound = TrueBound(net, bump, target),
         Conclude(bound), flow' = flow
  PROVE  IInv'
<1> DEFINE known == IF bump = NoEdge THEN scores
                    ELSE [i \in DOMAIN scores \cup {bump} |->
                            IF i = bump THEN bound - base ELSE scores[i]]
           left == {i \in DOMAIN net.edges : net.edges[i].id \notin DOMAIN known}
<1>1. /\ scores' = known /\ base' = IF bump = NoEdge THEN bound ELSE base
      /\ pc' = IF left = {} THEN "scored" ELSE "build"
      /\ bump' = IF left = {} THEN NoEdge ELSE net.edges[Least(left)].id
      /\ net' = net /\ target' = target /\ proposals' = proposals
  BY DEF Conclude
<1>2. /\ residual' = residual /\ total' = total
  BY DEF flow
<1>3. TypeOK /\ ScoreInv /\ ProposalInv /\ net \in Networks /\ target \in Nat
  BY NumbersAssumption DEF IInv, TypeOK
<1>4. /\ TrueBound(net, NoEdge, target) \in Nat
      /\ \A i : TrueBound(net, i, target) \in Nat
  BY <1>3, TrueBoundIs
<1>5. \A i \in DOMAIN net.edges : net.edges[i].id \in Ids /\ net.edges[i].id # NoEdge
  BY <1>3, EdgesAre, NumbersAssumption
<1>6. EdgeIds(net) \subseteq Ids /\ NoEdge \notin EdgeIds(net)
  BY <1>5 DEF EdgeIds
<1>7. bump # NoEdge => bump \in EdgeIds(net) /\ base = TrueBound(net, NoEdge, target)
  BY <1>3 DEF ScoreInv
<1>8. base' = TrueBound(net, NoEdge, target) /\ base' \in Nat
  BY <1>1, <1>4, <1>7
<1>9. DOMAIN known \subseteq EdgeIds(net)
  BY <1>3, <1>7 DEF ScoreInv
<1>10. \A i \in DOMAIN known :
         known[i] = TrueBound(net, i, target) - TrueBound(net, NoEdge, target)
  <2>1. \A i \in DOMAIN scores :
          scores[i] = TrueBound(net, i, target) - TrueBound(net, NoEdge, target)
    BY <1>3 DEF ScoreInv
  <2> QED BY <1>7, <2>1
<1> HIDE DEF known
<1>11. left # {} => Least(left) \in left
  <2>1. left \subseteq Nat
    BY <1>3, EdgesAre
  <2> HIDE DEF left
  <2> QED BY <2>1, LeastIs
<1>12. left # {} => bump' \in EdgeIds(net)
  BY <1>1, <1>11 DEF EdgeIds
<1>13. bump' \in EdgeIds(net) \cup {NoEdge}
  BY <1>1, <1>12
<1>14. left = {} => EdgeIds(net) \subseteq DOMAIN known
  BY DEF EdgeIds
<1> HIDE DEF left
<1>15. TypeOK'
  <2>1. DOMAIN scores' \subseteq Ids /\ \A i \in DOMAIN scores' : scores'[i] \in Int
    BY <1>1, <1>4, <1>6, <1>9, <1>10
  <2> QED BY <1>1, <1>2, <1>3, <1>6, <1>8, <1>13, <2>1 DEF TypeOK
<1>16. FlowInv'
  BY <1>1 DEF FlowInv
<1>17. ScoreInv'
  <2>1. pc' \in {"scored", "done"} => DOMAIN scores' = EdgeIds(net)
    BY <1>1, <1>9, <1>14
  <2>2. /\ TrueBound(net, NoEdge, target)' = TrueBound(net, NoEdge, target)
        /\ EdgeIds(net)' = EdgeIds(net)
        /\ \A i : TrueBound(net', i, target') = TrueBound(net, i, target)
    BY <1>1
  <2> QED BY <1>1, <1>8, <1>9, <1>10, <1>13, <2>1, <2>2 DEF ScoreInv
<1>18. ProposalInv'
  <2>1. proposals = <<>> /\ Len(proposals) <= Units
    BY <1>3 DEF ProposalInv
  <2>2. DOMAIN proposals' = {} /\ proposals' = <<>> /\ Len(proposals') <= Units /\ pc' # "done"
    BY <1>1, <2>1
  <2> QED BY <2>2 DEF ProposalInv
<1> QED BY <1>15, <1>16, <1>17, <1>18 DEF IInv

\* A new flow starts empty; a network that carries nothing is done.
LEMMA BuildIsGood ==
  ASSUME IInv, Build PROVE IInv'
<1>1. /\ TypeOK /\ ScoreInv /\ ProposalInv /\ net \in Networks /\ target \in Nat
      /\ pc = "build"
  BY NumbersAssumption DEF IInv, TypeOK, Build
<1>2. CASE HasFlow(net)
  <2> DEFINE c == Capacities(net, bump, target)
  <2>1. /\ residual' = c /\ total' = 0 /\ pc' = "flow"
        /\ UNCHANGED <<net, target, bump, base, scores, proposals>>
    BY <1>2 DEF Build
  <2>2. c \in [Arcs -> Nat]
    BY <1>1, CapacitiesAreNumbers
  <2>3. c' = c /\ HasFlow(net)'
    BY <1>2, <2>1
  <2>4. FlowInv'
    <3> HIDE DEF c
    <3>1. c \in [Across(Vertices, Vertices) -> Int]
      BY <2>2, ArcsAre
    <3>2. Residual(c, c, 0)
      BY <3>1, VerticesAreFinite, NothingFlows DEF Residual
    <3>3. Residual(c', residual', total')
      BY <2>1, <2>3, <3>2
    <3> QED BY <2>3, <3>3 DEF FlowInv, c
  <2>5. TypeOK'
    <3> HIDE DEF c
    <3>1. c \in [Arcs -> Int]
      BY <2>2
    <3> QED BY <1>1, <2>1, <3>1 DEF TypeOK
  <2>6. ScoreInv'
    BY <1>1, <2>1 DEF ScoreInv
  <2>7. ProposalInv'
    BY <1>1, <2>1 DEF ProposalInv, Gain
  <2> QED BY <2>4, <2>5, <2>6, <2>7 DEF IInv
<1>3. CASE ~HasFlow(net)
  <2>1. Conclude(0) /\ flow' = flow
    BY <1>3 DEF Build, flow
  <2>2. TrueBound(net, bump, target) = 0
    BY <1>3 DEF TrueBound
  <2> QED BY <1>1, <2>1, <2>2, ConcludeIsGood
<1> QED BY <1>2, <1>3

\* A push sends more through the same capacities.
LEMMA AugmentIsGood ==
  ASSUME IInv, Augment PROVE IInv'
<1> DEFINE c == Capacities(net, bump, target)
<1>1. /\ TypeOK /\ ScoreInv /\ ProposalInv /\ FlowInv /\ net \in Networks /\ target \in Nat
      /\ total \in Nat /\ pc = "flow" /\ Augmentable(residual)
      /\ UNCHANGED <<net, target, pc, bump, base, scores, proposals>>
  BY NumbersAssumption DEF IInv, TypeOK, Augment
<1>2. PICK p \in ShortestPaths(residual) :
        /\ residual' = Pushed(residual, p, Bottleneck(residual, p))
        /\ total' = total + Bottleneck(residual, p)
  BY DEF Augment
<1>3. c \in [Arcs -> Nat] /\ c' = c
  BY <1>1, CapacitiesAreNumbers
<1>4. HasFlow(net) /\ Residual(c, residual, total)
  BY <1>1 DEF FlowInv
<1> HIDE DEF c
<1>5. Bottleneck(residual, p) \in Nat /\ Residual(c, residual', total')
  <2>1. /\ Bottleneck(residual, p) \in Nat
        /\ Residual(c, Pushed(residual, p, Bottleneck(residual, p)),
                      total + Bottleneck(residual, p))
    BY <1>1, <1>3, <1>4, PushKeepsFlow
  <2> QED BY <1>2, <2>1
<1>6. TypeOK'
  <2>1. residual' \in [Arcs -> Int] /\ total' \in Nat
    BY <1>1, <1>2, <1>5, ArcsAre DEF Residual, IsResidual
  <2> QED BY <1>1, <2>1 DEF TypeOK
<1>7. FlowInv'
  <2>1. Residual(c', residual', total') /\ HasFlow(net)'
    BY <1>1, <1>3, <1>4, <1>5
  <2> QED BY <2>1 DEF FlowInv, c
<1>8. ScoreInv'
  BY <1>1 DEF ScoreInv
<1>9. ProposalInv'
  BY <1>1 DEF ProposalInv, Gain
<1> QED BY <1>6, <1>7, <1>8, <1>9 DEF IInv

\* A saturated network has reached its true bound.
LEMMA SaturatedIsGood ==
  ASSUME IInv, Saturated PROVE IInv'
<1> DEFINE c == Capacities(net, bump, target)
<1>1. /\ TypeOK /\ FlowInv /\ net \in Networks /\ target \in Nat /\ total \in Nat
      /\ pc = "flow" /\ ~Augmentable(residual)
      /\ Conclude(Least({target, total})) /\ flow' = flow
  BY NumbersAssumption DEF IInv, TypeOK, Saturated, flow
<1>2. c \in [Arcs -> Nat]
  BY <1>1, CapacitiesAreNumbers
<1>3. HasFlow(net) /\ Residual(c, residual, total)
  BY <1>1 DEF FlowInv
<1>4. total = MinCut(c)
  <2> HIDE DEF c
  <2> QED BY <1>1, <1>2, <1>3, SaturatedIsMinCut
<1>5. Least({target, total}) = TrueBound(net, bump, target)
  BY <1>3, <1>4 DEF TrueBound
<1> QED BY <1>1, <1>5, ConcludeIsGood

\* The best edge left is no better than those proposed before.
LEMMA ProposeIsGood ==
  ASSUME IInv, Propose PROVE IInv'
<1>1. /\ TypeOK /\ ScoreInv /\ ProposalInv /\ pc = "scored" /\ net \in Networks
      /\ Len(proposals) < Units /\ Units \in Nat /\ proposals \in Seq(DOMAIN net.edges)
      /\ UNCHANGED <<net, target, pc, bump, flow, base, scores>>
  BY NumbersAssumption DEF IInv, TypeOK, Propose
<1>2. PICK i \in Proposable :
        /\ \A j \in Proposable : scores[net.edges[j].id] <= scores[net.edges[i].id]
        /\ proposals' = Append(proposals, i)
  BY DEF Propose
<1>3. /\ i \in DOMAIN net.edges /\ Gain(i) > 0
      /\ \A k \in DOMAIN proposals : proposals[k] # i
  BY DEF Proposable, Gain
<1>4. \A j \in DOMAIN net.edges : Gain(j) \in Int
  <2>1. DOMAIN scores = EdgeIds(net) /\ \A x \in DOMAIN scores : scores[x] \in Int
    BY <1>1 DEF ScoreInv, TypeOK
  <2> QED BY <2>1 DEF Gain, EdgeIds
<1>5. \A j \in DOMAIN net.edges :
        (\A k \in DOMAIN proposals : proposals[k] # j) => Gain(j) <= Gain(i)
  <2> SUFFICES ASSUME NEW j \in DOMAIN net.edges, \A k \in DOMAIN proposals : proposals[k] # j
               PROVE  Gain(j) <= Gain(i)
    OBVIOUS
  <2>1. Gain(j) > 0 => j \in Proposable
    BY DEF Proposable, Gain
  <2>2. j \in Proposable => Gain(j) <= Gain(i)
    BY <1>2 DEF Gain
  <2>3. Gain(j) \in Int /\ Gain(i) \in Int
    BY <1>3, <1>4
  <2> QED BY <1>3, <2>1, <2>2, <2>3
<1> DEFINE m == Len(proposals)
           q == Append(proposals, i)
<1>6. /\ m \in Nat /\ DOMAIN proposals = 1..m /\ q \in Seq(DOMAIN net.edges)
      /\ Len(q) = m + 1 /\ DOMAIN q = 1..(m + 1)
      /\ q[m + 1] = i /\ \A k \in 1..m : q[k] = proposals[k]
  BY <1>1, <1>3
<1>7. /\ \A k, l \in DOMAIN proposals : proposals[k] = proposals[l] => k = l
      /\ \A k \in DOMAIN proposals : Gain(proposals[k]) > 0
      /\ \A j \in DOMAIN net.edges :
           (\A k \in DOMAIN proposals : proposals[k] # j) =>
             \A k \in DOMAIN proposals : Gain(j) <= Gain(proposals[k])
  BY <1>1 DEF ProposalInv
<1>8. proposals' = q
  BY <1>2
<1>9. Len(q) <= Units
  BY <1>1, <1>6
<1> HIDE DEF q, m
<1>10. \A k \in DOMAIN q : k \in 1..m \/ k = m + 1
  BY <1>6
<1>11. \A k, l \in DOMAIN q : q[k] = q[l] => k = l
  <2>1. \A k, l \in 1..m : q[k] = q[l] => k = l
    BY <1>6, <1>7
  <2>2. \A k \in 1..m : q[k] # i
    BY <1>3, <1>6
  <2> QED BY <1>6, <1>10, <2>1, <2>2
<1>12. \A k \in DOMAIN q : Gain(q[k]) > 0
  BY <1>3, <1>6, <1>7, <1>10
<1>13. ASSUME NEW j \in DOMAIN net.edges, \A k \in DOMAIN q : q[k] # j, NEW k \in DOMAIN q
       PROVE  Gain(j) <= Gain(q[k])
  <2>1. \A l \in DOMAIN proposals : proposals[l] # j
    <3>1. \A l \in 1..m : l \in DOMAIN q
      BY <1>6
    <3> QED BY <1>6, <1>13, <3>1
  <2>2. CASE k = m + 1
    BY <1>5, <1>6, <2>1, <2>2
  <2>3. CASE k \in 1..m
    BY <1>6, <1>7, <2>1, <2>3
  <2> QED BY <1>10, <2>2, <2>3
<1>14. TypeOK'
  BY <1>1, <1>6, <1>8 DEF TypeOK, flow
<1>15. FlowInv' /\ ScoreInv'
  BY <1>1 DEF FlowInv, ScoreInv
<1>16. ProposalInv'
  <2>1. pc' = "scored" /\ net' = net /\ scores' = scores
    BY <1>1
  <2> QED BY <1>8, <1>9, <1>11, <1>12, <1>13, <2>1 DEF ProposalInv, Gain
<1> QED BY <1>14, <1>15, <1>16 DEF IInv

\* Nothing changes in the end.
LEMMA FinishIsGood ==
  ASSUME IInv, Finish PROVE IInv'
<1>1. /\ TypeOK /\ ScoreInv /\ ProposalInv /\ pc = "scored" /\ pc' = "done"
      /\ Len(proposals) >= Units \/ Proposable = {}
      /\ UNCHANGED <<net, target, bump, flow, base, scores, proposals>>
  BY DEF IInv, Finish
<1>2. TypeOK'
  BY <1>1 DEF TypeOK, flow
<1>3. FlowInv' /\ ScoreInv'
  BY <1>1 DEF FlowInv, ScoreInv
<1>4. ProposalInv'
  <2>1. Proposable' = Proposable
    BY <1>1 DEF Proposable
  <2> QED BY <1>1, <2>1 DEF ProposalInv, Gain
<1> QED BY <1>2, <1>3, <1>4 DEF IInv

\* Every step keeps the invariant.
LEMMA StepsAreGood == IInv /\ [Next]_vars => IInv'
<1> SUFFICES ASSUME IInv, [Next]_vars PROVE IInv'
  OBVIOUS
<1>1. CASE Build
  BY <1>1, BuildIsGood
<1>2. CASE Augment
  BY <1>2, AugmentIsGood
<1>3. CASE Saturated
  BY <1>3, SaturatedIsGood
<1>4. CASE Propose
  BY <1>4, ProposeIsGood
<1>5. CASE Finish
  BY <1>5, FinishIsGood
<1>6. CASE UNCHANGED vars
  <2>1. TypeOK' /\ FlowInv' /\ ScoreInv'
    BY <1>6 DEF IInv, TypeOK, FlowInv, ScoreInv, vars, flow
  <2>2. ProposalInv'
    <3>1. Proposable' = Proposable
      BY <1>6 DEF Proposable, vars
    <3> QED BY <1>6, <3>1 DEF IInv, ProposalInv, Gain, vars
  <2> QED BY <2>1, <2>2 DEF IInv
<1> QED BY <1>1, <1>2, <1>3, <1>4, <1>5, <1>6 DEF Next

\* The invariant of the light profile's numbers.
LEMMA InvariantHolds == Spec => []IInv
BY InitIsGood, StepsAreGood, PTL DEF Spec

----------------------------------------------------------------------------
(* Theorems                                                                *)

\* The numbers keep their types: no negative total or base, no score of an
\* unknown edge.
THEOREM TypeCorrectness == Spec => []TypeOK
<1>1. IInv => TypeOK
  BY DEF IInv
<1> QED BY <1>1, InvariantHolds, PTL

\* After every augmentation of _max_flow, along whichever shortest path, the
\* residuals are what a flow of total units leaves of the certified capacities.
THEOREM ResidualStaysFlow == Spec => []ResidualIsAFlow
<1>1. IInv => ResidualIsAFlow
  <2> SUFFICES ASSUME IInv, pc = "flow" PROVE ResidualIsAFlow
    BY DEF ResidualIsAFlow
  <2> DEFINE c == Capacities(net, bump, target)
             s == Sent(Vertices, c, residual)
  <2>1. net \in Networks /\ target \in Nat /\ total \in Nat /\ Residual(c, residual, total)
    BY NumbersAssumption DEF IInv, TypeOK, FlowInv
  <2>2. /\ \A a \in Arcs : residual[a] >= 0
        /\ IsFlow(Vertices, Source, Sink, s, total)
    <3>1. c \in [Arcs -> Nat]
      BY <2>1, CapacitiesAreNumbers
    <3>2. /\ residual \in [Arcs -> Int] /\ IsFlow(Vertices, Source, Sink, s, total)
          /\ \A a \in Arcs : residual[a] >= 0 \/ residual[a] >= c[a]
      BY <2>1, ArcsAre DEF Residual, IsResidual
    <3> HIDE DEF c, s
    <3> QED BY <3>1, <3>2
  <2>3. \A a \in Arcs : a[1] # a[2] => s[a] = -s[Reversed(a)]
    <3> SUFFICES ASSUME NEW u \in Vertices, NEW v \in Vertices, u # v
                 PROVE  s[<<u, v>>] = -s[<<v, u>>]
      BY DEF Arcs, Reversed
    <3> HIDE DEF s
    <3> QED BY <2>2 DEF IsFlow
  <2>4. \A v \in Nodes : SumFunctionOnSet(s, {v} \X (Vertices \ {v})) = 0
    <3> SUFFICES ASSUME NEW v \in Nodes PROVE SumFunctionOnSet(s, Row(Vertices, v)) = 0
      BY DEF Row, Across
    <3>1. v \in Vertices /\ v # Source /\ v # Sink
      BY NamesAssumption DEF Vertices
    <3> HIDE DEF s
    <3> QED BY <2>2, <3>1 DEF IsFlow
  <2>5. SumFunctionOnSet(s, {Source} \X (Vertices \ {Source})) = total
    <3>1. SumFunctionOnSet(s, Row(Vertices, Source)) = total
      <4> HIDE DEF s
      <4> QED BY <2>2 DEF IsFlow
    <3> QED BY <3>1 DEF Row, Across
  <2>6. s = [a \in Arcs |-> c[a] - residual[a]]
    BY ArcsAre DEF Sent
  <2> HIDE DEF s, c
  <2> QED BY <2>2, <2>3, <2>4, <2>5, <2>6 DEF ResidualIsAFlow, c
<1> QED BY <1>1, InvariantHolds, PTL

\* The lower bound of an analysed network is its minimum cut, or the target
\* when that is less.
THEOREM BoundIsExact == Spec => []BoundIsMinCut
<1>1. IInv => BoundIsMinCut
  BY DEF IInv, ScoreInv, BoundIsMinCut
<1> QED BY <1>1, InvariantHolds, PTL

\* The score of an edge is what a unit more on its id adds to the true bound:
\* nothing is lost, and at most one unit per edge of that id is won.
THEOREM ScoresAreGains == Spec => []ScoresAreMarginal
<1>1. IInv => ScoresAreMarginal
  <2> SUFFICES ASSUME IInv, pc = "scored", NEW i \in DOMAIN scores
               PROVE  /\ scores[i] = TrueBound(net, i, target) - TrueBound(net, NoEdge, target)
                      /\ scores[i] \in 0..Copies(i)
    BY DEF ScoresAreMarginal
  <2>1. net \in Networks /\ target \in Nat
    BY NumbersAssumption DEF IInv, TypeOK
  <2>2. scores[i] = TrueBound(net, i, target) - TrueBound(net, NoEdge, target)
    BY DEF IInv, ScoreInv
  <2>3. Copies(i) = Cardinality(Sharing(net, i))
    BY DEF Copies, Sharing
  <2> QED BY <2>1, <2>2, <2>3, MarginsAreSmall
<1> QED BY <1>1, InvariantHolds, PTL

\* The optimizer's proposals gain, name every edge once, stay within the budget,
\* and leave no better edge out; budget is left only when nothing gains.
THEOREM ProposalsStayBest == Spec => []ProposalsAreBest
<1>1. IInv => ProposalsAreBest
  <2> SUFFICES ASSUME IInv, pc = "done" PROVE ProposalsAreBest
    BY DEF ProposalsAreBest
  <2> DEFINE chosen == {proposals[k] : k \in DOMAIN proposals}
  <2>1. /\ TypeOK /\ ScoreInv /\ ProposalInv /\ Units \in Nat
        /\ proposals \in Seq(DOMAIN net.edges)
    BY NumbersAssumption DEF IInv, TypeOK
  <2>2. Len(proposals) \in Nat /\ DOMAIN proposals = 1..Len(proposals)
    BY <2>1
  <2>3. \A k, l \in DOMAIN proposals : proposals[k] = proposals[l] => k = l
    BY <2>1 DEF ProposalInv
  <2>4. Cardinality(chosen) = Len(proposals)
    <3>1. proposals \in Bijection(1..Len(proposals), chosen)
      <4>1. proposals \in [1..Len(proposals) -> chosen]
        BY <2>1, <2>2
      <4> QED BY <2>2, <2>3, <4>1 DEF Bijection, Injection, Surjection, IsInjective
    <3>2. IsFiniteSet(1..Len(proposals)) /\ Cardinality(1..Len(proposals)) = Len(proposals)
      <4> DEFINE m == Len(proposals)
      <4>1. m \in Nat
        BY <2>2
      <4> HIDE DEF m
      <4>2. IsFiniteSet(1..m) /\ Cardinality(1..m) = IF 1 > m THEN 0 ELSE m - 1 + 1
        BY <4>1, FS_Interval
      <4>3. Cardinality(1..m) = m
        BY <4>1, <4>2
      <4> QED BY <4>2, <4>3 DEF m
    <3>3. ExistsBijection(1..Len(proposals), chosen)
      BY <3>1 DEF ExistsBijection
    <3> HIDE DEF chosen
    <3> QED BY <3>2, <3>3, FS_Bijection
  <2>5. \A j \in DOMAIN net.edges : Gain(j) \in Int
    <3>1. DOMAIN scores = EdgeIds(net) /\ \A x \in DOMAIN scores : scores[x] \in Int
      BY <2>1 DEF ScoreInv, TypeOK
    <3> QED BY <3>1 DEF Gain, EdgeIds
  <2>6. ASSUME NEW i \in chosen PROVE Gain(i) > 0
    BY <2>1 DEF ProposalInv
  <2>7. ASSUME NEW j \in DOMAIN net.edges \ chosen
        PROVE  \A k \in DOMAIN proposals : proposals[k] # j
    OBVIOUS
  <2>8. ASSUME NEW j \in DOMAIN net.edges \ chosen, NEW i \in chosen
        PROVE  Gain(j) <= Gain(i)
    BY <2>1, <2>7 DEF ProposalInv
  <2>9. ASSUME NEW j \in DOMAIN net.edges \ chosen, Len(proposals) < Units
        PROVE  Gain(j) <= 0
    <3>1. Proposable = {}
      BY <2>1, <2>2, <2>9 DEF ProposalInv
    <3>2. ~(Gain(j) > 0)
      BY <2>7, <3>1 DEF Proposable, Gain
    <3> QED BY <2>5, <3>2
  <2>10. Len(proposals) <= Units
    BY <2>1 DEF ProposalInv
  <2> HIDE DEF chosen
  <2> QED BY <2>4, <2>6, <2>8, <2>9, <2>10 DEF ProposalsAreBest, Gain, chosen
<1> QED BY <1>1, InvariantHolds, PTL
=============================================================================
