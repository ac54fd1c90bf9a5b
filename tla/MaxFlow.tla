------------------------------- MODULE MaxFlow -------------------------------
(***************************************************************************)
(* The numbers of the light profile (adapters/deterministic_analyzer.py):  *)
(* the lower bound of a network is the maximum flow through the certified  *)
(* capacities of its edges, found by shortest augmenting paths; the score  *)
(* of an edge is what one more unit of its capacity would add; the         *)
(* optimizer proposes the edges with the best scores.                      *)
(*                                                                         *)
(* One augmentation is one step.  The path the breadth-first search finds  *)
(* depends on the order of a dictionary; here it is any shortest one.      *)
(***************************************************************************)
EXTENDS FlowGraph

CONSTANTS
  Networks,  \* networks: nodes, edges, declared sources and sinks
  Targets,   \* target values
  Units,     \* investment budget
  Ids,       \* edge ids
  NoEdge,    \* no edge is perturbed
  MaxStep    \* 10**18 in the code: what one augmentation carries at most

EdgeFields ==
  [id : Ids, from : Nodes, to : Nodes, capacity : Nat, reserved : Nat,
   charged : Nat, arrival : Nat, service : Nat]

ASSUME NetworksAssumption ==
  \A n \in Networks :
    /\ n.nodes \subseteq Nodes /\ n.sources \subseteq Nodes /\ n.sinks \subseteq Nodes
    /\ n.edges \in Seq(EdgeFields)

ASSUME NumbersAssumption ==
  Targets \subseteq Nat /\ Units \in Nat /\ MaxStep \in Nat \ {0} /\ NoEdge \notin Ids

VARIABLES
  net,        \* the network
  target,     \* the target value
  pc,         \* "build", "flow", "scored" or "done"
  bump,       \* the edge id whose capacity is raised by one, or NoEdge
  residual,   \* residual[<<u, v>>]: capacity left from u to v
  total,      \* flow sent so far
  base,       \* the lower bound
  scores,     \* the scores found so far, by edge id
  proposals   \* edges proposed for investment: places in net.edges

flow == <<residual, total>>
vars == <<net, target, pc, bump, flow, base, scores, proposals>>

----------------------------------------------------------------------------
(* Networks                                                                *)

\* certified_capacity of an edge; every edge of the id b has one unit more.
Certified(e, b) ==
  Positive(e.capacity + (IF e.id = b THEN 1 ELSE 0)
           - e.reserved - e.charged - Positive(e.arrival - e.service))

Tails(n) == {n.edges[i].from : i \in DOMAIN n.edges}
Heads(n) == {n.edges[i].to : i \in DOMAIN n.edges}

\* Declared sources and sinks, or the nodes that no edge enters or leaves.
SourceNodes(n) == IF n.sources # {} THEN n.sources ELSE Tails(n) \ Heads(n)
SinkNodes(n) == IF n.sinks # {} THEN n.sinks ELSE Heads(n) \ Tails(n)

HasFlow(n) == n.edges # <<>> /\ SourceNodes(n) # {} /\ SinkNodes(n) # {}

\* Parallel edges add up; an edge that names an unknown node does not count;
\* the source and the sink are tied to the network by arcs of the target value.
Between(n, a) ==
  {i \in DOMAIN n.edges :
     <<n.edges[i].from, n.edges[i].to>> = a /\ {a[1], a[2]} \subseteq n.nodes}

Capacities(n, b, t) ==
  [a \in Arcs |->
     IF a[1] = Source THEN IF a[2] \in SourceNodes(n) THEN t ELSE 0
     ELSE IF a[2] = Sink THEN IF a[1] \in SinkNodes(n) THEN t ELSE 0
     ELSE SumFunctionOnSet([i \in DOMAIN n.edges |-> Certified(n.edges[i], b)],
                           Between(n, a))]

----------------------------------------------------------------------------
(* Augmentations                                                           *)

\* Variant: the first arc decides.
FirstArc(r, p) == Least({r[<<p[1], p[2]>>], MaxStep})

Bottleneck(r, p) == Least({r[a] : a \in ArcsOf(p)} \cup {MaxStep})

----------------------------------------------------------------------------
Init ==
  /\ net \in Networks
  /\ target \in Targets
  /\ pc = "build"
  /\ bump = NoEdge
  /\ residual = [a \in Arcs |-> 0]
  /\ total = 0
  /\ base = 0
  /\ scores = <<>>
  /\ proposals = <<>>

\* The bound of this network is known: it is the lower bound, or it gives the
\* score of the edge that was perturbed.  The next edge is perturbed, and with
\* it every edge of the same id.
Conclude(bound) ==
  LET known == IF bump = NoEdge THEN scores
               ELSE [i \in DOMAIN scores \cup {bump} |->
                       IF i = bump THEN bound - base ELSE scores[i]]
      left == {i \in DOMAIN net.edges : net.edges[i].id \notin DOMAIN known} IN
  /\ scores' = known
  /\ base' = IF bump = NoEdge THEN bound ELSE base
  /\ pc' = IF left = {} THEN "scored" ELSE "build"
  /\ bump' = IF left = {} THEN NoEdge ELSE net.edges[Least(left)].id
  /\ UNCHANGED <<net, target, proposals>>

\* Variant: total is not reset for the next flow.
BuildOn ==
  /\ pc = "build"
  /\ HasFlow(net)
  /\ residual' = Capacities(net, bump, target)
  /\ pc' = "flow"
  /\ UNCHANGED <<net, target, bump, total, base, scores, proposals>>

\* A network without edges, sources or sinks carries nothing.
Build ==
  /\ pc = "build"
  /\ IF HasFlow(net)
     THEN /\ residual' = Capacities(net, bump, target)
          /\ total' = 0
          /\ pc' = "flow"
          /\ UNCHANGED <<net, target, bump, base, scores, proposals>>
     ELSE Conclude(0) /\ UNCHANGED flow

Augment ==
  /\ pc = "flow"
  /\ Augmentable(residual)
  /\ \E p \in ShortestPaths(residual) :
       LET d == Bottleneck(residual, p) IN
       /\ residual' = Pushed(residual, p, d)
       /\ total' = total + d
  /\ UNCHANGED <<net, target, pc, bump, base, scores, proposals>>

Saturated ==
  /\ pc = "flow"
  /\ ~Augmentable(residual)
  /\ Conclude(Least({target, total}))
  /\ UNCHANGED flow

\* Variant: edges without gain are proposed too.
NotProposed == {i \in DOMAIN net.edges : \A k \in DOMAIN proposals : proposals[k] # i}

\* propose: edges by falling score, as far as the budget goes, none without gain.
Proposable ==
  {i \in DOMAIN net.edges :
     /\ \A k \in DOMAIN proposals : proposals[k] # i
     /\ scores[net.edges[i].id] > 0}

Propose ==
  /\ pc = "scored"
  /\ Len(proposals) < Units
  /\ \E i \in Proposable :
       /\ \A j \in Proposable : scores[net.edges[j].id] <= scores[net.edges[i].id]
       /\ proposals' = Append(proposals, i)
  /\ UNCHANGED <<net, target, pc, bump, flow, base, scores>>

\* Variant: the budget must be spent.
FinishSpent ==
  /\ pc = "scored"
  /\ Len(proposals) >= Units
  /\ pc' = "done"
  /\ UNCHANGED <<net, target, bump, flow, base, scores, proposals>>

Finish ==
  /\ pc = "scored"
  /\ Len(proposals) >= Units \/ Proposable = {}
  /\ pc' = "done"
  /\ UNCHANGED <<net, target, bump, flow, base, scores, proposals>>

Next == Build \/ Augment \/ Saturated \/ Propose \/ Finish

Spec == Init /\ [][Next]_vars /\ WF_vars(Next)

----------------------------------------------------------------------------
TypeOK ==
  /\ net \in Networks
  /\ target \in Targets
  /\ pc \in {"build", "flow", "scored", "done"}
  /\ bump \in Ids \cup {NoEdge}
  /\ residual \in [Arcs -> Int]
  /\ total \in Nat
  /\ base \in Nat
  /\ DOMAIN scores \subseteq Ids /\ \A i \in DOMAIN scores : scores[i] \in Int
  /\ proposals \in Seq(DOMAIN net.edges)

\* After every augmentation the residuals describe a flow within the certified
\* capacities: nothing is sent twice or lost on the way, and total leaves the
\* source.  (_max_flow updates two entries of a dictionary per arc.)
ResidualIsAFlow ==
  LET capacity == Capacities(net, bump, target)
      sent == [a \in Arcs |-> capacity[a] - residual[a]]
      Out(v) == SumFunctionOnSet(sent, {v} \X (Vertices \ {v})) IN
  pc = "flow" =>
    /\ \A a \in Arcs : residual[a] >= 0
    /\ \A a \in Arcs : a[1] # a[2] => sent[a] = -sent[Reversed(a)]
    /\ \A v \in Nodes : Out(v) = 0
    /\ Out(Source) = total

TrueBound(n, b, t) ==
  IF HasFlow(n) THEN Least({t, MinCut(Capacities(n, b, t))}) ELSE 0

\* The lower bound is the one no cut of the network can hold below, never more
\* than was asked for, whichever paths the search found and however often one
\* augmentation was capped.
BoundIsMinCut ==
  pc = "scored" => base = TrueBound(net, NoEdge, target)

Copies(i) == Cardinality({k \in DOMAIN net.edges : net.edges[k].id = i})

\* A score is the marginal gain of its edge: what a unit more on every edge of
\* that id adds to the true bound, at least nothing and at most one per edge.
ScoresAreMarginal ==
  pc = "scored" => \A i \in DOMAIN scores :
    /\ scores[i] = TrueBound(net, i, target) - TrueBound(net, NoEdge, target)
    /\ scores[i] \in 0..Copies(i)

\* The optimizer spends its budget on the best edges: each proposal gains, none
\* is made twice for one edge, and no edge with a better score is passed over
\* while one with a worse score is proposed or budget is left.
ProposalsAreBest ==
  pc = "done" =>
    LET gain(i) == scores[net.edges[i].id]
        chosen == {proposals[k] : k \in DOMAIN proposals} IN
    /\ Cardinality(chosen) = Len(proposals) /\ Len(proposals) <= Units
    /\ \A i \in chosen : gain(i) > 0
    /\ \A j \in DOMAIN net.edges \ chosen :
         /\ \A i \in chosen : gain(j) <= gain(i)
         /\ Len(proposals) < Units => gain(j) <= 0

\* The search for augmenting paths ends for every network.
AnalysisEnds == <>(pc = "done")
=============================================================================
