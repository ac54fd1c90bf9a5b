-------------------------- MODULE ValidationCapital --------------------------
(***************************************************************************)
(* Validation capital (adapters/validation_capital.py): which nodes of a   *)
(* validation dependency graph the roots reach, and how much demand a flow *)
(* from the roots can carry.  One augmentation of the flow is one step.    *)
(*                                                                         *)
(* Capacities and demands are floats in the code; here they are whole, and *)
(* sums are exact.  Demands may be negative, and so may capacities that    *)
(* are made of them.                                                       *)
(***************************************************************************)
EXTENDS Integers, Sequences, FiniteSets, FiniteSetsExt, Functions

CONSTANT GraphNodes   \* every node a graph may name

\* The names of the two ends are reserved.
ASSUME GraphNodesAssumption ==
  /\ IsFiniteSet(GraphNodes)
  /\ "__cwc_val_root__" \notin GraphNodes /\ "__cwc_val_demand__" \notin GraphNodes

EdgeKinds == {"justify", "influence", "data", "train", "leak", "capacity"}

\* demands may name nodes that are not among the demand nodes, and edges, roots
\* and demand nodes may name nodes that the graph does not list.  Demand nodes are
\* a list, in which a node may occur twice.
IsGraph(g) ==
  /\ g.nodes \subseteq GraphNodes
  /\ g.roots \subseteq GraphNodes
  /\ g.demand_nodes \in Seq(GraphNodes)
  /\ g.edges \in Seq([from : GraphNodes, to : GraphNodes, kind : EdgeKinds, capacity : Nat])
  /\ DOMAIN g.demands \subseteq GraphNodes /\ Range(g.demands) \subseteq Int

VG == INSTANCE FlowGraph
        WITH Nodes <- GraphNodes, Source <- "__cwc_val_root__", Sink <- "__cwc_val_demand__"

VARIABLES
  residual,   \* residual capacities of the root cut
  cut         \* flow sent so far: cut_capacity at the end

capital == <<residual, cut>>

NoResidual == [a \in VG!Arcs |-> 0]

CapitalInit == residual = NoResidual /\ cut = 0

----------------------------------------------------------------------------
\* _root_reachable: the listed nodes that some path of edges, of any kind and
\* any capacity, joins to a root.
RootReachable(g) ==
  LET Onward(S) == S \cup {g.edges[i].to : i \in {j \in DOMAIN g.edges : g.edges[j].from \in S}}
      within[k \in 0..Cardinality(GraphNodes)] ==
        IF k = 0 THEN g.roots ELSE Onward(within[k - 1])
  IN g.nodes \cap within[Cardinality(GraphNodes)]

Demanded(g) == Range(g.demand_nodes)

BlockedNodes(g) == Demanded(g) \ RootReachable(g)

DeclaredDemand(g) == SumFunction(g.demands)

DemandOf(g, n) == IF n \in DOMAIN g.demands THEN g.demands[n] ELSE 0

TotalDemand(g) ==
  SumFunction([i \in DOMAIN g.demand_nodes |-> DemandOf(g, g.demand_nodes[i])])

\* An edge that says nothing of its capacity carries everything, unless it is
\* of kind "capacity".
EdgeCapacity(g, e) ==
  IF e.kind # "capacity" /\ e.capacity = 0
  THEN IF DeclaredDemand(g) = 0 THEN 1 ELSE DeclaredDemand(g)
  ELSE e.capacity

\* Parallel edges add up; roots are supplied with more than any cut can ask for.
RootCutCapacities(g) ==
  LET capacity == [i \in DOMAIN g.edges |-> EdgeCapacity(g, g.edges[i])]
      supply == Max({SumFunction(capacity), DeclaredDemand(g), 1})
      Between(a) == {i \in DOMAIN g.edges : <<g.edges[i].from, g.edges[i].to>> = a} IN
  [a \in VG!Arcs |->
     IF a[1] = "__cwc_val_root__" THEN IF a[2] \in g.roots THEN supply ELSE 0
     ELSE IF a[2] = "__cwc_val_demand__"
          THEN IF a[1] \in Demanded(g) THEN DemandOf(g, a[1]) ELSE 0
     ELSE SumFunctionOnSet(capacity, Between(a))]

\* Variant: the first arc decides.
FirstOf(r, p) == r[<<p[1], p[2]>>]

\* What an augmenting path carries.
NarrowestOf(r, p) == VG!Least({r[a] : a \in VG!ArcsOf(p)})

\* _root_cut_capacity: without roots or demand nodes nothing flows.
StartCut(g) ==
  /\ residual' = IF g.roots = {} \/ Demanded(g) = {} THEN NoResidual ELSE RootCutCapacities(g)
  /\ cut' = 0

CutIsFinal == ~VG!Augmentable(residual)

AugmentCut ==
  /\ VG!Augmentable(residual)
  /\ \E p \in VG!ShortestPaths(residual) :
       LET d == NarrowestOf(residual, p) IN
       /\ residual' = VG!Pushed(residual, p, d)
       /\ cut' = cut + d

\* supported_demand of the certificate.
SupportedDemand(g) == VG!Least({TotalDemand(g), cut})
=============================================================================
