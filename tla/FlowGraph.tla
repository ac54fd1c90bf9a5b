------------------------------ MODULE FlowGraph ------------------------------
(***************************************************************************)
(* Flow through a graph with capacities on its arcs, as both _max_flow     *)
(* functions compute it (adapters/deterministic_analyzer.py and            *)
(* adapters/validation_capital.py): shortest augmenting paths over the     *)
(* residual capacities, and the cuts that bound what any flow can carry.   *)
(***************************************************************************)
EXTENDS Integers, Sequences, FiniteSets, Functions

CONSTANTS
  Nodes,     \* every node an edge or a declaration may name
  Source,    \* the super source
  Sink       \* the super sink

ASSUME NamesAssumption ==
  IsFiniteSet(Nodes) /\ Source \notin Nodes /\ Sink \notin Nodes /\ Source # Sink

Vertices == Nodes \cup {Source, Sink}
Arcs == Vertices \X Vertices

Positive(x) == IF x > 0 THEN x ELSE 0
Least(S) == CHOOSE x \in S : \A y \in S : x <= y

----------------------------------------------------------------------------
(* Shortest augmenting paths                                               *)

Depths == 0..Cardinality(Vertices)

\* Reached(r)[k]: vertices within k arcs of the source that have capacity left.
Reached(r) ==
  LET reached[k \in Depths] ==
        IF k = 0 THEN {Source}
        ELSE UNION {{v \in Vertices : v = u \/ r[<<u, v>>] > 0} : u \in reached[k - 1]}
  IN reached

Augmentable(r) == Sink \in Reached(r)[Cardinality(Vertices)]

\* The shortest paths to the sink, as sequences of vertices.
ShortestPaths(r) ==
  LET reached == Reached(r)
      Beyond(u, S) == {v \in S : r[<<u, v>>] > 0}
      length == Least({k \in Depths : Sink \in reached[k]})
      paths[k \in 0..length] ==
        IF k = 0 THEN {<<Source>>}
        ELSE LET layer == reached[k] \ reached[k - 1] IN
             UNION {{Append(p, v) : v \in Beyond(p[k], layer)} : p \in paths[k - 1]}
  IN {p \in paths[length] : p[length + 1] = Sink}

ArcsOf(p) == {<<p[i], p[i + 1]>> : i \in 1..(Len(p) - 1)}

Reversed(a) == <<a[2], a[1]>>

\* Variants: the way back is forgotten; so are all arcs off the path.
PushedForward(r, p, d) == [a \in Arcs |-> r[a] - (IF a \in ArcsOf(p) THEN d ELSE 0)]

PushedOnly(r, p, d) == [a \in ArcsOf(p) |-> r[a] - d]

Pushed(r, p, d) ==
  [a \in Arcs |-> r[a] - (IF a \in ArcsOf(p) THEN d ELSE 0)
                       + (IF Reversed(a) \in ArcsOf(p) THEN d ELSE 0)]

----------------------------------------------------------------------------
(* Cuts                                                                    *)

\* The least capacity of a set of arcs that cuts the sink off.
CutCapacity(c, S) == SumFunctionOnSet(c, S \X (Vertices \ S))
MinCut(c) == Least({CutCapacity(c, S \cup {Source}) : S \in SUBSET Nodes})
=============================================================================
