----------------------------- MODULE MCMaxFlow -----------------------------
(* Small networks for MaxFlow.                                             *)
EXTENDS MaxFlow

MCNodes == {"s", "a", "b", "d", "e", "t"}

\* An edge without reservations, charges or queue.
Edge(i, u, v, c) ==
  [id |-> i, from |-> u, to |-> v, capacity |-> c, reserved |-> 0, charged |-> 0,
   arrival |-> 0, service |-> 0]

Net(es, ss, ts) == [nodes |-> MCNodes, edges |-> es, sources |-> ss, sinks |-> ts]

\* The network on which a shortest path may have to be taken back in part, with
\* four of its capacities varied.
Diamonds ==
  {Net(<<Edge("sa", "s", "a", c[1]), Edge("sb", "s", "b", 1), Edge("ad", "a", "d", c[2]),
         Edge("bd", "b", "d", c[3]), Edge("ae", "a", "e", 1), Edge("dt", "d", "t", c[4]),
         Edge("et", "e", "t", 1)>>, {}, {}) : c \in [1..4 -> 0..1] \cup [1..4 -> 1..2]}

\* Deductions up to and over the capacity, a cycle, declared ends, edges that
\* share an id, an edge to a node the network does not list, no ends at all.
Deducted ==
  {Net(<<[Edge("sa", "s", "a", 3) EXCEPT !.reserved = x, !.charged = y, !.arrival = z,
          !.service = 1], Edge("at", "a", "t", 2)>>, {}, {}) :
     x \in 0..2, y \in 0..2, z \in 0..2}

Odd ==
  {Net(<<>>, {}, {}),
   Net(<<Edge("ab", "a", "b", 2), Edge("ba", "b", "a", 1)>>, {}, {}),
   Net(<<Edge("ab", "a", "b", 2), Edge("ba", "b", "a", 1)>>, {"a"}, {"b"}),
   Net(<<Edge("sa", "s", "a", 1), Edge("sa", "s", "a", 1), Edge("at", "a", "t", 5)>>, {}, {}),
   Net(<<Edge("sa", "s", "a", 2), Edge("bt", "b", "t", 3), Edge("aa", "a", "a", 1)>>,
       {"s", "b"}, {"a", "t"}),
   [Net(<<Edge("sa", "s", "a", 2), Edge("at", "a", "t", 2), Edge("st", "s", "t", 1)>>, {}, {})
      EXCEPT !.nodes = {"s", "t"}]}

MCNetworks == Diamonds \cup Deducted \cup Odd
=============================================================================
