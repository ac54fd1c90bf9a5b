------------------------ MODULE MCFullCertification ------------------------
(* A complete bundle for FullCertification, and bundles that differ from   *)
(* it in one or two places.                                                *)
EXTENDS FullCertification

MCNetNodes == {"s", "a", "t"}
MCGraphNodes == {"root", "check", "audit", "out"}
MCRadius(b, n, candidates, delta) == (2 * b * candidates) \div n

----------------------------------------------------------------------------
(* The complete bundle                                                     *)

Item(id, kind, payload) ==
  [id |-> id, kind |-> kind, active |-> TRUE, valid |-> TRUE, expiry |-> {}, refs |-> {},
   tcb |-> {}, confidence |-> 1, payload |-> payload]

Contract(id, exposes, deps) ==
  Item(id, "evidence_contract",
       [contract_id |-> id, exposes |-> exposes, scope |-> "", input |-> {"in"},
        checker |-> {}, tcb |-> {}, dependencies |-> deps, budget |-> 1,
        compose |-> "deterministic", status |-> "active"])

Witness(id, contract, exposes, value) ==
  Item(id, "verification_witness",
       [contract_id |-> contract, exposes |-> exposes, scope |-> "scope", input |-> "in",
        checker |-> "check", tcb |-> {}, output |-> TRUE, value |-> {value}, rule |-> "none",
        accepted |-> TRUE])

Pair(term, deps, value, c, w) == <<Contract(c, <<term>>, deps), Witness(w, c, <<term>>, value)>>

Graph0 ==
  [nodes |-> {"root", "check", "audit"}, roots |-> {"root"}, demand_nodes |-> <<"check", "audit">>,
   edges |-> <<[from |-> "root", to |-> "check", kind |-> "capacity", capacity |-> 2],
               [from |-> "root", to |-> "check", kind |-> "data", capacity |-> 1],
               [from |-> "check", to |-> "audit", kind |-> "justify", capacity |-> 0]>>,
   demands |-> [check |-> 1, audit |-> 2]]

Evidence0 ==
  <<Item("root", "root", [name |-> "root"]),
    Item("tcb", "tcb", [name |-> "base", status |-> "ok", rooted |-> TRUE]),
    Item("support", "support", [supported |-> TRUE]),
    Item("uncertain", "uncertainty_contract", [nonempty |-> TRUE]),
    Item("stat", "statistical_certificate",
         [form |-> "one_step_dr", q |-> 12, b |-> 1, eps |-> 1, delta |-> {5}, n |-> 2,
          candidates |-> 1, delta_val |-> 0, delta_path |-> 0, max_delta |-> 0,
          numeric |-> TRUE, raises |-> FALSE]),
    Item("path", "path_law_certificate", [q |-> 14, b |-> 1, eps |-> 1, delta |-> 1]),
    Item("queue", "queue_certificate",
         [no_phantom_release |-> TRUE, bounded_increments |-> TRUE, charge |-> 1, derived |-> TRUE]),
    Item("release", "release_accounting", [charge |-> 0, disjoint |-> TRUE]),
    Item("goodhart", "goodhart_account", [charge |-> 1, constructed |-> TRUE]),
    Item("open", "open_world_account", [charge |-> 0, constructed |-> TRUE]),
    Item("budget", "confidence_budget", [limit |-> {60}]),
    Item("graph", "validation_dependency_graph", Graph0)>>
  \o Pair(Term("statistical_lower"), {"stat"}, 9, "c1", "w1")
  \o Pair(Term("path_law_lower"), {"path"}, 12, "c2", "w2")
  \o Pair(Term("queue_boundary"), {"queue"}, 1, "c3", "w3")
  \o Pair(Term("release_accounting"), {"release"}, 0, "c4", "w4")
  \o Pair(Term("goodhart_charge"), {"goodhart"}, 1, "c5", "w5")
  \o Pair(Term("open_world_charge"), {"open"}, 0, "c6", "w6")
  \o Pair(CapacityOf("e1"), {"support"}, 8, "c7", "w7")
  \o Pair(CapacityOf("release"), {"support"}, 6, "c8", "w8")

Edge(id, name, from, to, capacity, deducted) ==
  [id |-> id, name |-> name, from |-> from, to |-> to, capacity |-> capacity,
   deducted |-> deducted, blocked |-> FALSE, evidence |-> {"support"}]

Complete ==
  [network |-> [nodes |-> MCNetNodes, sources |-> {"s"}, sinks |-> {"t"},
                edges |-> <<Edge("e1", "draft", "s", "a", 4, 1),
                            Edge("e2", "release", "a", "t", 3, 0)>>],
   supported |-> TRUE, target |-> 5,
   split |-> [ledger |-> {"root"}, selection |-> {"support"}, certification |-> {"stat"}],
   evidence |-> Evidence0]

----------------------------------------------------------------------------
(* Deviations                                                              *)

At(id) == CHOOSE i \in DOMAIN Evidence0 : Evidence0[i].id = id

Put(b, id, x) == [b EXCEPT !.evidence[At(id)] = x]
Pay(b, id, p) == [b EXCEPT !.evidence[At(id)].payload = p]
More(b, items) == [b EXCEPT !.evidence = @ \o items]
Before(b, items) == [b EXCEPT !.evidence = items \o @]

P(id) == Evidence0[At(id)].payload

\* The claim, the network and the fitness of single objects.
Unfit ==
  {[Complete EXCEPT !.supported = FALSE],
   [Complete EXCEPT !.network.sources = {}],
   [Complete EXCEPT !.network.edges[1].blocked = TRUE],
   [Complete EXCEPT !.evidence[At("support")].active = FALSE]}
  \cup {[Complete EXCEPT !.evidence[At(i)].expiry = {t}] : i \in {"support", "tcb", "w3"}, t \in {1, 2}}
  \cup {More(Complete, <<[Item("note", "note", [text |-> ""]) EXCEPT !.active = a, !.tcb = r]>>) :
          a \in BOOLEAN, r \in {{}, {"base"}, {"other"}}}

\* Splits, with and without witnesses of an adaptive composition.
Adaptive(b, ids) ==
  [b EXCEPT !.evidence = [i \in DOMAIN @ |->
     IF @[i].id \notin ids THEN @[i]
     ELSE IF @[i].kind = "evidence_contract" THEN [@[i] EXCEPT !.payload.compose = "uniform"]
     ELSE IF @[i].kind = "verification_witness" THEN [@[i] EXCEPT !.payload.rule = "uniform"]
     ELSE @[i]]]

AllPairs == {"c1", "c2", "c3", "c4", "c5", "c6", "c7", "c8", "w1", "w2", "w3", "w4", "w5", "w6", "w7", "w8"}

Splits ==
  LET overlapping == [Complete EXCEPT !.split.selection = {"root", "support"}] IN
  {overlapping, Adaptive(overlapping, AllPairs), Adaptive(overlapping, {"c1", "w1"}),
   Adaptive(overlapping, AllPairs \ {"w8"}), [Complete EXCEPT !.split.selection = {}],
   [Complete EXCEPT !.split.selection = {"gone"}]}

\* Contracts, witnesses and what they bind.
Bindings ==
  {[Complete EXCEPT !.evidence[At("c1")].payload.status = "expired"],
   [Complete EXCEPT !.evidence[At("c1")].valid = FALSE],
   [Complete EXCEPT !.evidence[At("w1")].payload.accepted = FALSE],
   [Complete EXCEPT !.evidence[At("w1")].payload.exposes = <<Term("path_law_lower")>>],
   [Complete EXCEPT !.evidence[At("w1")].payload.input = "other"],
   [Complete EXCEPT !.evidence[At("w1")].payload.checker = ""],
   [Complete EXCEPT !.evidence[At("w1")].payload.output = FALSE],
   [Complete EXCEPT !.evidence[At("w1")].payload.value = {}],
   [Complete EXCEPT !.evidence[At("c1")].payload.scope = "elsewhere"],
   [Complete EXCEPT !.evidence[At("c1")].payload.tcb = {"base"}],
   [Complete EXCEPT !.evidence[At("c1")].payload.tcb = {"base"},
                    !.evidence[At("w1")].payload.tcb = {"base"}],
   [Complete EXCEPT !.evidence[At("w1")].payload.tcb = {"base"}],
   [Complete EXCEPT !.evidence[At("w1")].payload.tcb = {"other"}],
   [Complete EXCEPT !.evidence[At("c1")].payload.exposes = <<Term("statistical_lower"), Term("path_law_lower")>>],
   [Complete EXCEPT !.evidence[At("c1")].payload.dependencies = {"gone"}],
   [Complete EXCEPT !.evidence[At("c1")].payload.dependencies = {"path"}],
   [Complete EXCEPT !.evidence[At("w1")].payload.value = {11}],
   [Complete EXCEPT !.evidence[At("w3")].payload.value = {0}],
   [Complete EXCEPT !.evidence[At("w3")].payload.value = {3}],
   More(Complete, <<Contract("c9", <<Term("spare")>>, {})>>),
   More(Complete, <<[Item("extra", "note", [text |-> ""]) EXCEPT !.refs = {"path"}]>>)}

\* Edge capacities: ambiguous and unbound names, and a capacity vouched for by a
\* contract that has nothing to do with the edge.
Free(value) == Pair(CapacityOf("e1"), {"path"}, value, "c9", "w9")

Capacities ==
  {[Complete EXCEPT !.network.edges[1].name = "release"],
   [Complete EXCEPT !.network.edges[1].name = "release", !.network.edges[1].id = "e3"],
   [Complete EXCEPT !.network.edges[1].id = "e3"],
   [Complete EXCEPT !.network.edges[1].capacity = 5],
   [Complete EXCEPT !.network.edges[1].evidence = {"path"}],
   More(Complete, Free(4)),
   More([Complete EXCEPT !.network.edges[1].capacity = 5], Free(10))}

\* Several certificates of a kind, malformed and incomplete ones, none at all.
Twice(id, p) == Item(id, Evidence0[At(id)].kind, p)

Certificates ==
  {More(Complete, <<[Twice("queue", [P("queue") EXCEPT !.charge = 4]) EXCEPT !.id = "queue2"]>>),
   Before(Complete, <<[Twice("queue", [P("queue") EXCEPT !.charge = 0]) EXCEPT !.id = "queue2"]>>),
   [Complete EXCEPT !.evidence[At("queue")].payload.derived = FALSE],
   [Complete EXCEPT !.evidence[At("queue")].payload.bounded_increments = FALSE],
   [Complete EXCEPT !.evidence[At("queue")].valid = FALSE],
   [Complete EXCEPT !.evidence[At("release")].payload.disjoint = FALSE],
   [Complete EXCEPT !.evidence[At("release")].payload.charge = 2,
                    !.evidence[At("w4")].payload.value = {2}],
   [Complete EXCEPT !.evidence[At("goodhart")].payload.constructed = FALSE],
   [Complete EXCEPT !.evidence[At("open")].valid = FALSE],
   [Complete EXCEPT !.evidence[At("uncertain")].payload.nonempty = FALSE],
   [Complete EXCEPT !.evidence[At("stat")].payload.delta = {}],
   [Complete EXCEPT !.evidence[At("stat")].payload.form = "time_uniform"],
   [Complete EXCEPT !.evidence[At("stat")].payload.form = "time_uniform",
                    !.evidence[At("stat")].payload.max_delta = 2,
                    !.evidence[At("stat")].payload.delta_val = 3],
   [Complete EXCEPT !.evidence[At("stat")].payload.form = "dynamic_path"],
   [Complete EXCEPT !.evidence[At("stat")].payload.q = 5, !.evidence[At("w1")].payload.value = {3}],
   [Complete EXCEPT !.evidence[At("stat")].payload.q = 1, !.evidence[At("w1")].payload.value = {-1}],
   [Complete EXCEPT !.evidence[At("path")].payload.eps = 4]}
  \cup {[Complete EXCEPT !.evidence[At(i)].kind = "note"] :
          i \in {"uncertain", "queue", "stat", "budget", "graph"}}

\* Two Goodhart accounts: one contract for both, one for each, one for the last.
SecondAccount(charge) ==
  <<[Twice("goodhart", [charge |-> charge, constructed |-> TRUE]) EXCEPT !.id = "goodhart2"]>>

Accounts ==
  {More([Complete EXCEPT !.evidence[At("c5")].payload.dependencies = {"goodhart", "goodhart2"},
                         !.evidence[At("w5")].payload.value = {2}], SecondAccount(charge)) :
     charge \in {0, 2, 3}}
  \cup {More(Complete, SecondAccount(1) \o
               Pair(Term("goodhart_charge"), {"goodhart2"}, 1, "c9", "w9"))}

\* Budgets that just suffice or do not, none and two; deltas of less than a
\* microunit and as strings; parameters and limits that are no numbers.
Spends(d, numeric) ==
  [[P("stat") EXCEPT !.delta = d] EXCEPT !.numeric = numeric]

Budgets ==
  {[Complete EXCEPT !.evidence[At("budget")].payload.limit = l] :
     l \in {{}, {-1}, {-2}, {38}, {39}, {40}, {41}}}
  \cup {More(Complete, <<[Twice("budget", [limit |-> {20}]) EXCEPT !.id = "budget2"]>>)}
  \cup {[Pay(Complete, "stat", Spends(d, n)) EXCEPT !.evidence[At("budget")].payload.limit = {39}] :
           d \in {{1}, {4}, {6}, {7}, {9}}, n \in BOOLEAN}
  \cup {More(Pay(Complete, "stat", Spends({1}, TRUE)),
             <<[Twice("stat", Spends({1}, TRUE)) EXCEPT !.id = "stat2"]>>)}
  \cup {[Complete EXCEPT !.evidence[At("support")].confidence = -38 - c,
                         !.evidence[At("budget")].payload.limit = l] :
           c \in 0..2, l \in {{}, {-2}, {0}}}
  \cup {[Complete EXCEPT !.evidence[At("stat")].payload.raises = TRUE],
        [Complete EXCEPT !.evidence[At("budget")].valid = FALSE]}

GraphEdge(from, to, kind, capacity) == [from |-> from, to |-> to, kind |-> kind, capacity |-> capacity]

\* A demand that nobody serves is made up for by a node without one.
Ghost ==
  [Graph0 EXCEPT !.demand_nodes = <<"check">>, !.demands = [check |-> 10, out |-> -10],
                 !.edges = <<GraphEdge("root", "check", "capacity", 1)>>]

Graphs ==
  {Pay(Complete, "graph", g) : g \in
     {[Graph0 EXCEPT !.roots = {}],
      [Graph0 EXCEPT !.roots = {"check"}],
      [Graph0 EXCEPT !.demand_nodes = <<"check">>],
      [Graph0 EXCEPT !.demand_nodes = <<>>],
      [Graph0 EXCEPT !.demand_nodes = <<"check", "check", "audit">>],
      [Graph0 EXCEPT !.demand_nodes = <<"check", "check">>, !.demands = [check |-> 1, audit |-> 1]],
      [Graph0 EXCEPT !.nodes = {"root", "check"}],
      [Graph0 EXCEPT !.edges[3].kind = "capacity"],
      [Graph0 EXCEPT !.edges = <<GraphEdge("root", "check", "capacity", 2),
                                GraphEdge("check", "audit", "justify", 2)>>],
      [Graph0 EXCEPT !.edges = <<GraphEdge("root", "out", "capacity", 3),
                                GraphEdge("out", "check", "capacity", 3),
                                GraphEdge("root", "check", "capacity", 1),
                                GraphEdge("check", "audit", "capacity", 3)>>],
      [Graph0 EXCEPT !.edges = <<GraphEdge("root", "check", "leak", 2),
                                GraphEdge("check", "audit", "train", 2),
                                GraphEdge("root", "audit", "capacity", 1)>>],
      [Graph0 EXCEPT !.demands = [check |-> 0, audit |-> 0]],
      [Graph0 EXCEPT !.demands = [check |-> 1, audit |-> -1]],
      [Graph0 EXCEPT !.demands = [check |-> 1, audit |-> -2]],
      [Graph0 EXCEPT !.demands = [check |-> -2, audit |-> 1]],
      [Graph0 EXCEPT !.demands = [check |-> -1, audit |-> 2]],
      [Ghost EXCEPT !.demands.out = -8], [Ghost EXCEPT !.demands.out = -9], Ghost}}
  \cup {[Complete EXCEPT !.evidence[At("graph")].valid = FALSE]}

\* Targets and networks: parallel edges, shared ids, edges and sources the network
\* does not list, a network without capacity.
WithEdges(es) ==
  [[Complete EXCEPT !.network.edges = es] EXCEPT !.evidence = @
     \o Pair(CapacityOf("e2"), {"support"}, 12, "c9", "w9")]

Nets ==
  {[Complete EXCEPT !.target = t] : t \in {0, 2, 3}}
  \cup {WithEdges(<<Edge("e1", "draft", "s", "a", 4, d), Edge("e2", "x", "a", "t", 3, 0),
                   Edge("e2", "x", "s", "t", 1, 0)>>) : d \in {0, 1, 4}}
  \cup {WithEdges(<<Edge("e1", "draft", "s", "a", 2, 0), Edge("e1", "z", "s", "a", 1, 0),
                   Edge("e2", "release", "a", "t", 3, 0)>>),
        [Complete EXCEPT !.network.nodes = {"s", "t"}],
        [Complete EXCEPT !.network.nodes = {"a", "t"}]}

\* A capacity from a contract that has nothing to do with the edge, a delta that is
\* a string, and a negative demand.
Promised ==
  More([Pay(Pay(Complete, "graph", Ghost), "stat", Spends({9}, FALSE)) EXCEPT
          !.network.edges[1].capacity = 5, !.evidence[At("budget")].payload.limit = {41}],
       Free(10))

MCBundles ==
  {Complete, Promised} \cup Unfit \cup Splits \cup Bindings \cup Capacities \cup Certificates
    \cup Accounts \cup Budgets \cup Graphs \cup Nets
=============================================================================
