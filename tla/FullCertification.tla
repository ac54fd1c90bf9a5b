-------------------------- MODULE FullCertification --------------------------
(***************************************************************************)
(* The full profile (adapters/full_certification.py): an analysis of a     *)
(* network, a compiled claim and the evidence the kernel read for it.  It  *)
(* parses contracts, witnesses and certificates, binds every number of the *)
(* report to an accepted witness, checks the budget and the validation     *)
(* capital, and composes a lower bound from the flow and the certificates. *)
(*                                                                         *)
(* Each validator is one step, in the order of the code.  A limitation     *)
(* blocks the report but not the validators after it.  The clock is read   *)
(* three times, and it runs on in between.  Charges and certified bounds   *)
(* are floats in the code; here they are whole multiples of 1/Unit, and a  *)
(* delta is a whole multiple of 1/Micro microunits.  Optional numbers are  *)
(* sets of at most one.                                                    *)
(*                                                                         *)
(* Some payloads make a validator raise an error that nobody catches: the  *)
(* caller gets no report then.                                             *)
(***************************************************************************)
EXTENDS ValidationCapital

CONSTANTS
  Bundles,            \* inputs of the analysis
  NetNodes,           \* every node a network may name
  Unit,               \* a value or capacity of 1 in the unit of the bounds
  Million,            \* a confidence of 1 in microunits
  Micro,              \* a microunit in the unit of the deltas
  Radius(_, _, _, _), \* radius of a one-step certificate: b_z, n, candidates, delta
  MaxTime             \* bound on the clock

\* A bundle has a network (nodes, sources, sinks and edges), a claim, the target
\* value and the evidence in the order the kernel read it.
EdgeShape(e) ==
  /\ {e.from, e.to} \subseteq NetNodes
  /\ e.capacity \in Nat /\ e.deducted \in Nat /\ e.blocked \in BOOLEAN

\* An optional number.
Optional(S) == \A x, y \in S : x = y

EvidenceShape(x) ==
  /\ x.active \in BOOLEAN /\ x.valid \in BOOLEAN
  /\ x.expiry \subseteq Nat /\ Optional(x.expiry)
  /\ x.confidence \in Int
  /\ {x.id} \cup x.refs \subseteq STRING

\* What a payload of some kind has that was read without an error.  A statistical
\* certificate has parameters of any type: its delta may be a number or a string of
\* one (numeric says which), and some of them may be no numbers at all (raises).
PayloadShape(k, p) ==
  /\ k = "evidence_contract" =>
       /\ p.exposes \in Seq(Range(p.exposes)) /\ p.dependencies \subseteq STRING
       /\ p.budget \in Nat
  /\ k = "verification_witness" =>
       p.exposes \in Seq(Range(p.exposes)) /\ p.value \subseteq Int /\ Optional(p.value)
  /\ k \in {"queue_certificate", "release_accounting", "goodhart_account", "open_world_account"} =>
       p.charge \in Nat
  /\ k \in {"statistical_certificate", "path_law_certificate"} =>
       p.q \in Int /\ p.b \in Int /\ p.eps \in Int
  /\ k = "statistical_certificate" =>
       /\ p.n \in Int /\ p.candidates \in Int /\ p.numeric \in BOOLEAN /\ p.raises \in BOOLEAN
       /\ p.delta \subseteq Int /\ Optional(p.delta)
       /\ \A d \in p.delta : Radius(p.b, p.n, p.candidates, d) \in Int
  /\ k = "path_law_certificate" => p.delta \in Nat
  /\ k = "confidence_budget" => p.limit \subseteq Int /\ Optional(p.limit)
  /\ k = "validation_dependency_graph" => IsGraph(p)

ASSUME BundlesAssumption ==
  \A b \in Bundles :
    /\ b.target \in Nat /\ b.supported \in BOOLEAN
    /\ b.network.nodes \subseteq NetNodes
    /\ b.network.sources \subseteq NetNodes /\ b.network.sinks \subseteq NetNodes
    /\ b.network.edges \in Seq(Range(b.network.edges))
    /\ \A e \in Range(b.network.edges) : EdgeShape(e)
    /\ b.evidence \in Seq(Range(b.evidence))
    /\ \A x \in Range(b.evidence) :
         /\ EvidenceShape(x)
         /\ x.valid => PayloadShape(x.kind, x.payload)

\* The names of the two ends are reserved.
ASSUME NetNodesAssumption ==
  /\ IsFiniteSet(NetNodes)
  /\ "__cwc_source__" \notin NetNodes /\ "__cwc_sink__" \notin NetNodes

ASSUME ScalesAssumption ==
  Unit \in Nat \ {0} /\ Micro \in Nat \ {0} /\ Million \in Nat /\ MaxTime \in Nat

RequiredKinds ==
  {"evidence_contract", "verification_witness", "support", "uncertainty_contract",
   "statistical_certificate", "path_law_certificate", "queue_certificate",
   "release_accounting", "goodhart_account", "open_world_account",
   "confidence_budget", "root", "validation_dependency_graph"}

LowerTerms == {"statistical_lower", "path_law_lower"}
ChargeTerms == {"queue_boundary", "release_accounting", "goodhart_charge", "open_world_charge"}
ReportTerms == LowerTerms \cup ChargeTerms

\* What a contract or a witness exposes: a term of the report, or the capacity
\* of the edges with some id or name.
Term(t) == <<"report", t>>
CapacityOf(x) == <<"edge.capacity", x>>

AdaptiveRules == {"uniform", "time_uniform", "eprocess", "simultaneous"}

LP == INSTANCE FlowGraph
        WITH Nodes <- NetNodes, Source <- "__cwc_source__", Sink <- "__cwc_sink__"

VARIABLES
  bundle,        \* what is analysed
  clock,
  began,         \* history: the time at the first reading of the clock
  pc,            \* the next step
  limitations,   \* reasons to block the report, without their details
  bindings,      \* terms bound to witnesses: term, dependencies, value
  summary,       \* numbers and references collected for the report
  report         \* the report, once it is made

full == <<bundle, clock, began, pc, limitations, bindings, summary, report>>
vars == <<full, capital>>

network == bundle.network
evidence == bundle.evidence

NoReport == [status |-> "none", bound |-> 0, bottlenecks |-> {}]

Init ==
  /\ bundle \in Bundles
  /\ clock = 0
  /\ began = 0
  /\ pc = "claim"
  /\ limitations = {}
  /\ bindings = {}
  /\ summary = [charge |-> [t \in ChargeTerms |-> 0],
                refs   |-> [t \in ReportTerms |-> {}],
                lowers |-> [t \in LowerTerms |-> {}],   \* of the certificates
                bounds |-> [t \in LowerTerms |-> {}],   \* of the witnesses
                delta  |-> 0]
  /\ report = NoReport
  /\ CapitalInit

Tick ==
  /\ clock < MaxTime /\ pc \notin {"done", "raised"}
  /\ clock' = clock + 1
  /\ UNCHANGED <<bundle, began, pc, limitations, bindings, summary, report, capital>>

\* A validator adds its reasons to the limitations and the next one goes on.
When(condition, reason) == IF condition THEN {reason} ELSE {}

Go(here, there, reasons) ==
  /\ pc = here
  /\ pc' = there
  /\ limitations' = limitations \cup reasons
  /\ UNCHANGED <<bundle, clock, report>>

----------------------------------------------------------------------------
(* Claim, evidence, contracts and witnesses                                *)

Fit(x, now) == x.active /\ \A t \in x.expiry : t > now

Fitting(now) == {i \in DOMAIN evidence : Fit(evidence[i], now)}

OfKind(k) == {i \in DOMAIN evidence : evidence[i].kind = k}
ValidOfKind(k) == {i \in OfKind(k) : evidence[i].valid}
Payloads(k) == {evidence[i].payload : i \in ValidOfKind(k)}

Contracts == Payloads("evidence_contract")
Witnesses == Payloads("verification_witness")
AcceptedFor(c) == {w \in Witnesses : w.accepted /\ w.contract_id = c.contract_id}

\* _evidence_refs
Refs == UNION {{evidence[i].id} \cup evidence[i].refs : i \in DOMAIN evidence}

\* Variant: only evidence of a required kind must be fit.
CheckRequiredOnly ==
  /\ Go("claim", "kinds",
        When(~bundle.supported, "claim unsupported") \cup
        When(network.sources = {} \/ network.sinks = {}, "no explicit ends") \cup
        When(\E i \in DOMAIN evidence \ Fitting(clock) : evidence[i].kind \in RequiredKinds,
             "inactive evidence"))
  /\ began' = clock
  /\ UNCHANGED <<bindings, summary, capital>>

CheckClaim ==
  /\ Go("claim", "kinds",
        When(~bundle.supported, "claim unsupported") \cup
        When(network.sources = {} \/ network.sinks = {}, "no explicit ends") \cup
        When(Fitting(clock) # DOMAIN evidence, "inactive evidence"))
  /\ began' = clock
  /\ UNCHANGED <<bindings, summary, capital>>

\* The second reading of the clock.
CheckKinds ==
  /\ Go("kinds", "parse",
        When(~(RequiredKinds \subseteq {evidence[i].kind : i \in Fitting(clock)}),
             "missing evidence kinds"))
  /\ UNCHANGED <<began, bindings, summary, capital>>

ParseContractsAndWitnesses ==
  /\ Go("parse", "split",
        (UNION {When(OfKind(k) # ValidOfKind(k), "invalid contract or witness") :
                 k \in {"evidence_contract", "verification_witness"}}) \cup
        When(\E c \in Contracts : c.status # "active", "inactive contract") \cup
        When(\E w \in Witnesses : ~w.accepted, "rejected witness"))
  /\ UNCHANGED <<began, bindings, summary, capital>>

\* Variant: one contract with such a witness is enough.
AnyOverlapWitness ==
  \E c \in Contracts : c.compose \in AdaptiveRules
    /\ \E w \in AcceptedFor(c) : w.rule \in AdaptiveRules

\* _has_overlap_composition_witness
OverlapWitness ==
  /\ Contracts # {}
  /\ \A c \in Contracts : c.compose \in AdaptiveRules
       /\ \E w \in AcceptedFor(c) : w.rule \in AdaptiveRules

Overlap(s) == (s.ledger \cap s.selection) \cup (s.ledger \cap s.certification)
                \cup (s.selection \cap s.certification)

\* _validate_data_protocol returns the first failure only.
SplitReasons(s) ==
  LET parts == {s.ledger, s.selection, s.certification} IN
  IF {} \in parts THEN {"empty split"}
  ELSE IF ~(UNION parts \subseteq Refs) THEN {"split names unavailable evidence"}
  ELSE When(Overlap(s) # {} /\ ~OverlapWitness, "split overlaps")

CheckSplit ==
  /\ Go("split", "tcb", SplitReasons(bundle.split))
  /\ UNCHANGED <<began, bindings, summary, capital>>

\* The third reading of the clock.
RootedTcb(now) ==
  {evidence[i].payload.name : i \in {j \in OfKind("tcb") \cap Fitting(now) :
     evidence[j].payload.status = "ok" /\ evidence[j].payload.rooted}}

\* Variant: the witnesses are forgotten.
CheckTcbWithoutWitnesses ==
  /\ Go("tcb", "bind",
        LET needed == UNION ({evidence[i].tcb : i \in DOMAIN evidence}
                             \cup {c.tcb : c \in Contracts})
        IN When(~(needed \subseteq RootedTcb(clock)), "unmet TCB requirement"))
  /\ UNCHANGED <<began, bindings, summary, capital>>

CheckTcb ==
  /\ Go("tcb", "bind",
        LET needed == UNION ({evidence[i].tcb : i \in DOMAIN evidence}
                             \cup {c.tcb : c \in Contracts} \cup {w.tcb : w \in Witnesses})
        IN When(~(needed \subseteq RootedTcb(clock)), "unmet TCB requirement"))
  /\ UNCHANGED <<began, bindings, summary, capital>>

----------------------------------------------------------------------------
(* Bindings of terms to witnesses                                          *)

\* "" is an empty digest or scope; a contract may expect none.
WitnessReasons(c, w) ==
  IF w.exposes # c.exposes THEN {"witness exposes another term"}
  ELSE When(w.input = "" \/ ~(c.input \subseteq {w.input}), "input digest") \cup
       When(w.checker = "" \/ ~(c.checker \subseteq {w.checker}), "checker digest") \cup
       When(c.scope # "" /\ w.scope # c.scope, "witness scope") \cup
       When(~(c.tcb \subseteq w.tcb), "witness TCB") \cup
       When(~w.output, "witness lacks output")

ContractReasons(c) ==
  IF AcceptedFor(c) = {} THEN {"contract without accepted witness"}
  ELSE When(~(c.dependencies \subseteq Refs), "dependency unavailable") \cup
       IF Len(c.exposes) # 1 THEN {"not exactly one term"}
       ELSE UNION {WitnessReasons(c, w) : w \in AcceptedFor(c)}

BindingsOf(c) ==
  {[term |-> c.exposes[1], dependencies |-> c.dependencies, value |-> w.value] :
     w \in {x \in AcceptedFor(c) : x.output /\ Len(c.exposes) = 1 /\ x.exposes = c.exposes}}

BindContracts ==
  /\ Go("bind", "uncertainty", UNION {ContractReasons(c) : c \in Contracts})
  /\ bindings' = UNION {BindingsOf(c) : c \in Contracts}
  /\ UNCHANGED <<began, summary, capital>>

BoundTo(terms) == {b \in bindings : b.term \in terms}
Values(bs) == UNION {b.value : b \in bs}

\* Variant: several contracts may name the sources between them.
DependsTogether(bs, ids) == bs # {} /\ ids \subseteq UNION {b.dependencies : b \in bs}

Depends(bs, ids) == \E b \in bs : ids \subseteq b.dependencies

First(S) == CHOOSE i \in S : \A j \in S : i <= j
PayloadOf(k) == evidence[First(OfKind(k))].payload

\* The first graph decides.
Graph == PayloadOf("validation_dependency_graph")

\* The first uncertainty contract decides.
CheckUncertainty ==
  /\ Go("uncertainty", "capacities",
        LET S == OfKind("uncertainty_contract") IN
        IF S = {} THEN {"no uncertainty contract"}
        ELSE When(~PayloadOf("uncertainty_contract").nonempty, "uncertainty contract may be empty"))
  /\ UNCHANGED <<began, bindings, summary, capital>>

\* Capacities may be bound by id or by name.  Every value accepted for the edge
\* counts, once one of the contracts depends on the evidence of the edge.
SameName(e) == {i \in DOMAIN network.edges : network.edges[i].name = e.name}

EdgeReasons(e) ==
  LET byId == BoundTo({CapacityOf(e.id)})
      byName == BoundTo({CapacityOf(e.name)})
      bound == byId \cup byName IN
  IF byId = {} /\ byName # {} /\ Cardinality(SameName(e)) > 1 THEN {"ambiguous edge name"}
  ELSE IF bound = {} THEN {"edge capacity unbound"}
  ELSE IF ~Depends(bound, e.evidence) THEN {"capacity without edge evidence"}
  ELSE When(\A v \in Values(bound) : v < e.capacity * Unit, "capacity below declared")

CheckCapacities ==
  /\ Go("capacities", "queue",
        UNION {EdgeReasons(network.edges[i]) : i \in DOMAIN network.edges})
  /\ UNCHANGED <<began, bindings, summary, capital>>

----------------------------------------------------------------------------
(* Errors                                                                  *)

\* What ends the analysis with an error: a parameter of a statistical certificate
\* or a limit that int() or float() refuses, and a negative demand in all, which
\* RootCutCertificate refuses.
Raises ==
  \/ pc = "statistics" /\ \E p \in Payloads("statistical_certificate") : p.raises
  \/ pc = "budget" /\ OfKind("confidence_budget") # ValidOfKind("confidence_budget")
  \/ pc = "cut" /\ CutIsFinal /\ TotalDemand(Graph) < 0

Raise ==
  /\ Raises
  /\ pc' = "raised"
  /\ UNCHANGED <<bundle, clock, began, limitations, bindings, summary, report, capital>>

----------------------------------------------------------------------------
(* Charges and lower bounds of the certificates                            *)

Charged(t, amount, ids) ==
  [summary EXCEPT !.charge[t] = amount, !.refs[t] = ids]

\* The first certificate of the kind is the one that counts, even a malformed one.
ChargeOfFirst(k, t) ==
  LET S == OfKind(k) IN
  summary' = IF S = {} \/ ~evidence[First(S)].valid THEN summary
             ELSE Charged(t, evidence[First(S)].payload.charge, {evidence[First(S)].id})

ReasonsOfFirst(k, reasons) ==
  LET S == OfKind(k) IN
  IF S = {} THEN {"no certificate"}
  ELSE IF ~evidence[First(S)].valid THEN {"invalid certificate"}
  ELSE reasons

QueueReasons ==
  LET p == PayloadOf("queue_certificate") IN
  When(~(p.no_phantom_release /\ p.bounded_increments), "queue certificate failed") \cup
  When(p.charge > 0 /\ ~p.derived, "queue correction without derivation")

CheckQueue ==
  /\ Go("queue", "release", ReasonsOfFirst("queue_certificate", QueueReasons))
  /\ ChargeOfFirst("queue_certificate", "queue_boundary")
  /\ UNCHANGED <<began, bindings, capital>>

ReleaseReasons ==
  When(~PayloadOf("release_accounting").disjoint, "release ledgers not disjoint")

CheckRelease ==
  /\ Go("release", "accounts", ReasonsOfFirst("release_accounting", ReleaseReasons))
  /\ ChargeOfFirst("release_accounting", "release_accounting")
  /\ UNCHANGED <<began, bindings, capital>>

\* Of several Goodhart accounts, and of several open-world accounts, the last
\* one that can be read is charged; all of them must be depended on.
AccountOf == [goodhart_charge |-> "goodhart_account", open_world_charge |-> "open_world_account"]

AccountReasons(k) ==
  When(OfKind(k) # ValidOfKind(k), "invalid account") \cup
  When(\E p \in Payloads(k) : ~p.constructed /\ (k = "open_world_account" \/ p.charge > 0),
       "account without construction evidence")

CheckAccounts ==
  /\ Go("accounts", "statistics", AccountReasons("goodhart_account")
                                  \cup AccountReasons("open_world_account"))
  /\ LET valid(t) == ValidOfKind(AccountOf[t])
         counted == {t \in DOMAIN AccountOf : valid(t) # {}} IN
     summary' = [summary EXCEPT
       !.charge = [t \in ChargeTerms |-> IF t \in counted
                     THEN evidence[Max(valid(t))].payload.charge ELSE @[t]],
       !.refs = [t \in ReportTerms |-> IF t \in counted
                   THEN {evidence[i].id : i \in valid(t)} ELSE @[t]]]
  /\ UNCHANGED <<began, bindings, capital>>

\* evaluate_statistical_certificate: what it refuses, and the lower bound.
Refused(p) ==
  \/ p.b < 0 \/ p.eps < 0
  \/ p.form = "one_step_dr" /\ (p.n <= 0 \/ p.candidates <= 0
                                 \/ p.delta \cap (1..(Million * Micro - 1)) = {})
  \/ p.form = "time_uniform" /\ (p.delta_val < 0 \/ p.delta_path < 0
                                  \/ p.delta_val + p.delta_path > p.max_delta)

\* Variant: the radius of a path law is one-sided.
OneSidedLower(p) == p.q - p.b * p.eps

PathLower(p) == p.q - 2 * p.b * p.eps

StatisticalLower(p) ==
  IF p.form = "one_step_dr"
  THEN p.q - Radius(p.b, p.n, p.candidates, CHOOSE d \in p.delta : TRUE) - p.eps
  ELSE PathLower(p)

Statistical == {i \in ValidOfKind("statistical_certificate") : ~Refused(evidence[i].payload)}
Paths == ValidOfKind("path_law_certificate")

\* Only a parameter called delta is counted, not those of a time-uniform bound, and
\* only if it is a number; what is less than a microunit is dropped.
Numeric == {i \in Statistical : evidence[i].payload.numeric}
Spent(p) == Max(p.delta \cup {0})
CountedDelta(p) == Spent(p) \div Micro

CheckStatistics ==
  /\ ~Raises
  /\ Go("statistics", "terms",
        When(Statistical # OfKind("statistical_certificate"), "invalid statistical certificate") \cup
        When(Paths # OfKind("path_law_certificate"), "invalid path-law certificate") \cup
        When(Statistical \cup Paths = {}, "no certificate of a lower bound"))
  /\ summary' = [summary EXCEPT
       !.lowers = [statistical_lower |-> {StatisticalLower(evidence[i].payload) : i \in Statistical},
                   path_law_lower |-> {PathLower(evidence[i].payload) : i \in Paths}],
       !.refs = [@ EXCEPT !["statistical_lower"] = {evidence[i].id : i \in Statistical},
                          !["path_law_lower"] = {evidence[i].id : i \in Paths}],
       !.delta = SumFunction([i \in Numeric |-> CountedDelta(evidence[i].payload)])
                 + SumFunction([i \in Paths |-> evidence[i].payload.delta])]
  /\ UNCHANGED <<began, bindings, capital>>

----------------------------------------------------------------------------
(* Terms of the report                                                     *)

\* Lower bounds without a certificate need no binding; charges always do.
Expected == ChargeTerms \cup {t \in LowerTerms : summary.lowers[t] # {}}

\* The value taken for a term: none unless some contract depends on its sources.
AcceptedValue(t) ==
  LET bound == BoundTo({Term(t)}) IN
  IF Depends(bound, summary.refs[t]) /\ Values(bound) # {} THEN {Max(Values(bound))} ELSE {}

TermReasons(t) ==
  LET value == AcceptedValue(t) IN
  When(value = {}, "term unbound") \cup
  IF t \in LowerTerms
  THEN When(\E v \in value : v > Min(summary.lowers[t]), "bound exceeds certificate")
  ELSE When(\E v \in value : v < summary.charge[t], "charge below certificate")

\* An accepted charge replaces the one of the certificate.
BindReportTerms ==
  /\ Go("terms", "budget", UNION {TermReasons(t) : t \in Expected})
  /\ summary' = [summary EXCEPT
       !.bounds = [t \in LowerTerms |-> IF t \in Expected THEN AcceptedValue(t) ELSE {}],
       !.charge = [t \in ChargeTerms |->
                     IF AcceptedValue(t) = {} THEN @[t] ELSE CHOOSE v \in AcceptedValue(t) : TRUE]]
  /\ UNCHANGED <<began, bindings, capital>>

\* A budget without a limit has one of -1.
LimitOf(p) == IF p.limit = {} THEN -1 ELSE CHOOSE l \in p.limit : TRUE

\* Variant: the most generous limit.
LoosestLimit == Max({LimitOf(p) : p \in Payloads("confidence_budget")})

BudgetLimit == Min({LimitOf(p) : p \in Payloads("confidence_budget")})

ConfidenceUsed ==
  SumFunction([i \in DOMAIN evidence |-> evidence[i].confidence])
  + SumFunction([i \in ValidOfKind("evidence_contract") |-> evidence[i].payload.budget])
  + summary.delta

CheckBudget ==
  /\ ~Raises
  /\ Go("budget", "capital",
        IF OfKind("confidence_budget") = {} THEN {"no confidence budget"}
        ELSE When(ConfidenceUsed > BudgetLimit, "confidence budget exceeded"))
  /\ UNCHANGED <<began, bindings, summary, capital>>

----------------------------------------------------------------------------
(* Validation capital                                                      *)

\* A malformed graph stops the check.
StartCapital ==
  LET S == OfKind("validation_dependency_graph") IN
  IF S # {} /\ evidence[First(S)].valid
  THEN /\ Go("capital", "cut", {})
       /\ StartCut(Graph)
       /\ UNCHANGED <<began, bindings, summary>>
  ELSE /\ Go("capital", "report", {"no validation dependency graph"})
       /\ UNCHANGED <<began, bindings, summary, capital>>

AugmentCapital ==
  /\ pc = "cut"
  /\ AugmentCut
  /\ UNCHANGED full

\* Variant: the search goes on until all demand is served.
JudgeWhenServed ==
  /\ ~Raises
  /\ Go("cut", "report", When(BlockedNodes(Graph) # {}, "rootless validation nodes"))
  /\ SupportedDemand(Graph) >= DeclaredDemand(Graph)
  /\ UNCHANGED <<began, bindings, summary, capital>>

JudgeCapital ==
  /\ pc = "cut" /\ CutIsFinal /\ ~Raises
  /\ Go("cut", "report",
        When(BlockedNodes(Graph) # {}, "rootless validation nodes") \cup
        When(SupportedDemand(Graph) < DeclaredDemand(Graph), "root cut below demand"))
  /\ UNCHANGED <<began, bindings, summary, capital>>

----------------------------------------------------------------------------
(* The flow relaxation (adapters/scipy_flow.py) and the report             *)

Edges == DOMAIN network.edges

Certified(e) == VG!Positive(e.capacity - e.deducted)

CertifiedCapacities == [i \in Edges |-> Certified(network.edges[i])]

LPCapacities(c) ==
  LET Between(a) == {i \in Edges : <<network.edges[i].from, network.edges[i].to>> = a} IN
  [a \in LP!Arcs |->
     IF a[1] = "__cwc_source__" THEN IF a[2] \in network.sources THEN bundle.target ELSE 0
     ELSE IF a[2] = "__cwc_sink__" THEN IF a[1] \in network.sinks THEN bundle.target ELSE 0
     ELSE IF {a[1], a[2]} \subseteq network.nodes THEN SumFunctionOnSet(c, Between(a)) ELSE 0]

\* _solve_value: the optimum of the linear program is the least cut.  Only listed
\* nodes conserve flow: what enters at an unlisted source needs no way out.
Flow(c) ==
  LET loose == Cardinality(network.sources \ network.nodes) * bundle.target IN
  Min({bundle.target, loose + LP!MinCut(LPCapacities(c))})

\* A capacity is overridden on every edge of the id.
Override(i, x) ==
  [j \in Edges |-> IF network.edges[j].id = network.edges[i].id
                   THEN x ELSE CertifiedCapacities[j]]

\* Variant: only the forward price.
ForwardPrice(i) ==
  VG!Positive(Flow(Override(i, CertifiedCapacities[i] + 1)) - Flow(CertifiedCapacities))

\* The upper end of the dual price interval of an edge.
UpperPrice(i) ==
  LET base == Flow(CertifiedCapacities)
      up == Flow(Override(i, CertifiedCapacities[i] + 1))
      down == Flow(Override(i, VG!Positive(CertifiedCapacities[i] - 1)))
  IN Max({0, up - base, base - down})

\* The interval of an id is that of its last edge.
Bottlenecks ==
  {network.edges[i].id : i \in {j \in Edges :
     /\ \A k \in Edges : network.edges[k].id = network.edges[j].id => k <= j
     /\ UpperPrice(j) > 0}}

\* Variant: the charges are not deducted.
UnchargedBound ==
  VG!Positive(Min({Flow(CertifiedCapacities) * Unit}
                  \cup UNION {summary.lowers[t] : t \in LowerTerms}) \div Unit)

\* Variant: the bound may be negative.
UnclampedBound ==
  (Min({Flow(CertifiedCapacities) * Unit} \cup UNION {summary.lowers[t] : t \in LowerTerms})
     - SumFunction(summary.charge)) \div Unit

\* _compose_full_lower_bound
ComposedBound ==
  LET cap == Min({Flow(CertifiedCapacities) * Unit}
                 \cup UNION {summary.lowers[t] \cup summary.bounds[t] : t \in LowerTerms})
  IN VG!Positive((cap - SumFunction(summary.charge)) \div Unit)

GatesHold == \A i \in Edges : ~network.edges[i].blocked

Blocked == [NoReport EXCEPT !.status = "blocked"]

Report ==
  /\ pc = "report"
  /\ pc' = "done"
  /\ limitations' = limitations \cup When(~GatesHold, "hard gates")
  /\ report' = IF limitations' # {} THEN Blocked
               ELSE [status |-> "ok", bound |-> ComposedBound, bottlenecks |-> Bottlenecks]
  /\ UNCHANGED <<bundle, clock, began, bindings, summary, capital>>

\* The solver may fail on any program; the report is blocked then.
SolverFails ==
  /\ pc = "report"
  /\ limitations = {} /\ GatesHold
  /\ pc' = "done"
  /\ limitations' = {"flow relaxation failed"}
  /\ report' = Blocked
  /\ UNCHANGED <<bundle, clock, began, bindings, summary, capital>>

Validate ==
  \/ CheckClaim \/ CheckKinds \/ ParseContractsAndWitnesses \/ CheckSplit \/ CheckTcb
  \/ BindContracts \/ CheckUncertainty \/ CheckCapacities \/ CheckQueue \/ CheckRelease
  \/ CheckAccounts \/ CheckStatistics \/ BindReportTerms \/ CheckBudget
  \/ StartCapital \/ AugmentCapital \/ JudgeCapital \/ Report \/ SolverFails

Next == Validate \/ Raise \/ Tick

\* The thread of the analysis runs on; the clock owes it nothing.
Spec == Init /\ [][Next]_vars /\ WF_vars(Validate \/ Raise)

----------------------------------------------------------------------------
\* The steps in their order; after an error nothing has been passed.
Stage ==
  [raised |-> 0, claim |-> 1, kinds |-> 2, parse |-> 3, split |-> 4, tcb |-> 5, bind |-> 6,
   uncertainty |-> 7, capacities |-> 8, queue |-> 9, release |-> 10, accounts |-> 11,
   statistics |-> 12, terms |-> 13, budget |-> 14, capital |-> 15, cut |-> 16,
   report |-> 17, done |-> 18]

\* The reasons to block a report.
Reasons ==
  {"claim unsupported", "no explicit ends", "inactive evidence", "missing evidence kinds",
   "invalid contract or witness", "inactive contract", "rejected witness", "empty split",
   "split names unavailable evidence", "split overlaps", "unmet TCB requirement",
   "contract without accepted witness", "dependency unavailable", "not exactly one term",
   "witness exposes another term", "input digest", "checker digest", "witness scope",
   "witness TCB", "witness lacks output", "no uncertainty contract",
   "uncertainty contract may be empty", "ambiguous edge name", "edge capacity unbound",
   "capacity without edge evidence", "capacity below declared", "no certificate",
   "invalid certificate", "queue certificate failed", "queue correction without derivation",
   "release ledgers not disjoint", "invalid account", "account without construction evidence",
   "invalid statistical certificate", "invalid path-law certificate",
   "no certificate of a lower bound", "term unbound", "bound exceeds certificate",
   "charge below certificate", "no confidence budget", "confidence budget exceeded",
   "no validation dependency graph", "rootless validation nodes", "root cut below demand",
   "hard gates", "flow relaxation failed"}

TypeOK ==
  /\ clock \in 0..MaxTime /\ began \in 0..clock
  /\ pc \in DOMAIN Stage
  /\ limitations \subseteq Reasons
  /\ \A b \in bindings : b.dependencies \subseteq STRING /\ b.value \subseteq Int
  /\ \A t \in ChargeTerms : summary.charge[t] \in Int
  /\ \A t \in ReportTerms : summary.refs[t] \subseteq Refs
  /\ \A t \in LowerTerms : summary.lowers[t] \subseteq Int /\ summary.bounds[t] \subseteq Int
  /\ summary.delta \in Nat
  /\ report.status \in {"none", "ok", "blocked"} /\ report.bound \in Nat
  /\ residual \in [VG!Arcs -> Int] /\ cut \in Nat

Ok == report.status = "ok"

CertificateLowers ==
  {StatisticalLower(p) : p \in Payloads("statistical_certificate")}
    \cup {PathLower(p) : p \in Payloads("path_law_certificate")}

\* The first queue and release certificates and the last two accounts.
CountedCharges ==
  PayloadOf("queue_certificate").charge + PayloadOf("release_accounting").charge
  + evidence[Max(OfKind("goodhart_account"))].payload.charge
  + evidence[Max(OfKind("open_world_account"))].payload.charge

\* Sets of nodes that hold the sources and not the sinks, and what leaves them.
NetworkCuts == {S \in SUBSET NetNodes : network.sources \subseteq S /\ network.sinks \cap S = {}}

Leaving(S) ==
  {i \in Edges : network.edges[i].from \in S /\ network.edges[i].to \notin S}

\* A positive lower bound leaves room for the charges of the evidence under every
\* certificate and under every cut of the network, whatever numbers the
\* witnesses accepted.  (Five validators and _compose_full_lower_bound hand the
\* numbers on in one dictionary that some of them overwrite.)
FullBoundIsSound ==
  Ok /\ report.bound > 0 =>
    /\ CertificateLowers # {}
    /\ \A l \in CertificateLowers : report.bound * Unit + CountedCharges <= l
    /\ report.bound <= bundle.target
    /\ network.sources \subseteq network.nodes =>
         \A S \in NetworkCuts :
           report.bound * Unit + CountedCharges
             <= Unit * SumFunctionOnSet(CertifiedCapacities, Leaving(S))

\* When an ok report is made, all of its evidence was fit at one moment, that of
\* the first reading of the clock, including the objects of no required kind and
\* the roots of trust that evidence, contracts and witnesses rely on.
\* (can_support_claim reads the clock again for every object and validator.)
OkRestsOnFitEvidence ==
  Ok => /\ Fitting(began) = DOMAIN evidence
        /\ RequiredKinds \subseteq {x.kind : x \in Range(evidence)}
        /\ UNION ({x.tcb : x \in Range(evidence)} \cup {c.tcb : c \in Contracts}
                  \cup {w.tcb : w \in Witnesses})
             \subseteq RootedTcb(began)

\* Evidence used on both sides of a split is excused only if every contract is
\* composed by an adaptive rule that a witness which binds its term declares.
\* (_has_overlap_composition_witness looks at any accepted witness; only
\* _validate_contract_witness_binding makes that one a binding witness.)
SplitIsHonest ==
  Ok /\ Overlap(bundle.split) # {} =>
    \A c \in Contracts :
      /\ c.compose \in AdaptiveRules
      /\ \E w \in Witnesses :
           /\ w.accepted /\ w.contract_id = c.contract_id /\ w.rule \in AdaptiveRules
           /\ w.exposes = c.exposes /\ w.output
           /\ [term |-> c.exposes[1], dependencies |-> c.dependencies, value |-> w.value]
                \in bindings

\* The sources of each charge and bound in the report.
SourcesOf(t) ==
  LET ids(k) == {evidence[i].id : i \in OfKind(k)}
      first(k) == {evidence[First(OfKind(k))].id} IN
  CASE t = "statistical_lower" -> ids("statistical_certificate")
    [] t = "path_law_lower"    -> ids("path_law_certificate")
    [] t = "queue_boundary"    -> first("queue_certificate")
    [] t = "release_accounting" -> first("release_accounting")
    [] t = "goodhart_charge"   -> ids("goodhart_account")
    [] t = "open_world_charge" -> ids("open_world_account")

\* A contract and an accepted witness of it that expose x and nothing else, the
\* witness with the digests, the scope and the roots of trust the contract asks for.
Vouches(c, w, x) ==
  /\ c.exposes = <<x>> /\ w.exposes = c.exposes
  /\ w.accepted /\ w.contract_id = c.contract_id
  /\ c.input \subseteq {w.input} /\ c.checker \subseteq {w.checker}
  /\ c.scope \in {"", w.scope} /\ c.tcb \subseteq w.tcb

\* For every term of an ok report one contract names all of its sources, and an
\* accepted witness vouches for that very term; for every edge one contract names
\* its support, some witness vouches for its capacity, and one does by id if other
\* edges share the name.  (Sources, terms and witnesses are matched by three
\* validators that each look for any match.)  That the two are one contract is what
\* the docs add for edges and the code does not check: see OkKeepsSomePromise.
EveryTermIsWitnessed ==
  Ok =>
    /\ \A t \in ReportTerms : \E c \in Contracts, w \in Witnesses :
         Vouches(c, w, Term(t)) /\ SourcesOf(t) \subseteq c.dependencies
    /\ \A e \in Range(network.edges) :
         LET names == {CapacityOf(e.id), CapacityOf(e.name)} IN
         /\ \E c \in Contracts, w \in Witnesses, x \in names :
              Vouches(c, w, x) /\ e.evidence \subseteq c.dependencies
         /\ \E c \in Contracts, w \in Witnesses, x \in names :
              Vouches(c, w, x) /\ \E v \in w.value : v >= e.capacity * Unit
         /\ Cardinality(SameName(e)) > 1 =>
              \E c \in Contracts, w \in Witnesses : Vouches(c, w, CapacityOf(e.id))

\* Evidence, contracts, path laws and the statistical certificates at the places S
\* spend no more than each budget allows, up to a fraction of a microunit for each
\* of these certificates.
Paid(S) ==
  \A p \in Payloads("confidence_budget") :
    Micro * (SumFunction([i \in DOMAIN evidence |-> evidence[i].confidence])
             + SumFunction([i \in OfKind("evidence_contract") |-> evidence[i].payload.budget])
             + SumFunction([i \in OfKind("path_law_certificate") |-> evidence[i].payload.delta]))
    + SumFunction([i \in S |-> Spent(evidence[i].payload)])
      <= Micro * LimitOf(p) + (Micro - 1) * Cardinality(S)

\* An ok report spends no more confidence than the strictest budget allows, but for
\* fractions of a microunit: that of the evidence, which may be negative, of the
\* contracts, of the path laws and of the statistical certificates whose delta is a
\* number.  (A delta that is a string is spent for nothing: see OkKeepsSomePromise.)
ConfidenceIsPaid ==
  Ok => Paid({i \in OfKind("statistical_certificate") : evidence[i].payload.numeric})

\* The edges of a graph that leave a set of nodes, and what they carry.
Outward(g, S) == {i \in DOMAIN g.edges : g.edges[i].from \in S /\ g.edges[i].to \notin S}
Carried(g, S) == SumFunction([i \in Outward(g, S) |-> VG!Positive(EdgeCapacity(g, g.edges[i]))])

DemandsIn(g, S) ==
  SumFunctionOnSet([n \in GraphNodes |-> VG!Positive(DemandOf(g, n))], Demanded(g) \cap S)

\* The roots can serve the demands of all demand nodes at once: whatever set of
\* nodes holds the roots, the edges that leave it carry the demands outside.
Served(g) ==
  \A S \in SUBSET GraphNodes :
    g.roots \subseteq S => DemandsIn(g, GraphNodes \ S) <= Carried(g, S)

\* In an ok report every demand node is joined to a root, and the roots can send as
\* much as is declared: in any set of nodes that holds the roots that much is
\* demanded, or leaves it.  If no demand is negative, no demand is declared for
\* another node and the roots can serve all of them.  (Found by augmenting paths,
\* one at a time, over a dictionary of residuals.  A negative demand makes the
\* declared sum less than what the nodes demand: see OkKeepsSomePromise.)
RootedCapital ==
  Ok => LET g == Graph IN
    /\ \A S \in SUBSET GraphNodes : g.roots \subseteq S =>
         /\ Outward(g, S) = {} => Demanded(g) \subseteq S
         /\ DeclaredDemand(g) <= DemandsIn(g, S) + Carried(g, S)
    /\ (\A n \in DOMAIN g.demands : g.demands[n] >= 0) =>
         /\ {n \in DOMAIN g.demands : g.demands[n] > 0} \subseteq Demanded(g)
         /\ Served(g)

\* While the network holds the bound back, the reported bottlenecks include every
\* edge of every least cut, also where several edges in a row share the blame.
\* (solve_conservative_flow solves two perturbed programs for each edge.)
BottlenecksContainMinCuts ==
  LET flow == Flow(CertifiedCapacities)
      crossing(S) == SumFunctionOnSet(CertifiedCapacities, Leaving(S)) IN
  /\ Ok /\ network.sources \subseteq network.nodes /\ flow < bundle.target
  /\ \A i, j \in Edges : network.edges[i].id = network.edges[j].id => i = j
  => \A S \in NetworkCuts : crossing(S) = flow =>
       \A i \in Leaving(S) :
         CertifiedCapacities[i] > 0 => network.edges[i].id \in report.bottlenecks

\* Why these hold.  What a validator that has run found in order is still in order,
\* as long as nothing blocks the report; the report is made last.
Passed(step) == Stage[pc] > Stage[step]

Unblocked == limitations = {}

EvidenceIsChecked ==
  Unblocked =>
    /\ Passed("claim") => Fitting(began) = DOMAIN evidence
    /\ Passed("kinds") => RequiredKinds \subseteq {x.kind : x \in Range(evidence)}
    /\ Passed("parse") => OfKind("evidence_contract") = ValidOfKind("evidence_contract")
    /\ Passed("split") => SplitReasons(bundle.split) = {}
    /\ Passed("tcb") =>
         UNION ({x.tcb : x \in Range(evidence)} \cup {c.tcb : c \in Contracts}
                \cup {w.tcb : w \in Witnesses})
           \subseteq RootedTcb(began)

BindingsAreChecked ==
  /\ Passed("bind") => bindings = UNION {BindingsOf(c) : c \in Contracts}
  /\ Unblocked =>
       /\ Passed("bind") => \A c \in Contracts : ContractReasons(c) = {}
       /\ Passed("capacities") => \A e \in Range(network.edges) : EdgeReasons(e) = {}

\* The validator that collects the sources of a term.
CollectedAt ==
  [queue_boundary |-> "queue", release_accounting |-> "release", goodhart_charge |-> "accounts",
   open_world_charge |-> "accounts", statistical_lower |-> "statistics",
   path_law_lower |-> "statistics"]

TermsAreChecked ==
  Unblocked =>
    \A t \in ReportTerms :
      /\ Passed(CollectedAt[t]) => summary.refs[t] = SourcesOf(t)
      /\ Passed("statistics") /\ t \in LowerTerms => summary.lowers[t] # {}
      /\ Passed("terms") => Depends(BoundTo({Term(t)}), SourcesOf(t))

CertifiedCharge(t) ==
  CASE t = "queue_boundary"     -> PayloadOf("queue_certificate").charge
    [] t = "release_accounting" -> PayloadOf("release_accounting").charge
    [] t = "goodhart_charge"    -> evidence[Max(OfKind("goodhart_account"))].payload.charge
    [] t = "open_world_charge"  -> evidence[Max(OfKind("open_world_account"))].payload.charge

NumbersAreChecked ==
  /\ Passed("statistics") =>
       /\ summary.lowers["statistical_lower"] =
            {StatisticalLower(evidence[i].payload) : i \in Statistical}
       /\ summary.lowers["path_law_lower"] = {PathLower(evidence[i].payload) : i \in Paths}
       /\ summary.delta = SumFunction([i \in Numeric |-> CountedDelta(evidence[i].payload)])
                          + SumFunction([i \in Paths |-> evidence[i].payload.delta])
  /\ Unblocked =>
       /\ Passed("statistics") => /\ Statistical = OfKind("statistical_certificate")
                                  /\ Paths = OfKind("path_law_certificate")
       /\ \A t \in ChargeTerms : Passed(CollectedAt[t]) =>
            IF Passed("terms") THEN summary.charge[t] >= CertifiedCharge(t)
            ELSE summary.charge[t] = CertifiedCharge(t)
       /\ Passed("budget") => ConfidenceUsed <= BudgetLimit

ReportIsLast ==
  /\ pc # "done" => report = NoReport
  /\ report \in {NoReport, Blocked} \/ Ok
  /\ Ok => /\ Unblocked /\ GatesHold
           /\ report.bound = ComposedBound /\ report.bottlenecks = Bottlenecks

\* What the docs promise of an ok report beyond that.  The contract that names the
\* support of an edge also vouches for its capacity (docs/reporting_protocol.md:32-35);
\* what is over budget is blocked, however a delta is written
\* (docs/theory_mapping.md:45-48); demanded nodes are within the capacity of the
\* root cut (docs/reporting_protocol.md:20-21).
CapacityFromSupport ==
  \A e \in Range(network.edges) :
    \E b \in BoundTo({CapacityOf(e.id), CapacityOf(e.name)}) :
      e.evidence \subseteq b.dependencies /\ \E v \in b.value : v >= e.capacity * Unit

EveryDeltaIsPaid == Paid(OfKind("statistical_certificate"))

DemandIsWithinRootCut == Served(Graph)

\* An ok report keeps at least one of the three promises.  A report that breaks it
\* has none of them.
OkKeepsSomePromise ==
  Ok => CapacityFromSupport \/ EveryDeltaIsPaid \/ DemandIsWithinRootCut

\* The inputs that make a validator raise an error.
Unreadable ==
  \/ \E p \in Payloads("statistical_certificate") : p.raises
  \/ OfKind("confidence_budget") # ValidOfKind("confidence_budget")
  \/ LET S == OfKind("validation_dependency_graph") IN
     S # {} /\ evidence[First(S)].valid /\ TotalDemand(Graph) < 0

\* Every analysis ends: with a report, or with an error if the evidence has one of
\* the payloads that raise.  The search for augmenting paths ends.
EveryReportEnds == <>(pc = "done" \/ (pc = "raised" /\ Unreadable))
=============================================================================
