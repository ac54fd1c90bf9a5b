----------------------- MODULE FullCertification_proofs -----------------------
(***************************************************************************)
(* Proofs about the full certification profile for any bundle and any      *)
(* timing of the clock: what an ok report rests on, the flows behind its   *)
(* bound and its bottlenecks, the root cut of the validation capital, and  *)
(* the types of the state.                                                 *)
(***************************************************************************)
EXTENDS FullCertification, SumsAndFlows, SequenceTheorems

----------------------------------------------------------------------------
(* The order of the steps                                                  *)

\* Every step but an error.
Going == [Validate \/ Tick]_vars

LEMMA GoingOrRaise == [Next]_vars => Going \/ Raise
BY DEF Going, Next

\* An error ends the analysis and leaves the rest as it is.
LEMMA RaiseStops ==
  ASSUME Raise
  PROVE  /\ UNCHANGED <<bundle, clock, began, limitations, bindings, summary, report, capital>>
         /\ pc # "done" /\ pc' = "raised" /\ pc' \in DOMAIN Stage
         /\ \A s \in DOMAIN Stage : ~Passed(s)'
<1>1. /\ UNCHANGED <<bundle, clock, began, limitations, bindings, summary, report, capital>>
      /\ pc' = "raised" /\ pc \in {"statistics", "budget", "cut"}
  BY DEF Raise, Raises
<1>2. Stage["raised"] = 0 /\ "raised" \in DOMAIN Stage
  BY DEF Stage
<1>3. \A s \in DOMAIN Stage : ~(Stage["raised"] > Stage[s])
  BY DEF Stage
<1>4. \A s \in DOMAIN Stage : ~Passed(s)'
  BY <1>1, <1>3 DEF Passed
<1> QED BY <1>1, <1>2, <1>4

\* Most steps do not touch the report, and none changes the bundle.
Quietly == UNCHANGED <<bundle, began, pc, limitations, bindings, summary, report>>

\* A step goes from one place to another and only adds reasons to block.
Goes(here, there) ==
  pc = here /\ pc' = there /\ bundle' = bundle /\ limitations \subseteq limitations'

LEMMA EveryStepGoesOn ==
  /\ CheckClaim => Goes("claim", "kinds")
  /\ CheckKinds => Goes("kinds", "parse")
  /\ ParseContractsAndWitnesses => Goes("parse", "split")
  /\ CheckSplit => Goes("split", "tcb")
  /\ CheckTcb => Goes("tcb", "bind")
  /\ BindContracts => Goes("bind", "uncertainty")
  /\ CheckUncertainty => Goes("uncertainty", "capacities")
  /\ CheckCapacities => Goes("capacities", "queue")
  /\ CheckQueue => Goes("queue", "release")
  /\ CheckRelease => Goes("release", "accounts")
  /\ CheckAccounts => Goes("accounts", "statistics")
  /\ CheckStatistics => Goes("statistics", "terms")
  /\ BindReportTerms => Goes("terms", "budget")
  /\ CheckBudget => Goes("budget", "capital")
  /\ StartCapital => Goes("capital", "cut") \/ Goes("capital", "report")
  /\ JudgeCapital => Goes("cut", "report")
  /\ Report \/ SolverFails => Goes("report", "done")
<1>0. ASSUME NEW here, NEW there, NEW reasons, Go(here, there, reasons) PROVE Goes(here, there)
  BY <1>0 DEF Go, Goes
<1>1. CheckClaim => Goes("claim", "kinds")
  BY <1>0 DEF CheckClaim
<1>2. CheckKinds => Goes("kinds", "parse")
  BY <1>0 DEF CheckKinds
<1>3. ParseContractsAndWitnesses => Goes("parse", "split")
  BY <1>0 DEF ParseContractsAndWitnesses
<1>4. CheckSplit => Goes("split", "tcb")
  BY <1>0 DEF CheckSplit
<1>5. CheckTcb => Goes("tcb", "bind")
  BY <1>0 DEF CheckTcb
<1>6. BindContracts => Goes("bind", "uncertainty")
  BY <1>0 DEF BindContracts
<1>7. CheckUncertainty => Goes("uncertainty", "capacities")
  BY <1>0 DEF CheckUncertainty
<1>8. CheckCapacities => Goes("capacities", "queue")
  BY <1>0 DEF CheckCapacities
<1>9. CheckQueue => Goes("queue", "release")
  BY <1>0 DEF CheckQueue
<1>10. CheckRelease => Goes("release", "accounts")
  BY <1>0 DEF CheckRelease
<1>11. CheckAccounts => Goes("accounts", "statistics")
  BY <1>0 DEF CheckAccounts
<1>12. CheckStatistics => Goes("statistics", "terms")
  BY <1>0 DEF CheckStatistics
<1>13. BindReportTerms => Goes("terms", "budget")
  BY <1>0 DEF BindReportTerms
<1>14. CheckBudget => Goes("budget", "capital")
  BY <1>0 DEF CheckBudget
<1>15. StartCapital => Goes("capital", "cut") \/ Goes("capital", "report")
  BY <1>0 DEF StartCapital
<1>16. JudgeCapital => Goes("cut", "report")
  BY <1>0 DEF JudgeCapital
<1>17. Report \/ SolverFails => Goes("report", "done")
  BY DEF Report, SolverFails, Goes
<1> QED BY <1>1, <1>2, <1>3, <1>4, <1>5, <1>6, <1>7, <1>8, <1>9, <1>10, <1>11, <1>12, <1>13,
           <1>14, <1>15, <1>16, <1>17

\* What a step may be, by where it starts.
StepFrom ==
  \/ Quietly
  \/ pc = "claim" /\ CheckClaim
  \/ pc = "kinds" /\ CheckKinds
  \/ pc = "parse" /\ ParseContractsAndWitnesses
  \/ pc = "split" /\ CheckSplit
  \/ pc = "tcb" /\ CheckTcb
  \/ pc = "bind" /\ BindContracts
  \/ pc = "uncertainty" /\ CheckUncertainty
  \/ pc = "capacities" /\ CheckCapacities
  \/ pc = "queue" /\ CheckQueue
  \/ pc = "release" /\ CheckRelease
  \/ pc = "accounts" /\ CheckAccounts
  \/ pc = "statistics" /\ CheckStatistics
  \/ pc = "terms" /\ BindReportTerms
  \/ pc = "budget" /\ CheckBudget
  \/ pc = "capital" /\ StartCapital
  \/ pc = "cut" /\ JudgeCapital
  \/ pc = "report" /\ (Report \/ SolverFails)

LEMMA StepsInOrder ==
  ASSUME Going, pc \in DOMAIN Stage
  PROVE  /\ bundle' = bundle /\ limitations \subseteq limitations' /\ pc' \in DOMAIN Stage
         /\ \A s \in DOMAIN Stage \ {"cut"} : Passed(s)' => Passed(s) \/ pc = s
         /\ \A s \in DOMAIN Stage : Passed(s) => Passed(s)'
         /\ StepFrom
<1>1. CASE Tick \/ AugmentCapital \/ UNCHANGED vars
  <2>1. Quietly
    BY <1>1 DEF Tick, AugmentCapital, Quietly, full, vars
  <2> QED BY <2>1 DEF Quietly, Passed, StepFrom
<1>2. CASE Validate /\ ~AugmentCapital
  <2>1. StepFrom
    BY <1>2, EveryStepGoesOn DEF Validate, StepFrom, Goes
  <2>2. /\ bundle' = bundle /\ limitations \subseteq limitations'
        /\ \/ pc = "claim" /\ pc' = "kinds"
           \/ pc = "kinds" /\ pc' = "parse"
           \/ pc = "parse" /\ pc' = "split"
           \/ pc = "split" /\ pc' = "tcb"
           \/ pc = "tcb" /\ pc' = "bind"
           \/ pc = "bind" /\ pc' = "uncertainty"
           \/ pc = "uncertainty" /\ pc' = "capacities"
           \/ pc = "capacities" /\ pc' = "queue"
           \/ pc = "queue" /\ pc' = "release"
           \/ pc = "release" /\ pc' = "accounts"
           \/ pc = "accounts" /\ pc' = "statistics"
           \/ pc = "statistics" /\ pc' = "terms"
           \/ pc = "terms" /\ pc' = "budget"
           \/ pc = "budget" /\ pc' = "capital"
           \/ pc = "capital" /\ pc' \in {"cut", "report"}
           \/ pc = "cut" /\ pc' = "report"
           \/ pc = "report" /\ pc' = "done"
    BY <1>2, EveryStepGoesOn DEF Validate, Goes
  <2>3. pc' \in DOMAIN Stage
    BY <2>2 DEF Stage
  <2>4. ASSUME NEW s \in DOMAIN Stage
        PROVE  (s # "cut" /\ Passed(s)' => Passed(s) \/ pc = s) /\ (Passed(s) => Passed(s)')
    BY <2>2, <2>3 DEF Passed, Stage
  <2> QED BY <2>1, <2>2, <2>3, <2>4
<1> QED BY <1>1, <1>2 DEF Going, Validate

----------------------------------------------------------------------------
(* Evidence                                                                *)

Clocks ==
  /\ bundle \in Bundles /\ pc \in DOMAIN Stage
  /\ clock \in 0..MaxTime /\ began \in 0..clock

LEMMA ClocksKept == Clocks /\ Going => Clocks'
<1> SUFFICES ASSUME Clocks, Going PROVE Clocks'
  OBVIOUS
<1>1. bundle' = bundle /\ pc' \in DOMAIN Stage
  BY StepsInOrder DEF Clocks
<1>2. \/ clock' = clock /\ began' = began
      \/ clock' = clock /\ began' = clock
      \/ clock < MaxTime /\ clock' = clock + 1 /\ began' = began
  <2>1. ASSUME NEW here, NEW there, NEW reasons, Go(here, there, reasons) PROVE clock' = clock
    BY <2>1 DEF Go
  <2>2. CASE AugmentCapital \/ UNCHANGED vars
    BY <2>2 DEF AugmentCapital, full, vars
  <2>3. CASE Tick \/ Report \/ SolverFails
    BY <2>3 DEF Tick, Report, SolverFails
  <2>4. CASE CheckClaim
    BY <2>1, <2>4 DEF CheckClaim
  <2>5. CASE CheckKinds \/ ParseContractsAndWitnesses \/ CheckSplit \/ CheckTcb
             \/ BindContracts \/ CheckUncertainty \/ CheckCapacities \/ CheckQueue
    BY <2>1, <2>5
       DEF CheckKinds, ParseContractsAndWitnesses, CheckSplit, CheckTcb, BindContracts,
           CheckUncertainty, CheckCapacities, CheckQueue
  <2>6. CASE CheckRelease \/ CheckAccounts \/ CheckStatistics \/ BindReportTerms \/ CheckBudget
             \/ StartCapital \/ JudgeCapital
    BY <2>1, <2>6
       DEF CheckRelease, CheckAccounts, CheckStatistics, BindReportTerms, CheckBudget,
           StartCapital, JudgeCapital
  <2> QED BY <2>2, <2>3, <2>4, <2>5, <2>6 DEF Going, Validate
<1> QED BY <1>1, <1>2, ScalesAssumption DEF Clocks

\* The evidence of a bundle.
LEMMA EvidenceType ==
  ASSUME bundle \in Bundles
  PROVE  /\ evidence \in Seq(Range(evidence)) /\ Len(evidence) \in Nat
         /\ DOMAIN evidence = 1..Len(evidence)
         /\ \A i \in DOMAIN evidence : evidence[i] \in Range(evidence) /\ EvidenceShape(evidence[i])
         /\ \A i \in DOMAIN evidence :
              evidence[i].valid => PayloadShape(evidence[i].kind, evidence[i].payload)
<1>1. evidence \in Seq(Range(evidence))
  BY BundlesAssumption DEF evidence
<1>2. Len(evidence) \in Nat /\ DOMAIN evidence = 1..Len(evidence)
  BY <1>1, LenProperties
<1>3. \A i \in DOMAIN evidence : evidence[i] \in Range(evidence)
  BY DEF Range
<1>4. \A x \in Range(evidence) : EvidenceShape(x) /\ (x.valid => PayloadShape(x.kind, x.payload))
  BY BundlesAssumption DEF evidence
<1> QED BY <1>1, <1>2, <1>3, <1>4

\* What is fit now was fit before: time only takes fitness away.
LEMMA FitBefore ==
  ASSUME Clocks, NEW t \in Nat, NEW u \in Nat, t <= u
  PROVE  Fitting(u) \subseteq Fitting(t) /\ RootedTcb(u) \subseteq RootedTcb(t)
<1>1. ASSUME NEW i \in Fitting(u) PROVE i \in Fitting(t)
  <2>1. i \in DOMAIN evidence /\ Fit(evidence[i], u) /\ evidence[i].expiry \subseteq Nat
    BY <1>1, EvidenceType DEF Fitting, Clocks, EvidenceShape
  <2>2. \A e \in evidence[i].expiry : e > t
    BY <2>1 DEF Fit
  <2> QED BY <2>1, <2>2 DEF Fitting, Fit
<1> QED BY <1>1 DEF RootedTcb

\* What depends on the bundle alone does not change.
LEMMA BundleStays ==
  ASSUME bundle' = bundle
  PROVE  /\ evidence' = evidence /\ network' = network /\ Contracts' = Contracts /\ Witnesses' = Witnesses
         /\ \A k : OfKind(k)' = OfKind(k) /\ ValidOfKind(k)' = ValidOfKind(k)
         /\ SplitReasons(bundle.split)' = SplitReasons(bundle.split)
         /\ \A t : RootedTcb(t)' = RootedTcb(t) /\ Fitting(t)' = Fitting(t)
         /\ Refs' = Refs
<1>1. evidence' = evidence /\ network' = network
  BY DEF evidence, network
<1>2. ASSUME NEW k PROVE OfKind(k)' = OfKind(k) /\ ValidOfKind(k)' = ValidOfKind(k)
  BY <1>1 DEF OfKind, ValidOfKind
<1>3. Contracts' = Contracts /\ Witnesses' = Witnesses
  BY <1>1, <1>2 DEF Contracts, Witnesses, Payloads
<1>4. Refs' = Refs
  BY <1>1 DEF Refs
<1>5. OverlapWitness' = OverlapWitness
  BY <1>3 DEF OverlapWitness, AcceptedFor
<1>6. SplitReasons(bundle.split)' = SplitReasons(bundle.split)
  BY <1>4, <1>5 DEF SplitReasons, Overlap, When
<1>7. ASSUME NEW t PROVE RootedTcb(t)' = RootedTcb(t) /\ Fitting(t)' = Fitting(t)
  BY <1>1, <1>2 DEF RootedTcb, Fitting, Fit
<1> QED BY <1>1, <1>2, <1>3, <1>4, <1>6, <1>7

\* A validator that adds a reason blocks the report for good.
LEMMA NoReason ==
  ASSUME NEW here, NEW there, NEW reasons, Go(here, there, reasons), Unblocked'
  PROVE  reasons = {}
BY DEF Go, Unblocked

LEMMA WhenHolds ==
  ASSUME NEW condition, NEW reason, When(condition, reason) = {}
  PROVE  ~condition
BY DEF When

\* Only the first step reads the clock into began, only one makes bindings.
LEMMA ReadOnce ==
  ASSUME StepFrom
  PROVE  /\ pc # "claim" => began' = began
         /\ pc # "bind" => bindings' = bindings
         /\ pc \notin {"queue", "release", "accounts", "statistics", "terms"} => summary' = summary
BY DEF StepFrom, Quietly, CheckClaim, CheckKinds, ParseContractsAndWitnesses, CheckSplit, CheckTcb,
       BindContracts, CheckUncertainty, CheckCapacities, CheckQueue, CheckRelease, CheckAccounts,
       CheckStatistics, BindReportTerms, CheckBudget, StartCapital, JudgeCapital, Report, SolverFails

\* The evidence an unblocked report has checked stays as it was.
LEMMA EvidenceKept ==
  ASSUME Clocks, EvidenceIsChecked, Going
  PROVE  EvidenceIsChecked'
<1>1. /\ bundle' = bundle /\ limitations \subseteq limitations'
      /\ \A s \in DOMAIN Stage \ {"cut"} : Passed(s)' => Passed(s) \/ pc = s
      /\ StepFrom
  BY StepsInOrder DEF Clocks
<1> SUFFICES ASSUME Unblocked' PROVE EvidenceIsChecked'
  BY DEF EvidenceIsChecked
<1>2. Unblocked
  BY <1>1 DEF Unblocked
<1>3. {"claim", "kinds", "parse", "split", "tcb"} \subseteq DOMAIN Stage \ {"cut"}
  BY DEF Stage
<1>4. /\ evidence' = evidence /\ Contracts' = Contracts /\ Witnesses' = Witnesses
      /\ \A k : OfKind(k)' = OfKind(k) /\ ValidOfKind(k)' = ValidOfKind(k)
      /\ SplitReasons(bundle.split)' = SplitReasons(bundle.split)
  BY <1>1, BundleStays
<1>5. clock \in Nat /\ began \in Nat /\ began <= clock
  BY ScalesAssumption DEF Clocks
<1>6. Passed("claim")' => Fitting(began)' = DOMAIN evidence'
  <2>1. ASSUME CheckClaim, pc = "claim" PROVE Fitting(clock) = DOMAIN evidence /\ began' = clock
    <3>1. When(Fitting(clock) # DOMAIN evidence, "inactive evidence") = {}
      BY <2>1, NoReason DEF CheckClaim
    <3> QED BY <2>1, <3>1, WhenHolds DEF CheckClaim
  <2>2. CASE pc = "claim"
    <3>1. CheckClaim \/ Quietly
      BY <1>1, <2>2 DEF StepFrom
    <3>2. Quietly => ~Passed("claim")'
      BY <2>2 DEF Quietly, Passed, Stage
    <3>3. CheckClaim => Fitting(began)' = DOMAIN evidence'
      BY <1>4, <2>1, <2>2 DEF Fitting, Fit
    <3> QED BY <3>1, <3>2, <3>3
  <2>3. ASSUME Passed("claim"), pc # "claim" PROVE Fitting(began)' = DOMAIN evidence'
    <3>1. Fitting(began) = DOMAIN evidence
      BY <1>2, <2>3 DEF EvidenceIsChecked
    <3>2. began' = began
      BY <1>1, <2>3, ReadOnce
    <3> QED BY <1>4, <3>1, <3>2 DEF Fitting, Fit
  <2> QED BY <1>1, <1>3, <2>2, <2>3
<1>7. Passed("kinds")' => RequiredKinds \subseteq {x.kind : x \in Range(evidence')}
  <2>1. ASSUME CheckKinds PROVE RequiredKinds \subseteq {x.kind : x \in Range(evidence)}
    <3>1. When(~(RequiredKinds \subseteq {evidence[i].kind : i \in Fitting(clock)}), "missing evidence kinds") = {}
      BY <2>1, NoReason DEF CheckKinds
    <3>2. RequiredKinds \subseteq {evidence[i].kind : i \in Fitting(clock)}
      BY <3>1, WhenHolds
    <3> QED BY <3>2 DEF Fitting, Range
  <2>2. CASE pc = "kinds"
    <3>1. Quietly => ~Passed("kinds")'
      BY <2>2 DEF Quietly, Passed, Stage
    <3> QED BY <1>1, <1>4, <2>1, <2>2, <3>1 DEF StepFrom
  <2> QED BY <1>1, <1>2, <1>3, <1>4, <2>2 DEF EvidenceIsChecked
<1>8. Passed("parse")' => OfKind("evidence_contract")' = ValidOfKind("evidence_contract")'
  <2>1. ASSUME ParseContractsAndWitnesses
        PROVE  OfKind("evidence_contract") = ValidOfKind("evidence_contract")
    <3>1. UNION {When(OfKind(k) # ValidOfKind(k), "invalid contract or witness") :
                   k \in {"evidence_contract", "verification_witness"}} = {}
      BY <2>1, NoReason DEF ParseContractsAndWitnesses
    <3>2. When(OfKind("evidence_contract") # ValidOfKind("evidence_contract"), "invalid contract or witness") = {}
      BY <3>1
    <3> QED BY <3>2, WhenHolds
  <2>2. CASE pc = "parse"
    <3>1. Quietly => ~Passed("parse")'
      BY <2>2 DEF Quietly, Passed, Stage
    <3> QED BY <1>1, <1>4, <2>1, <2>2, <3>1 DEF StepFrom
  <2> QED BY <1>1, <1>2, <1>3, <1>4, <2>2 DEF EvidenceIsChecked
<1>9. Passed("split")' => SplitReasons(bundle.split)' = {}
  <2>1. ASSUME CheckSplit PROVE SplitReasons(bundle.split) = {}
    BY <2>1, NoReason DEF CheckSplit
  <2>2. CASE pc = "split"
    <3>1. Quietly => ~Passed("split")'
      BY <2>2 DEF Quietly, Passed, Stage
    <3> QED BY <1>1, <1>4, <2>1, <2>2, <3>1 DEF StepFrom
  <2> QED BY <1>1, <1>2, <1>3, <1>4, <2>2 DEF EvidenceIsChecked
<1>10. Passed("tcb")' =>
         UNION ({x.tcb : x \in Range(evidence')} \cup {c.tcb : c \in Contracts'}
                \cup {w.tcb : w \in Witnesses'}) \subseteq RootedTcb(began)'
  <2> DEFINE needed == UNION ({x.tcb : x \in Range(evidence)} \cup {c.tcb : c \in Contracts}
                              \cup {w.tcb : w \in Witnesses})
  <2>1. ASSUME CheckTcb PROVE needed \subseteq RootedTcb(clock)
    <3> DEFINE all == UNION ({evidence[i].tcb : i \in DOMAIN evidence}
                             \cup {c.tcb : c \in Contracts} \cup {w.tcb : w \in Witnesses})
    <3>1. When(~(all \subseteq RootedTcb(clock)), "unmet TCB requirement") = {}
      BY <2>1, NoReason DEF CheckTcb
    <3>2. all \subseteq RootedTcb(clock)
      BY <3>1, WhenHolds
    <3>3. needed \subseteq all
      BY DEF Range
    <3> QED BY <3>2, <3>3
  <2>2. RootedTcb(clock) \subseteq RootedTcb(began)
    BY <1>5, FitBefore
  <2>3. began' = began /\ pc # "claim" => RootedTcb(began)' = RootedTcb(began)
    BY <1>4 DEF RootedTcb, Fitting, Fit, OfKind
  <2>4. CASE pc = "tcb"
    <3>1. Quietly => ~Passed("tcb")'
      BY <2>4 DEF Quietly, Passed, Stage
    <3>2. CheckTcb => began' = began
      BY DEF CheckTcb
    <3> QED BY <1>1, <1>4, <2>1, <2>2, <2>3, <2>4, <3>1, <3>2 DEF StepFrom
  <2>5. ASSUME Passed("tcb"), pc # "tcb"
        PROVE  needed \subseteq RootedTcb(began)'
    <3>1. pc # "claim"
      BY <2>5 DEF Passed, Stage
    <3>2. began' = began
      BY <1>1, <3>1, ReadOnce
    <3>3. needed \subseteq RootedTcb(began)
      BY <1>2, <2>5 DEF EvidenceIsChecked
    <3> QED BY <2>3, <3>1, <3>2, <3>3
  <2> QED BY <1>1, <1>3, <1>4, <2>4, <2>5
<1>11. Range(evidence)' = Range(evidence')
  BY DEF Range
<1> QED BY <1>6, <1>7, <1>8, <1>9, <1>10, <1>11 DEF EvidenceIsChecked

----------------------------------------------------------------------------
(* Bindings                                                                *)

LEMMA BindingsKept ==
  ASSUME Clocks, BindingsAreChecked, Going
  PROVE  BindingsAreChecked'
<1>1. /\ bundle' = bundle /\ limitations \subseteq limitations'
      /\ \A s \in DOMAIN Stage \ {"cut"} : Passed(s)' => Passed(s) \/ pc = s
      /\ StepFrom
  BY StepsInOrder DEF Clocks
<1>2. Unblocked' => Unblocked
  BY <1>1 DEF Unblocked
<1>3. {"bind", "capacities"} \subseteq DOMAIN Stage \ {"cut"}
  BY DEF Stage
<1>4. /\ evidence' = evidence /\ Contracts' = Contracts /\ Witnesses' = Witnesses /\ Refs' = Refs
      /\ network' = network
  BY <1>1, BundleStays
<1>5. ASSUME NEW c
      PROVE  BindingsOf(c)' = BindingsOf(c) /\ ContractReasons(c)' = ContractReasons(c)
  <2>1. AcceptedFor(c)' = AcceptedFor(c)
    BY <1>4 DEF AcceptedFor
  <2>2. \A w : WitnessReasons(c, w)' = WitnessReasons(c, w)
    BY DEF WitnessReasons, When
  <2> QED BY <1>4, <2>1, <2>2 DEF BindingsOf, ContractReasons, When
<1>6. ASSUME bindings' = bindings, NEW e PROVE EdgeReasons(e)' = EdgeReasons(e)
  <2>1. SameName(e)' = SameName(e)
    BY <1>4 DEF SameName
  <2>2. \A terms : BoundTo(terms)' = BoundTo(terms)
    BY <1>6 DEF BoundTo
  <2>3. CapacityOf(e.id)' = CapacityOf(e.id) /\ CapacityOf(e.name)' = CapacityOf(e.name)
    BY DEF CapacityOf
  <2> QED BY <2>1, <2>2, <2>3 DEF EdgeReasons, Depends, Values, When
<1>7. Passed("bind")' => bindings' = UNION {BindingsOf(c)' : c \in Contracts'}
  <2>1. CASE pc = "bind"
    <3>1. Quietly => ~Passed("bind")'
      BY <2>1 DEF Quietly, Passed, Stage
    <3>2. BindContracts => bindings' = UNION {BindingsOf(c) : c \in Contracts}
      BY DEF BindContracts
    <3> QED BY <1>1, <1>4, <1>5, <2>1, <3>1, <3>2 DEF StepFrom
  <2>2. CASE pc # "bind"
    BY <1>1, <1>3, <1>4, <1>5, <2>2, ReadOnce DEF BindingsAreChecked
  <2> QED BY <2>1, <2>2
<1>8. ASSUME Unblocked', Passed("bind")', NEW c \in Contracts' PROVE ContractReasons(c)' = {}
  <2>1. CASE pc = "bind"
    <3>1. Quietly => ~Passed("bind")'
      BY <2>1 DEF Quietly, Passed, Stage
    <3>2. BindContracts
      BY <1>1, <1>8, <2>1, <3>1 DEF StepFrom
    <3>3. UNION {ContractReasons(d) : d \in Contracts} = {}
      BY <1>8, <3>2, NoReason DEF BindContracts
    <3> QED BY <1>4, <1>5, <1>8, <3>3
  <2>2. CASE pc # "bind"
    BY <1>1, <1>2, <1>3, <1>4, <1>5, <1>8, <2>2 DEF BindingsAreChecked
  <2> QED BY <2>1, <2>2
<1>9. ASSUME Unblocked', Passed("capacities")', NEW e \in Range(network.edges)' PROVE EdgeReasons(e)' = {}
  <2>1. e \in Range(network.edges)
    BY <1>4, <1>9 DEF Range
  <2>2. pc # "bind"
    <3>1. pc = "bind" => ~Passed("capacities")
      BY DEF Passed, Stage
    <3> QED BY <1>1, <1>3, <1>9, <3>1
  <2>3. bindings' = bindings
    BY <1>1, <2>2, ReadOnce
  <2>4. CASE pc = "capacities"
    <3>1. Quietly => ~Passed("capacities")'
      BY <2>4 DEF Quietly, Passed, Stage
    <3>2. CheckCapacities
      BY <1>1, <1>9, <2>4, <3>1 DEF StepFrom
    <3>3. UNION {EdgeReasons(network.edges[i]) : i \in DOMAIN network.edges} = {}
      BY <1>9, <3>2, NoReason DEF CheckCapacities
    <3>4. EdgeReasons(e) = {}
      BY <2>1, <3>3 DEF Range
    <3> QED BY <1>6, <2>3, <3>4
  <2>5. CASE pc # "capacities"
    BY <1>1, <1>2, <1>3, <1>6, <1>9, <2>1, <2>3, <2>5 DEF BindingsAreChecked
  <2> QED BY <2>4, <2>5
<1> QED BY <1>7, <1>8, <1>9 DEF BindingsAreChecked

----------------------------------------------------------------------------
(* Numbers collected for the report                                        *)

\* The places of some evidence: finitely many, with a first and a last one.
LEMMA KindPlaces ==
  ASSUME bundle \in Bundles, NEW S \in SUBSET DOMAIN evidence
  PROVE  /\ IsFiniteSet(S) /\ S \subseteq Nat
         /\ S # {} => /\ First(S) \in S /\ \A i \in S : First(S) <= i
                      /\ Max(S) \in S /\ \A i \in S : i <= Max(S)
<1>1. DOMAIN evidence = 1..Len(evidence) /\ Len(evidence) \in Nat
  BY EvidenceType
<1>2. IsFiniteSet(DOMAIN evidence)
  BY <1>1, FS_Interval
<1>3. IsFiniteSet(S) /\ S \subseteq Nat
  BY <1>1, <1>2, FS_Subset
<1>4. ASSUME S # {} PROVE First(S) \in S /\ \A i \in S : First(S) <= i
  <2>1. \E n \in S : \A m \in S : n <= m
    BY <1>3, <1>4, LeastNatural
  <2> QED BY <2>1 DEF First
<1>5. ASSUME S # {} PROVE Max(S) \in S /\ \A i \in S : i <= Max(S)
  <2>1. S \subseteq Int
    BY <1>3
  <2>2. \E n \in S : \A m \in S : m <= n
    BY <1>3, <1>5, <2>1, FiniteExtremes
  <2>3. \E n \in S : \A m \in S : n >= m
    BY <2>1, <2>2
  <2>4. Max(S) \in S /\ \A m \in S : Max(S) >= m
    BY <2>3 DEF Max
  <2> QED BY <2>1, <2>4
<1> QED BY <1>3, <1>4, <1>5

LEMMA OfKindPlaces ==
  \A k : /\ OfKind(k) \in SUBSET DOMAIN evidence /\ ValidOfKind(k) \in SUBSET OfKind(k)
         /\ ValidOfKind(k) \in SUBSET DOMAIN evidence
BY DEF OfKind, ValidOfKind

\* Contracts and witnesses are finitely many and read without an error.
LEMMA ContractsType ==
  ASSUME bundle \in Bundles
  PROVE  /\ IsFiniteSet(Contracts) /\ IsFiniteSet(Witnesses)
         /\ \A c \in Contracts : PayloadShape("evidence_contract", c)
         /\ \A w \in Witnesses : PayloadShape("verification_witness", w)
<1>1. ASSUME NEW k
      PROVE  IsFiniteSet(Payloads(k)) /\ \A p \in Payloads(k) : PayloadShape(k, p)
  <2> DEFINE f == [i \in DOMAIN evidence |-> evidence[i].payload]
  <2>1. IsFiniteSet(ValidOfKind(k))
    BY OfKindPlaces, KindPlaces
  <2>2. IsFiniteSet({f[i] : i \in ValidOfKind(k)})
    <3> HIDE DEF f
    <3> QED BY <2>1, FiniteImage
  <2>3. {f[i] : i \in ValidOfKind(k)} = Payloads(k)
    BY OfKindPlaces DEF Payloads
  <2>4. \A p \in Payloads(k) : PayloadShape(k, p)
    BY EvidenceType DEF Payloads, ValidOfKind, OfKind
  <2> QED BY <2>2, <2>3, <2>4
<1> QED BY <1>1 DEF Contracts, Witnesses

BindingsType ==
  /\ IsFiniteSet(bindings)
  /\ \A b \in bindings : b.dependencies \subseteq STRING /\ b.value \subseteq Int /\ IsFiniteSet(b.value)

LEMMA BindingsTypeKept ==
  ASSUME Clocks, BindingsType, Going
  PROVE  BindingsType'
<1>1. StepFrom /\ bundle \in Bundles
  BY StepsInOrder DEF Clocks
<1>2. CASE bindings' = bindings
  BY <1>2 DEF BindingsType
<1>3. CASE BindContracts
  <2>1. bindings' = UNION {BindingsOf(c) : c \in Contracts}
    BY <1>3 DEF BindContracts
  <2>2. ASSUME NEW c \in Contracts
        PROVE  /\ IsFiniteSet(BindingsOf(c))
               /\ \A b \in BindingsOf(c) :
                    b.dependencies \subseteq STRING /\ b.value \subseteq Int /\ IsFiniteSet(b.value)
    <3> DEFINE T == {x \in AcceptedFor(c) : x.output /\ Len(c.exposes) = 1 /\ x.exposes = c.exposes}
               f == [w \in Witnesses |-> [term |-> c.exposes[1], dependencies |-> c.dependencies,
                                          value |-> w.value]]
    <3>1. T \in SUBSET Witnesses
      BY DEF AcceptedFor
    <3>2. BindingsOf(c) = {f[w] : w \in T}
      BY <3>1 DEF BindingsOf
    <3>3. IsFiniteSet(T)
      <4> HIDE DEF T
      <4> QED BY <1>1, <3>1, ContractsType, FS_Subset
    <3>4. IsFiniteSet({f[w] : w \in T})
      <4> HIDE DEF f, T
      <4> QED BY <3>3, FiniteImage
    <3>5. \A w \in Witnesses : w.value \subseteq Int /\ IsFiniteSet(w.value)
      BY <1>1, ContractsType, FiniteOptional DEF PayloadShape, Optional
    <3>6. c.dependencies \subseteq STRING
      BY <1>1, ContractsType DEF PayloadShape
    <3>7. \A b \in BindingsOf(c) : \E w \in Witnesses : b.dependencies = c.dependencies /\ b.value = w.value
      BY <3>1 DEF BindingsOf
    <3> QED BY <3>2, <3>4, <3>5, <3>6, <3>7
  <2>3. IsFiniteSet(bindings')
    <3> DEFINE f == [c \in Contracts |-> BindingsOf(c)]
    <3>1. IsFiniteSet({f[c] : c \in Contracts})
      <4> HIDE DEF f
      <4> QED BY <1>1, ContractsType, FiniteImage
    <3>2. {f[c] : c \in Contracts} = {BindingsOf(c) : c \in Contracts}
      OBVIOUS
    <3> HIDE DEF f
    <3> QED BY <2>1, <2>2, <3>1, <3>2, FS_UNION
  <2> QED BY <2>1, <2>2, <2>3 DEF BindingsType
<1>4. pc = "bind" => Quietly \/ BindContracts
  BY <1>1 DEF StepFrom
<1> QED BY <1>1, <1>2, <1>3, <1>4, ReadOnce DEF Quietly

IsSummary(s) ==
  /\ s \in [charge : [ChargeTerms -> Int], refs : [ReportTerms -> SUBSET Refs],
            lowers : [LowerTerms -> SUBSET Int], bounds : [LowerTerms -> SUBSET Int], delta : Nat]
  /\ \A t \in LowerTerms : IsFiniteSet(s.lowers[t]) /\ IsFiniteSet(s.bounds[t])

LEMMA IdsAreRefs == \A i \in DOMAIN evidence : evidence[i].id \in Refs
BY DEF Refs

\* A kind of certificate that charges.
LEMMA ChargesType ==
  ASSUME bundle \in Bundles,
         NEW k \in {"queue_certificate", "release_accounting", "goodhart_account", "open_world_account"},
         NEW i \in ValidOfKind(k)
  PROVE  evidence[i].payload.charge \in Nat
<1>1. i \in DOMAIN evidence /\ evidence[i].kind = k /\ evidence[i].valid
  BY DEF ValidOfKind, OfKind
<1>2. PayloadShape(k, evidence[i].payload)
  BY <1>1, EvidenceType
<1> QED BY <1>2 DEF PayloadShape

\* What a charge of a certificate does to the summary.
LEMMA ChargedIs ==
  ASSUME IsSummary(summary), NEW t \in ChargeTerms, NEW amount \in Int, NEW ids \in SUBSET Refs
  PROVE  LET n == Charged(t, amount, ids) IN
         /\ IsSummary(n)
         /\ n.charge = [summary.charge EXCEPT ![t] = amount] /\ n.refs = [summary.refs EXCEPT ![t] = ids]
         /\ n.lowers = summary.lowers /\ n.bounds = summary.bounds /\ n.delta = summary.delta
<1> DEFINE n == Charged(t, amount, ids)
<1>1. /\ n.charge = [summary.charge EXCEPT ![t] = amount] /\ n.refs = [summary.refs EXCEPT ![t] = ids]
      /\ n.lowers = summary.lowers /\ n.bounds = summary.bounds /\ n.delta = summary.delta
  BY DEF IsSummary, Charged
<1>2. t \in ReportTerms
  BY DEF ReportTerms
<1>3. n \in [charge : [ChargeTerms -> Int], refs : [ReportTerms -> SUBSET Refs],
              lowers : [LowerTerms -> SUBSET Int], bounds : [LowerTerms -> SUBSET Int], delta : Nat]
  BY <1>2 DEF IsSummary, Charged
<1> HIDE DEF n
<1>4. IsSummary(n)
  BY <1>1, <1>3 DEF IsSummary
<1> QED BY <1>1, <1>4 DEF n

\* The first certificate that counts.
LEMMA FirstCharges ==
  ASSUME bundle \in Bundles, IsSummary(summary),
         NEW k \in {"queue_certificate", "release_accounting"}, NEW t \in ChargeTerms,
         ChargeOfFirst(k, t)
  PROVE  /\ IsSummary(summary')
         /\ OfKind(k) # {} /\ evidence[First(OfKind(k))].valid =>
              /\ summary'.charge = [summary.charge EXCEPT ![t] = PayloadOf(k).charge]
              /\ summary'.refs = [summary.refs EXCEPT ![t] = {evidence[First(OfKind(k))].id}]
              /\ summary'.lowers = summary.lowers /\ summary'.bounds = summary.bounds
              /\ summary'.delta = summary.delta
<1> DEFINE i == First(OfKind(k))
           amount == evidence[i].payload.charge
           ids == {evidence[i].id}
<1>1. CASE OfKind(k) = {} \/ ~evidence[i].valid
  BY <1>1 DEF ChargeOfFirst
<1>2. CASE OfKind(k) # {} /\ evidence[i].valid
  <2>1. i \in OfKind(k)
    BY <1>2, OfKindPlaces, KindPlaces
  <2>2. i \in ValidOfKind(k) /\ i \in DOMAIN evidence
    BY <1>2, <2>1 DEF ValidOfKind, OfKind
  <2>3. amount \in Int /\ ids \in SUBSET Refs
    BY <2>2, ChargesType, IdsAreRefs
  <2>4. summary' = Charged(t, amount, ids)
    BY <1>2 DEF ChargeOfFirst
  <2> HIDE DEF i, amount, ids
  <2>6. /\ IsSummary(summary')
        /\ summary'.charge = [summary.charge EXCEPT ![t] = amount]
        /\ summary'.refs = [summary.refs EXCEPT ![t] = ids]
        /\ summary'.lowers = summary.lowers /\ summary'.bounds = summary.bounds
        /\ summary'.delta = summary.delta
    BY <2>3, <2>4, ChargedIs
  <2> QED BY <2>6 DEF PayloadOf, i, amount, ids
<1> QED BY <1>1, <1>2

\* The accounts: charges and sources of those that can be read.
LEMMA AccountsCharge ==
  ASSUME bundle \in Bundles, IsSummary(summary), CheckAccounts
  PROVE  /\ IsSummary(summary')
         /\ \A t \in ChargeTerms : summary'.charge[t] =
              IF t \in DOMAIN AccountOf /\ ValidOfKind(AccountOf[t]) # {}
              THEN evidence[Max(ValidOfKind(AccountOf[t]))].payload.charge ELSE summary.charge[t]
         /\ \A t \in ReportTerms : summary'.refs[t] =
              IF t \in DOMAIN AccountOf /\ ValidOfKind(AccountOf[t]) # {}
              THEN {evidence[i].id : i \in ValidOfKind(AccountOf[t])} ELSE summary.refs[t]
         /\ summary'.lowers = summary.lowers /\ summary'.bounds = summary.bounds
         /\ summary'.delta = summary.delta
<1> DEFINE counted == {t \in DOMAIN AccountOf : ValidOfKind(AccountOf[t]) # {}}
           charges == [t \in ChargeTerms |-> IF t \in counted
                         THEN evidence[Max(ValidOfKind(AccountOf[t]))].payload.charge
                         ELSE summary.charge[t]]
           ids == [t \in ReportTerms |-> IF t \in counted
                     THEN {evidence[i].id : i \in ValidOfKind(AccountOf[t])} ELSE summary.refs[t]]
<1>1. summary' = [summary EXCEPT !.charge = charges, !.refs = ids]
  BY DEF CheckAccounts
<1>2. \A t \in counted : AccountOf[t] \in {"goodhart_account", "open_world_account"}
  BY DEF AccountOf
<1>3. charges \in [ChargeTerms -> Int]
  <2> SUFFICES ASSUME NEW t \in ChargeTerms PROVE charges[t] \in Int
    OBVIOUS
  <2>1. ASSUME t \in counted PROVE evidence[Max(ValidOfKind(AccountOf[t]))].payload.charge \in Int
    <3>1. Max(ValidOfKind(AccountOf[t])) \in ValidOfKind(AccountOf[t])
      BY <2>1, OfKindPlaces, KindPlaces
    <3> QED BY <1>2, <2>1, <3>1, ChargesType
  <2> QED BY <2>1 DEF IsSummary
<1>4. ids \in [ReportTerms -> SUBSET Refs]
  <2> SUFFICES ASSUME NEW t \in ReportTerms PROVE ids[t] \in SUBSET Refs
    OBVIOUS
  <2>1. {evidence[i].id : i \in ValidOfKind(AccountOf[t])} \in SUBSET Refs
    BY OfKindPlaces, IdsAreRefs
  <2> QED BY <2>1 DEF IsSummary
<1> HIDE DEF charges, ids
<1>5. /\ summary'.charge = charges /\ summary'.refs = ids
      /\ summary'.lowers = summary.lowers /\ summary'.bounds = summary.bounds
      /\ summary'.delta = summary.delta
  BY <1>1 DEF IsSummary
<1>6. IsSummary(summary')
  BY <1>1, <1>3, <1>4, <1>5 DEF IsSummary
<1> QED BY <1>5, <1>6 DEF charges, ids

\* A certificate that is not refused has a whole lower bound.
LEMMA LowersType ==
  ASSUME bundle \in Bundles
  PROVE  /\ \A i \in Statistical : StatisticalLower(evidence[i].payload) \in Int
         /\ \A i \in Paths : PathLower(evidence[i].payload) \in Int
<1>1. ASSUME NEW p, p.q \in Int, p.b \in Int, p.eps \in Int PROVE PathLower(p) \in Int
  BY <1>1 DEF PathLower
<1>2. ASSUME NEW i \in Statistical PROVE StatisticalLower(evidence[i].payload) \in Int
  <2> DEFINE p == evidence[i].payload
  <2>1. PayloadShape("statistical_certificate", p) /\ ~Refused(p)
    BY EvidenceType DEF Statistical, ValidOfKind, OfKind
  <2> HIDE DEF p
  <2>2. /\ p.q \in Int /\ p.b \in Int /\ p.eps \in Int
        /\ \A d \in p.delta : Radius(p.b, p.n, p.candidates, d) \in Int
    BY <2>1 DEF PayloadShape
  <2>3. ASSUME p.form = "one_step_dr"
        PROVE  Radius(p.b, p.n, p.candidates, CHOOSE d \in p.delta : TRUE) \in Int
    BY <2>1, <2>2, <2>3 DEF Refused
  <2>4. StatisticalLower(p) \in Int
    BY <1>1, <2>2, <2>3 DEF StatisticalLower
  <2> QED BY <2>4 DEF p
<1>3. ASSUME NEW i \in Paths PROVE PathLower(evidence[i].payload) \in Int
  <2>1. PayloadShape("path_law_certificate", evidence[i].payload)
    BY EvidenceType DEF Paths, ValidOfKind, OfKind
  <2> QED BY <1>1, <2>1 DEF PayloadShape
<1> QED BY <1>2, <1>3

\* The greatest and the least of finitely many integers.
LEMMA Extremes ==
  ASSUME NEW S, IsFiniteSet(S), S \subseteq Int, S # {}
  PROVE  /\ Max(S) \in S /\ \A x \in S : x <= Max(S)
         /\ Min(S) \in S /\ \A x \in S : Min(S) <= x
<1>1. \E m \in S : \A x \in S : m >= x
  <2>1. \E m \in S : \A x \in S : x <= m
    BY FiniteExtremes
  <2> QED BY <2>1
<1>2. \E m \in S : \A x \in S : m <= x
  BY FiniteExtremes
<1>3. Max(S) \in S /\ \A x \in S : Max(S) >= x
  BY <1>1 DEF Max
<1>4. Min(S) \in S /\ \A x \in S : Min(S) <= x
  BY <1>2 DEF Min
<1>5. \A x \in S : x \in Int
  OBVIOUS
<1> QED BY <1>3, <1>4, <1>5

\* What the certificates spend, and what of it is counted, are natural numbers.
LEMMA DeltaType ==
  ASSUME bundle \in Bundles
  PROVE  /\ \A i \in Statistical :
              /\ Spent(evidence[i].payload) \in Nat /\ CountedDelta(evidence[i].payload) \in Nat
              /\ Spent(evidence[i].payload)
                   <= Micro * CountedDelta(evidence[i].payload) + (Micro - 1)
         /\ \A i \in Paths : evidence[i].payload.delta \in Nat
         /\ IsFiniteSet(Statistical) /\ IsFiniteSet(Numeric) /\ IsFiniteSet(Paths)
<1>1. IsFiniteSet(Statistical) /\ IsFiniteSet(Numeric) /\ IsFiniteSet(Paths)
  <2>1. Statistical \in SUBSET DOMAIN evidence /\ Paths \in SUBSET DOMAIN evidence
    BY OfKindPlaces DEF Statistical, Paths
  <2>2. Numeric \in SUBSET DOMAIN evidence
    BY <2>1 DEF Numeric
  <2> QED BY <2>1, <2>2, KindPlaces
<1>2. ASSUME NEW i \in Statistical
      PROVE  /\ Spent(evidence[i].payload) \in Nat /\ CountedDelta(evidence[i].payload) \in Nat
             /\ Spent(evidence[i].payload)
                  <= Micro * CountedDelta(evidence[i].payload) + (Micro - 1)
  <2> DEFINE p == evidence[i].payload
             m == Spent(p)
  <2>1. PayloadShape("statistical_certificate", p)
    BY EvidenceType DEF Statistical, ValidOfKind, OfKind
  <2> HIDE DEF p
  <2>2. p.delta \subseteq Int /\ Optional(p.delta)
    BY <2>1 DEF PayloadShape
  <2>3. IsFiniteSet(p.delta \cup {0}) /\ p.delta \cup {0} \subseteq Int /\ p.delta \cup {0} # {}
    BY <2>2, FiniteOptional, FS_AddElement DEF Optional
  <2>4. m \in Int /\ m >= 0
    BY <2>3, Extremes DEF Spent
  <2>5. m \in Nat /\ Micro \in Nat \ {0}
    BY <2>4, ScalesAssumption
  <2> HIDE DEF m
  <2>6. /\ m \div Micro \in Nat
        /\ m <= Micro * (m \div Micro) + (Micro - 1)
    <3>1. m \div Micro \in Nat
      BY <2>5
    <3>2. m = Micro * (m \div Micro) + (m % Micro) /\ m % Micro \in 0..(Micro - 1)
      BY <2>5
    <3>3. Micro * (m \div Micro) \in Int
      BY <2>5, <3>1
    <3> QED BY <2>5, <3>1, <3>2, <3>3
  <2> QED BY <2>5, <2>6 DEF CountedDelta, m, p
<1>3. ASSUME NEW i \in Paths PROVE evidence[i].payload.delta \in Nat
  <2>1. PayloadShape("path_law_certificate", evidence[i].payload)
    BY EvidenceType DEF Paths, ValidOfKind, OfKind
  <2> QED BY <2>1 DEF PayloadShape
<1> QED BY <1>1, <1>2, <1>3

\* The certificates whose delta is counted, and the sum of what is.
CountedDeltas == SumFunction([i \in Numeric |-> CountedDelta(evidence[i].payload)])
PathDeltas == SumFunction([i \in Paths |-> evidence[i].payload.delta])

LEMMA CountedDeltasType ==
  ASSUME bundle \in Bundles
  PROVE  CountedDeltas \in Nat /\ PathDeltas \in Nat
<1> DEFINE f == [i \in Numeric |-> CountedDelta(evidence[i].payload)]
           g == [i \in Paths |-> evidence[i].payload.delta]
<1>1. DOMAIN f = Numeric /\ \A i \in Numeric : f[i] \in Nat
  BY DeltaType DEF Numeric
<1>2. DOMAIN g = Paths /\ \A i \in Paths : g[i] \in Nat
  BY DeltaType
<1>3. CountedDeltas = SumFunction(f) /\ PathDeltas = SumFunction(g)
  BY DEF CountedDeltas, PathDeltas
<1> HIDE DEF f, g
<1>4. SumFunctionOnSet(f, Numeric) \in Nat /\ SumFunctionOnSet(g, Paths) \in Nat
  BY <1>1, <1>2, DeltaType, SumNotNegative
<1> QED BY <1>1, <1>2, <1>3, <1>4, SumFunctionIs

LEMMA StatisticsCount ==
  ASSUME bundle \in Bundles, IsSummary(summary), CheckStatistics
  PROVE  /\ IsSummary(summary')
         /\ summary'.charge = summary.charge /\ summary'.bounds = summary.bounds
         /\ summary'.lowers["statistical_lower"] = {StatisticalLower(evidence[i].payload) : i \in Statistical}
         /\ summary'.lowers["path_law_lower"] = {PathLower(evidence[i].payload) : i \in Paths}
         /\ \A t \in ReportTerms : summary'.refs[t] =
              IF t = "statistical_lower" THEN {evidence[i].id : i \in Statistical}
              ELSE IF t = "path_law_lower" THEN {evidence[i].id : i \in Paths} ELSE summary.refs[t]
         /\ summary'.delta = CountedDeltas + PathDeltas
<1> DEFINE s == {StatisticalLower(evidence[i].payload) : i \in Statistical}
           p == {PathLower(evidence[i].payload) : i \in Paths}
           lows == [statistical_lower |-> s, path_law_lower |-> p]
           sIds == {evidence[i].id : i \in Statistical}
           pIds == {evidence[i].id : i \in Paths}
           ids == [summary.refs EXCEPT !["statistical_lower"] = sIds, !["path_law_lower"] = pIds]
           d == CountedDeltas + PathDeltas
<1>1. summary' = [summary EXCEPT !.lowers = lows, !.refs = ids, !.delta = d]
  BY DEF CheckStatistics, CountedDeltas, PathDeltas
<1>2. s \subseteq Int /\ p \subseteq Int
  BY LowersType
<1>3. IsFiniteSet(s) /\ IsFiniteSet(p)
  <2> DEFINE f == [i \in Statistical |-> StatisticalLower(evidence[i].payload)]
             g == [i \in Paths |-> PathLower(evidence[i].payload)]
  <2>1. {f[i] : i \in Statistical} = s /\ {g[i] : i \in Paths} = p
    OBVIOUS
  <2> HIDE DEF f, g, s, p
  <2>2. IsFiniteSet({f[i] : i \in Statistical}) /\ IsFiniteSet({g[i] : i \in Paths})
    BY DeltaType, FiniteImage
  <2> QED BY <2>1, <2>2
<1>4. sIds \subseteq Refs /\ pIds \subseteq Refs
  <2>1. \A i \in Statistical \cup Paths : i \in DOMAIN evidence
    BY OfKindPlaces DEF Statistical, Paths
  <2> QED BY <2>1, IdsAreRefs
<1>5. d \in Nat
  BY CountedDeltasType
<1> HIDE DEF s, p, sIds, pIds, d
<1>6. lows \in [LowerTerms -> SUBSET Int]
  <2>1. DOMAIN lows = LowerTerms
    BY DEF LowerTerms
  <2>2. lows = [t \in DOMAIN lows |-> lows[t]]
    OBVIOUS
  <2>3. lows["statistical_lower"] = s /\ lows["path_law_lower"] = p
    OBVIOUS
  <2> HIDE DEF lows
  <2>4. \A t \in LowerTerms : lows[t] \in SUBSET Int
    BY <1>2, <2>3 DEF LowerTerms
  <2> QED BY <2>1, <2>2, <2>4
<1>7. {"statistical_lower", "path_law_lower"} \subseteq ReportTerms
  BY DEF ReportTerms, LowerTerms
<1>8. /\ ids \in [ReportTerms -> SUBSET Refs]
      /\ \A t \in ReportTerms : ids[t] = IF t = "statistical_lower" THEN sIds
                                         ELSE IF t = "path_law_lower" THEN pIds ELSE summary.refs[t]
  BY <1>4, <1>7 DEF IsSummary
<1>9. \A t \in LowerTerms : IsFiniteSet(lows[t])
  BY <1>3 DEF LowerTerms
<1>10. lows["statistical_lower"] = s /\ lows["path_law_lower"] = p
  OBVIOUS
<1> HIDE DEF lows, ids
<1>11. /\ summary'.lowers = lows /\ summary'.refs = ids /\ summary'.delta = d
       /\ summary'.charge = summary.charge /\ summary'.bounds = summary.bounds
  BY <1>1 DEF IsSummary
<1>12. IsSummary(summary')
  BY <1>1, <1>5, <1>6, <1>8, <1>9, <1>11 DEF IsSummary
<1> QED BY <1>8, <1>10, <1>11, <1>12 DEF s, p, sIds, pIds, d

\* The value accepted for a term is the greatest one its witnesses declare.
LEMMA AcceptedValueType ==
  ASSUME BindingsType, NEW t
  PROVE  /\ AcceptedValue(t) \subseteq Int /\ Optional(AcceptedValue(t))
         /\ IsFiniteSet(AcceptedValue(t))
         /\ AcceptedValue(t) # {} => Depends(BoundTo({Term(t)}), summary.refs[t])
<1> DEFINE bs == BoundTo({Term(t)})
           m == Max(Values(bs))
<1>1. Values(bs) \subseteq Int
  BY DEF Values, BoundTo, BindingsType
<1>2. IsFiniteSet(Values(bs))
  <2> DEFINE f == [b \in bs |-> b.value]
  <2>1. IsFiniteSet(bs)
    BY FS_Subset DEF BoundTo, BindingsType
  <2>2. \A b \in bs : IsFiniteSet(f[b])
    BY DEF BoundTo, BindingsType
  <2>3. {f[b] : b \in bs} = {b.value : b \in bs}
    OBVIOUS
  <2> HIDE DEF f, bs
  <2>4. IsFiniteSet(UNION {f[b] : b \in bs})
    BY <2>1, <2>2, FiniteImage, FS_UNION
  <2> QED BY <2>3, <2>4 DEF Values
<1> HIDE DEF bs
<1>3. Values(bs) # {} => m \in Int
  <2>1. Values(bs) # {} => \E n \in Values(bs) : \A x \in Values(bs) : x <= n
    BY <1>1, <1>2, FiniteExtremes
  <2>2. Values(bs) # {} => \E n \in Values(bs) : \A x \in Values(bs) : n >= x
    BY <1>1, <2>1
  <2> QED BY <1>1, <2>2 DEF Max
<1> HIDE DEF m
<1>4. AcceptedValue(t) = IF Depends(bs, summary.refs[t]) /\ Values(bs) # {} THEN {m} ELSE {}
  BY DEF AcceptedValue, bs, m
<1>5. AcceptedValue(t) \subseteq Int /\ Optional(AcceptedValue(t))
  BY <1>3, <1>4 DEF Optional
<1>6. IsFiniteSet(AcceptedValue(t))
  BY <1>5, FiniteOptional DEF Optional
<1> QED BY <1>4, <1>5, <1>6 DEF bs

LEMMA TermsAreBound ==
  ASSUME BindingsType, IsSummary(summary), BindReportTerms
  PROVE  /\ IsSummary(summary')
         /\ summary'.refs = summary.refs /\ summary'.lowers = summary.lowers
         /\ summary'.delta = summary.delta
         /\ \A t \in LowerTerms : summary'.bounds[t] = IF t \in Expected THEN AcceptedValue(t) ELSE {}
         /\ \A t \in ChargeTerms : summary'.charge[t] =
              IF AcceptedValue(t) = {} THEN summary.charge[t] ELSE CHOOSE v \in AcceptedValue(t) : TRUE
<1> DEFINE bs == [t \in LowerTerms |-> IF t \in Expected THEN AcceptedValue(t) ELSE {}]
           cs == [t \in ChargeTerms |-> IF AcceptedValue(t) = {} THEN summary.charge[t]
                                        ELSE CHOOSE v \in AcceptedValue(t) : TRUE]
<1>1. summary' = [summary EXCEPT !.bounds = bs, !.charge = cs]
  BY DEF BindReportTerms
<1>2. bs \in [LowerTerms -> SUBSET Int] /\ \A t \in LowerTerms : IsFiniteSet(bs[t])
  BY AcceptedValueType, FS_EmptySet
<1>3. cs \in [ChargeTerms -> Int]
  <2> SUFFICES ASSUME NEW t \in ChargeTerms PROVE cs[t] \in Int
    OBVIOUS
  <2>1. AcceptedValue(t) # {} => (CHOOSE v \in AcceptedValue(t) : TRUE) \in Int
    BY AcceptedValueType
  <2> QED BY <2>1 DEF IsSummary
<1> HIDE DEF bs, cs
<1>4. /\ summary'.bounds = bs /\ summary'.charge = cs
      /\ summary'.refs = summary.refs /\ summary'.lowers = summary.lowers
      /\ summary'.delta = summary.delta
  BY <1>1 DEF IsSummary
<1>5. IsSummary(summary')
  BY <1>1, <1>2, <1>3, <1>4 DEF IsSummary
<1> QED BY <1>4, <1>5 DEF bs, cs

LEMMA SummaryKept ==
  ASSUME Clocks, BindingsType, IsSummary(summary), Going
  PROVE  IsSummary(summary)'
<1>1. StepFrom /\ bundle \in Bundles /\ Refs' = Refs
  BY StepsInOrder, BundleStays DEF Clocks
<1>2. IsSummary(summary') => IsSummary(summary)'
  BY <1>1 DEF IsSummary
<1>3. CASE summary' = summary
  BY <1>2, <1>3
<1>4. CASE CheckQueue
  <2>1. ChargeOfFirst("queue_certificate", "queue_boundary")
    BY <1>4 DEF CheckQueue
  <2>2. "queue_boundary" \in ChargeTerms
    BY DEF ChargeTerms
  <2> QED BY <1>1, <1>2, <2>1, <2>2, FirstCharges
<1>5. CASE CheckRelease
  <2>1. ChargeOfFirst("release_accounting", "release_accounting")
    BY <1>5 DEF CheckRelease
  <2>2. "release_accounting" \in ChargeTerms
    BY DEF ChargeTerms
  <2> QED BY <1>1, <1>2, <2>1, <2>2, FirstCharges
<1>6. CASE CheckAccounts
  BY <1>1, <1>2, <1>6, AccountsCharge
<1>7. CASE CheckStatistics
  BY <1>1, <1>2, <1>7, StatisticsCount
<1>8. CASE BindReportTerms
  BY <1>1, <1>2, <1>8, TermsAreBound
<1>9. pc \in {"queue", "release", "accounts", "statistics", "terms"} =>
        Quietly \/ CheckQueue \/ CheckRelease \/ CheckAccounts \/ CheckStatistics \/ BindReportTerms
  BY <1>1 DEF StepFrom
<1> QED BY <1>1, <1>3, <1>4, <1>5, <1>6, <1>7, <1>8, <1>9, ReadOnce DEF Quietly

\* What each step leaves alone in the summary.
LEMMA SummaryChange ==
  ASSUME bundle \in Bundles, BindingsType, IsSummary(summary), StepFrom
  PROVE  /\ pc # "statistics" => summary'.lowers = summary.lowers /\ summary'.delta = summary.delta
         /\ pc # "terms" => summary'.bounds = summary.bounds
         /\ \A t \in ReportTerms : pc # CollectedAt[t] => summary'.refs[t] = summary.refs[t]
         /\ \A t \in ChargeTerms :
              pc \notin {"terms", CollectedAt[t]} => summary'.charge[t] = summary.charge[t]
<1>0. ChargeTerms \subseteq ReportTerms
  BY DEF ReportTerms
<1>1. CASE summary' = summary
  BY <1>1
<1>2. CASE pc = "queue" /\ CheckQueue
  <2>1. ChargeOfFirst("queue_certificate", "queue_boundary")
    BY <1>2 DEF CheckQueue
  <2>2. "queue_boundary" \in ChargeTerms /\ CollectedAt["queue_boundary"] = "queue"
    BY DEF ChargeTerms, CollectedAt
  <2>3. \/ summary' = summary
        \/ /\ summary'.charge = [summary.charge EXCEPT !["queue_boundary"] = PayloadOf("queue_certificate").charge]
           /\ summary'.refs = [summary.refs EXCEPT !["queue_boundary"] =
                                 {evidence[First(OfKind("queue_certificate"))].id}]
           /\ summary'.lowers = summary.lowers /\ summary'.bounds = summary.bounds
           /\ summary'.delta = summary.delta
    BY <2>1, <2>2, FirstCharges DEF ChargeOfFirst
  <2> QED BY <1>0, <1>2, <2>2, <2>3 DEF IsSummary
<1>3. CASE pc = "release" /\ CheckRelease
  <2>1. ChargeOfFirst("release_accounting", "release_accounting")
    BY <1>3 DEF CheckRelease
  <2>2. "release_accounting" \in ChargeTerms /\ CollectedAt["release_accounting"] = "release"
    BY DEF ChargeTerms, CollectedAt
  <2>3. \/ summary' = summary
        \/ /\ summary'.charge = [summary.charge EXCEPT !["release_accounting"] = PayloadOf("release_accounting").charge]
           /\ summary'.refs = [summary.refs EXCEPT !["release_accounting"] =
                                 {evidence[First(OfKind("release_accounting"))].id}]
           /\ summary'.lowers = summary.lowers /\ summary'.bounds = summary.bounds
           /\ summary'.delta = summary.delta
    BY <2>1, <2>2, FirstCharges DEF ChargeOfFirst
  <2> QED BY <1>0, <1>3, <2>2, <2>3 DEF IsSummary
<1>4. CASE pc = "accounts" /\ CheckAccounts
  <2>1. \A t \in DOMAIN AccountOf : CollectedAt[t] = "accounts"
    BY DEF AccountOf, CollectedAt
  <2> QED BY <1>0, <1>4, <2>1, AccountsCharge
<1>5. CASE pc = "statistics" /\ CheckStatistics
  <2>1. CollectedAt["statistical_lower"] = "statistics" /\ CollectedAt["path_law_lower"] = "statistics"
    BY DEF CollectedAt
  <2> QED BY <1>5, <2>1, StatisticsCount
<1>6. CASE pc = "terms" /\ BindReportTerms
  BY <1>6, TermsAreBound
<1>7. pc \in {"queue", "release", "accounts", "statistics", "terms"} =>
        \/ Quietly
        \/ pc = "queue" /\ CheckQueue
        \/ pc = "release" /\ CheckRelease
        \/ pc = "accounts" /\ CheckAccounts
        \/ pc = "statistics" /\ CheckStatistics
        \/ pc = "terms" /\ BindReportTerms
  BY DEF StepFrom
<1>8. Quietly => summary' = summary
  BY DEF Quietly
<1> QED BY <1>1, <1>2, <1>3, <1>4, <1>5, <1>6, <1>7, <1>8, ReadOnce

\* The kinds of evidence an unblocked report has by then, and the kinds of its terms.
LEMMA RequiredPlaces ==
  ASSUME EvidenceIsChecked, Unblocked, Passed("kinds"), NEW k \in RequiredKinds
  PROVE  OfKind(k) # {}
<1>1. k \in {x.kind : x \in Range(evidence)}
  BY DEF EvidenceIsChecked
<1> QED BY <1>1 DEF OfKind, Range

LEMMA SourcesOfTerms ==
  /\ SourcesOf("queue_boundary") = {evidence[First(OfKind("queue_certificate"))].id}
  /\ SourcesOf("release_accounting") = {evidence[First(OfKind("release_accounting"))].id}
  /\ SourcesOf("goodhart_charge") = {evidence[i].id : i \in OfKind("goodhart_account")}
  /\ SourcesOf("open_world_charge") = {evidence[i].id : i \in OfKind("open_world_account")}
  /\ SourcesOf("statistical_lower") = {evidence[i].id : i \in OfKind("statistical_certificate")}
  /\ SourcesOf("path_law_lower") = {evidence[i].id : i \in OfKind("path_law_certificate")}
BY DEF SourcesOf

LEMMA CertifiedCharges ==
  /\ CertifiedCharge("queue_boundary") = PayloadOf("queue_certificate").charge
  /\ CertifiedCharge("release_accounting") = PayloadOf("release_accounting").charge
  /\ CertifiedCharge("goodhart_charge") = evidence[Max(OfKind("goodhart_account"))].payload.charge
  /\ CertifiedCharge("open_world_charge") = evidence[Max(OfKind("open_world_account"))].payload.charge
BY DEF CertifiedCharge

\* What a step that blocks nothing collects.
LEMMA SummaryCollected ==
  ASSUME bundle \in Bundles, BindingsType, IsSummary(summary), StepFrom, ~Quietly,
         EvidenceIsChecked, Unblocked, Unblocked'
  PROVE  /\ \A t \in ReportTerms : pc = CollectedAt[t] => summary'.refs[t] = SourcesOf(t)
         /\ \A t \in ChargeTerms : pc = CollectedAt[t] => summary'.charge[t] = CertifiedCharge(t)
         /\ pc = "statistics" => /\ Statistical = OfKind("statistical_certificate")
                                 /\ Paths = OfKind("path_law_certificate")
<1>0. ChargeTerms \subseteq ReportTerms
  BY DEF ReportTerms
<1>1. CASE pc = "queue"
  <2>1. CheckQueue
    BY <1>1 DEF StepFrom
  <2>2. ReasonsOfFirst("queue_certificate", QueueReasons) = {}
    BY <2>1, NoReason DEF CheckQueue
  <2>3. OfKind("queue_certificate") # {} /\ evidence[First(OfKind("queue_certificate"))].valid
    BY <2>2 DEF ReasonsOfFirst
  <2>4. ChargeOfFirst("queue_certificate", "queue_boundary") /\ "queue_boundary" \in ChargeTerms
    BY <2>1 DEF CheckQueue, ChargeTerms
  <2>5. /\ summary'.charge = [summary.charge EXCEPT !["queue_boundary"] = PayloadOf("queue_certificate").charge]
        /\ summary'.refs = [summary.refs EXCEPT !["queue_boundary"] =
                              {evidence[First(OfKind("queue_certificate"))].id}]
    BY <2>3, <2>4, FirstCharges
  <2>6. summary.charge \in [ChargeTerms -> Int] /\ summary.refs \in [ReportTerms -> SUBSET Refs]
    BY DEF IsSummary
  <2>7. /\ summary'.charge["queue_boundary"] = CertifiedCharge("queue_boundary")
        /\ summary'.refs["queue_boundary"] = SourcesOf("queue_boundary")
    BY <1>0, <2>4, <2>5, <2>6, SourcesOfTerms, CertifiedCharges
  <2>8. \A t \in ReportTerms : CollectedAt[t] = "queue" => t = "queue_boundary"
    BY DEF ReportTerms, ChargeTerms, LowerTerms, CollectedAt
  <2> QED BY <1>0, <1>1, <2>7, <2>8
<1>2. CASE pc = "release"
  <2>1. CheckRelease
    BY <1>2 DEF StepFrom
  <2>2. ReasonsOfFirst("release_accounting", ReleaseReasons) = {}
    BY <2>1, NoReason DEF CheckRelease
  <2>3. OfKind("release_accounting") # {} /\ evidence[First(OfKind("release_accounting"))].valid
    BY <2>2 DEF ReasonsOfFirst
  <2>4. ChargeOfFirst("release_accounting", "release_accounting") /\ "release_accounting" \in ChargeTerms
    BY <2>1 DEF CheckRelease, ChargeTerms
  <2>5. /\ summary'.charge = [summary.charge EXCEPT !["release_accounting"] = PayloadOf("release_accounting").charge]
        /\ summary'.refs = [summary.refs EXCEPT !["release_accounting"] =
                              {evidence[First(OfKind("release_accounting"))].id}]
    BY <2>3, <2>4, FirstCharges
  <2>6. summary.charge \in [ChargeTerms -> Int] /\ summary.refs \in [ReportTerms -> SUBSET Refs]
    BY DEF IsSummary
  <2>7. /\ summary'.charge["release_accounting"] = CertifiedCharge("release_accounting")
        /\ summary'.refs["release_accounting"] = SourcesOf("release_accounting")
    BY <1>0, <2>4, <2>5, <2>6, SourcesOfTerms, CertifiedCharges
  <2>8. \A t \in ReportTerms : CollectedAt[t] = "release" => t = "release_accounting"
    BY DEF ReportTerms, ChargeTerms, LowerTerms, CollectedAt
  <2> QED BY <1>0, <1>2, <2>7, <2>8
<1>3. CASE pc = "accounts"
  <2>1. CheckAccounts
    BY <1>3 DEF StepFrom
  <2>2. AccountReasons("goodhart_account") \cup AccountReasons("open_world_account") = {}
    BY <2>1, NoReason DEF CheckAccounts
  <2>3. ASSUME NEW k \in {"goodhart_account", "open_world_account"}
        PROVE  OfKind(k) = ValidOfKind(k) /\ OfKind(k) # {}
    <3>1. When(OfKind(k) # ValidOfKind(k), "invalid account") = {}
      BY <2>2 DEF AccountReasons
    <3>2. Passed("kinds") /\ k \in RequiredKinds
      BY <1>3 DEF Passed, Stage, RequiredKinds
    <3> QED BY <3>1, <3>2, WhenHolds, RequiredPlaces
  <2>4. /\ AccountOf["goodhart_charge"] = "goodhart_account"
        /\ AccountOf["open_world_charge"] = "open_world_account"
        /\ {"goodhart_charge", "open_world_charge"} = DOMAIN AccountOf
        /\ {"goodhart_charge", "open_world_charge"} \subseteq ChargeTerms
    BY DEF AccountOf, ChargeTerms
  <2>5. ASSUME NEW t \in {"goodhart_charge", "open_world_charge"}
        PROVE  /\ summary'.charge[t] = evidence[Max(OfKind(AccountOf[t]))].payload.charge
               /\ summary'.refs[t] = {evidence[i].id : i \in OfKind(AccountOf[t])}
    <3>1. t \in DOMAIN AccountOf /\ t \in ChargeTerms /\ t \in ReportTerms
      BY <1>0, <2>4
    <3>2. ValidOfKind(AccountOf[t]) = OfKind(AccountOf[t]) /\ OfKind(AccountOf[t]) # {}
      BY <2>3, <2>4
    <3>3. /\ summary'.charge[t] = evidence[Max(ValidOfKind(AccountOf[t]))].payload.charge
          /\ summary'.refs[t] = {evidence[i].id : i \in ValidOfKind(AccountOf[t])}
      BY <2>1, <3>1, <3>2, AccountsCharge
    <3> QED BY <3>2, <3>3
  <2>6. ASSUME NEW t \in {"goodhart_charge", "open_world_charge"}
        PROVE  summary'.charge[t] = CertifiedCharge(t) /\ summary'.refs[t] = SourcesOf(t)
    BY <2>4, <2>5, SourcesOfTerms, CertifiedCharges
  <2>7. \A t \in ReportTerms : CollectedAt[t] = "accounts" => t \in {"goodhart_charge", "open_world_charge"}
    BY DEF ReportTerms, ChargeTerms, LowerTerms, CollectedAt
  <2> QED BY <1>0, <1>3, <2>6, <2>7
<1>4. CASE pc = "statistics"
  <2>1. CheckStatistics
    BY <1>4 DEF StepFrom
  <2>2. When(Statistical # OfKind("statistical_certificate"), "invalid statistical certificate") \cup
        When(Paths # OfKind("path_law_certificate"), "invalid path-law certificate") \cup
        When(Statistical \cup Paths = {}, "no certificate of a lower bound") = {}
    BY <2>1, NoReason DEF CheckStatistics
  <2>3. /\ When(Statistical # OfKind("statistical_certificate"), "invalid statistical certificate") = {}
        /\ When(Paths # OfKind("path_law_certificate"), "invalid path-law certificate") = {}
    BY <2>2
  <2>4. Statistical = OfKind("statistical_certificate") /\ Paths = OfKind("path_law_certificate")
    BY <2>3, WhenHolds
  <2>5. {"statistical_lower", "path_law_lower"} \subseteq ReportTerms
    BY DEF ReportTerms, LowerTerms
  <2>6. /\ summary'.refs["statistical_lower"] = {evidence[i].id : i \in Statistical}
        /\ summary'.refs["path_law_lower"] = {evidence[i].id : i \in Paths}
    <3> DEFINE sIds == {evidence[i].id : i \in Statistical}
               pIds == {evidence[i].id : i \in Paths}
    <3>1. \A t \in ReportTerms : summary'.refs[t] =
            IF t = "statistical_lower" THEN sIds
            ELSE IF t = "path_law_lower" THEN pIds ELSE summary.refs[t]
      BY <2>1, StatisticsCount
    <3> HIDE DEF sIds, pIds
    <3>2. summary'.refs["statistical_lower"] = sIds /\ summary'.refs["path_law_lower"] = pIds
      BY <2>5, <3>1
    <3> QED BY <3>2 DEF sIds, pIds
  <2>8. /\ summary'.refs["statistical_lower"] = SourcesOf("statistical_lower")
        /\ summary'.refs["path_law_lower"] = SourcesOf("path_law_lower")
    BY <2>4, <2>6, SourcesOfTerms
  <2>7. /\ \A t \in ReportTerms : CollectedAt[t] = "statistics" => t \in {"statistical_lower", "path_law_lower"}
        /\ \A t \in ChargeTerms : CollectedAt[t] # "statistics"
    BY DEF ReportTerms, ChargeTerms, LowerTerms, CollectedAt
  <2> QED BY <1>4, <2>4, <2>7, <2>8
<1>5. \A t \in ReportTerms : CollectedAt[t] \in {"queue", "release", "accounts", "statistics"}
  BY DEF ReportTerms, ChargeTerms, LowerTerms, CollectedAt
<1> QED BY <1>0, <1>1, <1>2, <1>3, <1>4, <1>5

\* What the terms of a bundle rest on does not change either.
LEMMA SourcesStay ==
  ASSUME bundle' = bundle
  PROVE  /\ \A t \in ReportTerms : SourcesOf(t)' = SourcesOf(t)
         /\ \A t \in ChargeTerms : CertifiedCharge(t)' = CertifiedCharge(t)
         /\ Statistical' = Statistical /\ Numeric' = Numeric /\ Paths' = Paths
         /\ BudgetLimit' = BudgetLimit
<1>1. evidence' = evidence /\ \A k : OfKind(k)' = OfKind(k) /\ ValidOfKind(k)' = ValidOfKind(k)
  BY BundleStays
<1>2. ASSUME NEW t \in ReportTerms PROVE SourcesOf(t)' = SourcesOf(t)
  BY <1>1 DEF SourcesOf
<1>3. ASSUME NEW t \in ChargeTerms PROVE CertifiedCharge(t)' = CertifiedCharge(t)
  BY <1>1 DEF CertifiedCharge, PayloadOf
<1>4. Statistical' = Statistical /\ Numeric' = Numeric /\ Paths' = Paths
  BY <1>1 DEF Statistical, Numeric, Paths
<1>5. BudgetLimit' = BudgetLimit
  BY <1>1 DEF BudgetLimit, Payloads
<1> QED BY <1>2, <1>3, <1>4, <1>5

LEMMA TermsKept ==
  ASSUME Clocks, BindingsType, IsSummary(summary), EvidenceIsChecked, TermsAreChecked, Going
  PROVE  TermsAreChecked'
<1>1. /\ bundle' = bundle /\ limitations \subseteq limitations'
      /\ \A s \in DOMAIN Stage \ {"cut"} : Passed(s)' => Passed(s) \/ pc = s
      /\ StepFrom /\ bundle \in Bundles /\ pc \in DOMAIN Stage
  BY StepsInOrder DEF Clocks
<1> SUFFICES ASSUME Unblocked', NEW t \in ReportTerms
             PROVE  /\ Passed(CollectedAt[t])' => summary'.refs[t] = SourcesOf(t)
                    /\ Passed("statistics")' /\ t \in LowerTerms => summary'.lowers[t] # {}
                    /\ Passed("terms")' => Depends(BoundTo({Term(t)}), SourcesOf(t))'
  BY <1>1, SourcesStay DEF TermsAreChecked
<1>2. Unblocked
  BY <1>1 DEF Unblocked
<1>3. CollectedAt[t] \in {"queue", "release", "accounts", "statistics"}
  BY DEF ReportTerms, ChargeTerms, LowerTerms, CollectedAt
<1>4. {"queue", "release", "accounts", "statistics", "terms"} \subseteq DOMAIN Stage \ {"cut"}
  BY DEF Stage
<1>5. \A s \in DOMAIN Stage : (Quietly => (Passed(s)' <=> Passed(s))) /\ ~(Passed(s) /\ pc = s)
  BY DEF Quietly, Passed, Stage
<1>6. Passed(CollectedAt[t])' => summary'.refs[t] = SourcesOf(t)
  <2>1. CASE pc = CollectedAt[t]
    BY <1>1, <1>2, <1>3, <1>4, <1>5, <2>1, SummaryCollected
  <2>2. CASE pc # CollectedAt[t]
    BY <1>1, <1>2, <1>3, <1>4, <2>2, SummaryChange DEF TermsAreChecked
  <2> QED BY <2>1, <2>2
<1>7. Passed("statistics")' /\ t \in LowerTerms => summary'.lowers[t] # {}
  <2>1. CASE pc = "statistics"
    <3> SUFFICES ASSUME ~Quietly, t \in LowerTerms PROVE summary'.lowers[t] # {}
      BY <1>4, <1>5, <2>1
    <3>1. CheckStatistics
      BY <1>1, <2>1 DEF StepFrom
    <3>2. Statistical = OfKind("statistical_certificate") /\ Paths = OfKind("path_law_certificate")
      BY <1>1, <1>2, <2>1, SummaryCollected
    <3>3. /\ Passed("kinds")
          /\ {"statistical_certificate", "path_law_certificate"} \subseteq RequiredKinds
      BY <2>1 DEF Passed, Stage, RequiredKinds
    <3>4. Statistical # {} /\ Paths # {}
      BY <1>2, <3>2, <3>3, RequiredPlaces
    <3>5. /\ summary'.lowers["statistical_lower"] # {}
          /\ summary'.lowers["path_law_lower"] # {}
      <4>1. bundle \in Bundles /\ IsSummary(summary)
        BY <1>1
      <4>2. summary'.lowers["statistical_lower"]
              = {StatisticalLower(evidence[i].payload) : i \in Statistical}
        BY <3>1, <4>1, StatisticsCount
      <4>3. summary'.lowers["path_law_lower"] = {PathLower(evidence[i].payload) : i \in Paths}
        BY <3>1, <4>1, StatisticsCount
      <4>4. /\ {StatisticalLower(evidence[i].payload) : i \in Statistical} # {}
            /\ {PathLower(evidence[i].payload) : i \in Paths} # {}
        BY <3>4
      <4> QED BY <4>2, <4>3, <4>4
    <3> QED BY <3>5 DEF LowerTerms
  <2>2. CASE pc # "statistics"
    BY <1>1, <1>2, <1>4, <2>2, SummaryChange DEF TermsAreChecked
  <2> QED BY <2>1, <2>2
<1>8. bindings' = bindings /\ SourcesOf(t)' = SourcesOf(t)
      => Depends(BoundTo({Term(t)}), SourcesOf(t))' = Depends(BoundTo({Term(t)}), SourcesOf(t))
  BY DEF Depends, BoundTo, Term
<1>9. Passed("terms")' => Depends(BoundTo({Term(t)}), SourcesOf(t))'
  <2>1. CASE pc = "terms"
    <3> SUFFICES ASSUME ~Quietly PROVE Depends(BoundTo({Term(t)}), SourcesOf(t))'
      BY <1>4, <1>5, <2>1
    <3>1. BindReportTerms
      BY <1>1, <2>1 DEF StepFrom
    <3>2. Passed("statistics") /\ Passed(CollectedAt[t])
      BY <1>3, <2>1 DEF Passed, Stage
    <3>3. summary.refs[t] = SourcesOf(t) /\ (t \in LowerTerms => summary.lowers[t] # {})
      BY <1>2, <3>2 DEF TermsAreChecked
    <3>4. t \in Expected
      BY <3>3 DEF Expected, ReportTerms
    <3>5. TermReasons(t) = {}
      <4>1. UNION {TermReasons(u) : u \in Expected} = {}
        BY <3>1, NoReason DEF BindReportTerms
      <4> QED BY <3>4, <4>1
    <3>6. AcceptedValue(t) # {}
      <4>1. When(AcceptedValue(t) = {}, "term unbound") = {}
        BY <3>5 DEF TermReasons
      <4> QED BY <4>1, WhenHolds
    <3>7. Depends(BoundTo({Term(t)}), SourcesOf(t))
      BY <3>3, <3>6, AcceptedValueType
    <3> QED BY <1>1, <1>8, <2>1, <3>7, ReadOnce, SourcesStay
  <2>2. CASE pc # "terms"
    <3> SUFFICES ASSUME Passed("terms") PROVE Depends(BoundTo({Term(t)}), SourcesOf(t))'
      BY <1>1, <1>4, <2>2
    <3>1. pc # "bind"
      BY DEF Passed, Stage
    <3>2. bindings' = bindings
      BY <1>1, <3>1, ReadOnce
    <3> QED BY <1>1, <1>2, <1>8, <3>2, SourcesStay DEF TermsAreChecked
  <2> QED BY <2>1, <2>2
<1> QED BY <1>6, <1>7, <1>9

----------------------------------------------------------------------------
(* Confidence                                                              *)

LEMMA BudgetType ==
  ASSUME bundle \in Bundles
  PROVE  LET S == Payloads("confidence_budget") IN
         /\ \A p \in S : LimitOf(p) \in Int
         /\ S # {} => BudgetLimit \in Int /\ \A p \in S : BudgetLimit <= LimitOf(p)
<1> DEFINE S == Payloads("confidence_budget")
           I == ValidOfKind("confidence_budget")
           f == [i \in I |-> LimitOf(evidence[i].payload)]
           T == {f[i] : i \in I}
<1>1. ASSUME NEW i \in I PROVE LimitOf(evidence[i].payload) \in Int
  <2>1. PayloadShape("confidence_budget", evidence[i].payload)
    BY EvidenceType DEF ValidOfKind, OfKind
  <2>2. evidence[i].payload.limit \subseteq Int
    BY <2>1 DEF PayloadShape
  <2> QED BY <2>2 DEF LimitOf
<1>2. \A p \in S : LimitOf(p) \in Int /\ LimitOf(p) \in T
  BY <1>1 DEF Payloads
<1>3. ASSUME S # {} PROVE BudgetLimit \in Int /\ \A p \in S : BudgetLimit <= LimitOf(p)
  <2>1. BudgetLimit = Min(T)
    <3>1. T = {LimitOf(p) : p \in S}
      BY DEF Payloads
    <3> QED BY <3>1 DEF BudgetLimit
  <2>2. T \subseteq Int /\ T # {}
    BY <1>1, <1>2, <1>3
  <2>3. IsFiniteSet(T)
    <3>1. IsFiniteSet(I)
      BY OfKindPlaces, KindPlaces
    <3> HIDE DEF f, I
    <3>2. IsFiniteSet({f[i] : i \in I})
      BY <3>1, FiniteImage
    <3> QED BY <3>2
  <2> HIDE DEF T
  <2> QED BY <1>2, <2>1, <2>2, <2>3, Extremes
<1> QED BY <1>2, <1>3

\* What is spent: by the evidence and by the contracts.
EvidenceConfidence == SumFunction([i \in DOMAIN evidence |-> evidence[i].confidence])

ContractBudgets == SumFunction([i \in ValidOfKind("evidence_contract") |-> evidence[i].payload.budget])

LEMMA ConfidenceType ==
  ASSUME bundle \in Bundles
  PROVE  EvidenceConfidence \in Int /\ ContractBudgets \in Nat
<1>1. EvidenceConfidence \in Int
  <2> DEFINE f == [i \in DOMAIN evidence |-> evidence[i].confidence]
  <2>1. DOMAIN f = DOMAIN evidence /\ \A i \in DOMAIN evidence : f[i] \in Int
    BY EvidenceType DEF EvidenceShape
  <2>2. IsFiniteSet(DOMAIN evidence)
    BY KindPlaces
  <2> HIDE DEF f
  <2>3. SumFunctionOnSet(f, DOMAIN f) \in Int
    BY <2>1, <2>2, SumType
  <2> QED BY <2>3, SumFunctionIs DEF EvidenceConfidence, f
<1>2. ContractBudgets \in Nat
  <2> DEFINE S == ValidOfKind("evidence_contract")
             f == [i \in S |-> evidence[i].payload.budget]
  <2>1. \A i \in S : PayloadShape("evidence_contract", evidence[i].payload)
    BY EvidenceType DEF ValidOfKind, OfKind
  <2>2. DOMAIN f = S /\ \A i \in S : f[i] \in Nat
    BY <2>1 DEF PayloadShape
  <2>3. IsFiniteSet(S)
    BY OfKindPlaces, KindPlaces
  <2> HIDE DEF f, S
  <2>4. SumFunctionOnSet(f, DOMAIN f) \in Nat
    BY <2>2, <2>3, SumNotNegative
  <2> QED BY <2>4, SumFunctionIs DEF ContractBudgets, f, S
<1> QED BY <1>1, <1>2

\* What is spent once the statistics are counted does not change.
LEMMA ConfidenceStays ==
  ASSUME bundle' = bundle, summary'.delta = summary.delta
  PROVE  ConfidenceUsed' = ConfidenceUsed
<1>1. evidence' = evidence /\ ValidOfKind("evidence_contract")' = ValidOfKind("evidence_contract")
  BY BundleStays
<1> QED BY <1>1 DEF ConfidenceUsed

LEMMA NumbersKept ==
  ASSUME Clocks, BindingsType, IsSummary(summary), EvidenceIsChecked, NumbersAreChecked, Going
  PROVE  NumbersAreChecked'
<1>1. /\ bundle' = bundle /\ limitations \subseteq limitations'
      /\ \A s \in DOMAIN Stage \ {"cut"} : Passed(s)' => Passed(s) \/ pc = s
      /\ StepFrom /\ bundle \in Bundles /\ pc \in DOMAIN Stage
  BY StepsInOrder DEF Clocks
<1>2. {"queue", "release", "accounts", "statistics", "terms", "budget"} \subseteq DOMAIN Stage \ {"cut"}
  BY DEF Stage
<1>3. \A s \in DOMAIN Stage : (Quietly => (Passed(s)' <=> Passed(s))) /\ ~(Passed(s) /\ pc = s)
  BY DEF Quietly, Passed, Stage
<1>4. evidence' = evidence /\ \A k : OfKind(k)' = OfKind(k)
  BY <1>1, BundleStays
<1>5. /\ Statistical' = Statistical /\ Numeric' = Numeric /\ Paths' = Paths
      /\ BudgetLimit' = BudgetLimit
      /\ \A t \in ChargeTerms : CertifiedCharge(t)' = CertifiedCharge(t)
  BY <1>1, SourcesStay
<1>6. Unblocked' => Unblocked
  BY <1>1 DEF Unblocked
<1>7. Passed("statistics")' =>
        /\ summary'.lowers["statistical_lower"] = {StatisticalLower(evidence[i].payload) : i \in Statistical}
        /\ summary'.lowers["path_law_lower"] = {PathLower(evidence[i].payload) : i \in Paths}
        /\ summary'.delta = CountedDeltas + PathDeltas
  <2>1. CASE pc = "statistics"
    <3>1. Quietly \/ CheckStatistics
      BY <1>1, <2>1 DEF StepFrom
    <3> QED BY <1>1, <1>2, <1>3, <2>1, <3>1, StatisticsCount
  <2>2. CASE pc # "statistics"
    BY <1>1, <1>2, <2>2, SummaryChange DEF NumbersAreChecked, CountedDeltas, PathDeltas
  <2> QED BY <2>1, <2>2
<1>8. Unblocked' /\ Passed("statistics")' =>
        Statistical = OfKind("statistical_certificate") /\ Paths = OfKind("path_law_certificate")
  <2>1. CASE pc = "statistics"
    BY <1>1, <1>2, <1>3, <1>6, <2>1, SummaryCollected
  <2>2. CASE pc # "statistics"
    BY <1>1, <1>2, <1>6, <2>2 DEF NumbersAreChecked
  <2> QED BY <2>1, <2>2
<1>9. ASSUME NEW t \in ChargeTerms, Unblocked', Passed(CollectedAt[t])'
      PROVE  IF Passed("terms")' THEN summary'.charge[t] >= CertifiedCharge(t)
             ELSE summary'.charge[t] = CertifiedCharge(t)
  <2>1. CollectedAt[t] \in {"queue", "release", "accounts"}
    BY DEF ChargeTerms, CollectedAt
  <2>2. Unblocked /\ (Passed(CollectedAt[t]) \/ pc = CollectedAt[t])
    BY <1>1, <1>2, <1>6, <1>9, <2>1
  <2>3. t \in ReportTerms
    BY DEF ReportTerms
  <2>4. CASE pc = CollectedAt[t]
    <3>1. ~Quietly
      BY <1>2, <1>3, <1>9, <2>1, <2>4
    <3>2. summary'.charge[t] = CertifiedCharge(t)
      BY <1>1, <1>9, <2>2, <2>4, <3>1, SummaryCollected
    <3>3. ~Passed("terms") /\ pc # "terms"
      BY <2>1, <2>4 DEF Passed, Stage
    <3>4. ~Passed("terms")'
      BY <1>1, <1>2, <3>3
    <3> QED BY <3>2, <3>4
  <2>5. CASE pc = "terms"
    <3>1. Passed(CollectedAt[t]) /\ ~Passed("terms")
      BY <2>1, <2>5 DEF Passed, Stage
    <3>2. summary.charge[t] = CertifiedCharge(t) /\ summary.charge[t] \in Int
      BY <2>2, <3>1 DEF NumbersAreChecked, IsSummary
    <3>3. CASE Quietly
      BY <1>2, <1>3, <3>1, <3>2, <3>3 DEF Quietly
    <3>4. CASE ~Quietly
      <4>1. BindReportTerms
        BY <1>1, <2>5, <3>4 DEF StepFrom
      <4>2. TermReasons(t) = {}
        <5>1. UNION {TermReasons(u) : u \in Expected} = {}
          BY <1>9, <4>1, NoReason DEF BindReportTerms
        <5> QED BY <5>1 DEF Expected
      <4>3. t \notin LowerTerms
        BY DEF ChargeTerms, LowerTerms
      <4>4. AcceptedValue(t) # {} /\ \A v \in AcceptedValue(t) : ~(v < summary.charge[t])
        <5>1. /\ When(AcceptedValue(t) = {}, "term unbound") = {}
              /\ When(\E v \in AcceptedValue(t) : v < summary.charge[t], "charge below certificate") = {}
          BY <4>2, <4>3 DEF TermReasons
        <5> QED BY <5>1, WhenHolds
      <4>5. summary'.charge[t] = CHOOSE v \in AcceptedValue(t) : TRUE
        BY <4>1, <4>4, TermsAreBound
      <4>6. summary'.charge[t] \in AcceptedValue(t) /\ AcceptedValue(t) \subseteq Int
        BY <4>4, <4>5, AcceptedValueType
      <4>7. summary'.charge[t] \in Int /\ ~(summary'.charge[t] < summary.charge[t])
        BY <4>4, <4>6
      <4>8. Passed("terms")'
        BY <4>1 DEF BindReportTerms, Go, Passed, Stage
      <4> QED BY <3>2, <4>7, <4>8
    <3> QED BY <3>3, <3>4
  <2>6. CASE pc \notin {"terms", CollectedAt[t]}
    <3>1. summary'.charge[t] = summary.charge[t]
      BY <1>1, <2>6, SummaryChange
    <3>2. Passed("terms")' <=> Passed("terms")
      BY <1>1, <1>2, <2>6, StepsInOrder
    <3> QED BY <2>2, <2>6, <3>1, <3>2 DEF NumbersAreChecked
  <2> QED BY <2>4, <2>5, <2>6
<1>10. Unblocked' /\ Passed("budget")' => ConfidenceUsed' <= BudgetLimit
  <2> SUFFICES ASSUME Unblocked', Passed("budget")' PROVE ConfidenceUsed' <= BudgetLimit
    OBVIOUS
  <2>1. pc # "statistics"
    <3>1. pc = "statistics" => ~Passed("budget")
      BY DEF Passed, Stage
    <3> QED BY <1>1, <1>2, <3>1
  <2>2. ConfidenceUsed' = ConfidenceUsed
    BY <1>1, <2>1, SummaryChange, ConfidenceStays
  <2>3. CASE pc = "budget"
    <3>1. CheckBudget
      BY <1>1, <1>2, <1>3, <2>3 DEF StepFrom
    <3>2. OfKind("confidence_budget") # {} /\ ~(ConfidenceUsed > BudgetLimit)
      <4>1. (IF OfKind("confidence_budget") = {} THEN {"no confidence budget"}
             ELSE When(ConfidenceUsed > BudgetLimit, "confidence budget exceeded")) = {}
        BY <3>1, NoReason DEF CheckBudget
      <4> QED BY <4>1, WhenHolds
    <3>3. ConfidenceUsed \in Int
      <4>1. ConfidenceUsed = EvidenceConfidence + ContractBudgets + summary.delta
        BY DEF ConfidenceUsed, EvidenceConfidence, ContractBudgets
      <4>2. EvidenceConfidence \in Int /\ ContractBudgets \in Int /\ summary.delta \in Int
        BY <1>1, ConfidenceType DEF IsSummary
      <4> QED BY <4>1, <4>2
    <3>4. BudgetLimit \in Int
      <4>1. ~Raises /\ pc = "budget"
        BY <2>3, <3>1 DEF CheckBudget
      <4>2. Payloads("confidence_budget") # {}
        BY <3>2, <4>1 DEF Raises, Payloads
      <4> QED BY <1>1, <4>2, BudgetType
    <3> QED BY <2>2, <3>2, <3>3, <3>4
  <2>4. CASE pc # "budget"
    BY <1>1, <1>2, <1>6, <2>2, <2>4 DEF NumbersAreChecked
  <2> QED BY <2>3, <2>4
<1>11. CountedDeltas' = CountedDeltas /\ PathDeltas' = PathDeltas
  BY <1>4, <1>5 DEF CountedDeltas, PathDeltas
<1> QED BY <1>4, <1>5, <1>7, <1>8, <1>9, <1>10, <1>11 DEF NumbersAreChecked, CountedDeltas, PathDeltas

----------------------------------------------------------------------------
(* The report                                                              *)

\* What the report is made of does not change any more.
LEMMA ReportStays ==
  ASSUME bundle' = bundle, summary' = summary
  PROVE  GatesHold' = GatesHold /\ ComposedBound' = ComposedBound /\ Bottlenecks' = Bottlenecks
<1>1. network' = network
  BY DEF network
<1>2. Edges' = Edges
  BY <1>1 DEF Edges
<1>3. CertifiedCapacities' = CertifiedCapacities
  BY <1>1, <1>2 DEF CertifiedCapacities
<1>4. \A c : LPCapacities(c)' = LPCapacities(c)
  BY <1>1, <1>2 DEF LPCapacities
<1>5. \A c : Flow(c)' = Flow(c)
  BY <1>1, <1>4 DEF Flow
<1>6. \A i, x : Override(i, x)' = Override(i, x)
  BY <1>1, <1>2, <1>3 DEF Override
<1>7. \A i : UpperPrice(i)' = UpperPrice(i)
  BY <1>3, <1>5, <1>6 DEF UpperPrice
<1>8. Bottlenecks' = Bottlenecks
  BY <1>1, <1>2, <1>7 DEF Bottlenecks
<1>9. ComposedBound' = ComposedBound
  BY <1>3, <1>5 DEF ComposedBound
<1> QED BY <1>1, <1>2, <1>8, <1>9 DEF GatesHold

LEMMA StatusOfReports ==
  NoReport.status = "none" /\ Blocked.status = "blocked" /\ NoReport.bound = 0 /\ Blocked.bound = 0
BY DEF NoReport, Blocked

LEMMA ReportKept ==
  ASSUME Clocks, ReportIsLast, Going
  PROVE  ReportIsLast'
<1>1. /\ bundle' = bundle /\ limitations \subseteq limitations' /\ StepFrom
      /\ pc \in DOMAIN Stage
  BY StepsInOrder DEF Clocks
<1>2. CASE Quietly
  <2>1. summary' = summary /\ report' = report /\ pc' = pc /\ limitations' = limitations
    BY <1>2 DEF Quietly
  <2> QED BY <1>1, <2>1, ReportStays DEF ReportIsLast, Ok, Unblocked, Blocked
<1>3. CASE pc \notin {"report", "done"} /\ ~Quietly
  <2>1. ASSUME NEW here, NEW there, NEW reasons, Go(here, there, reasons) PROVE report' = report
    BY <2>1 DEF Go
  <2>2. report' = report
    <3>1. \/ CheckClaim \/ CheckKinds \/ ParseContractsAndWitnesses \/ CheckSplit \/ CheckTcb
          \/ BindContracts \/ CheckUncertainty \/ CheckCapacities \/ CheckQueue \/ CheckRelease
          \/ CheckAccounts \/ CheckStatistics \/ BindReportTerms \/ CheckBudget
          \/ StartCapital \/ JudgeCapital
      BY <1>1, <1>3 DEF StepFrom
    <3> QED BY <2>1, <3>1
            DEF CheckClaim, CheckKinds, ParseContractsAndWitnesses, CheckSplit, CheckTcb,
                BindContracts, CheckUncertainty, CheckCapacities, CheckQueue, CheckRelease,
                CheckAccounts, CheckStatistics, BindReportTerms, CheckBudget, StartCapital,
                JudgeCapital
  <2>3. report' = NoReport
    BY <1>3, <2>2 DEF ReportIsLast
  <2> QED BY <2>3, StatusOfReports DEF ReportIsLast, Ok
<1>4. CASE pc = "report" /\ ~Quietly
  <2>1. Report \/ SolverFails
    BY <1>1, <1>4 DEF StepFrom
  <2>2. pc' = "done" /\ summary' = summary
    BY <2>1 DEF Report, SolverFails
  <2>3. CASE report' = Blocked
    BY <2>2, <2>3, StatusOfReports DEF ReportIsLast, Ok, Blocked, NoReport
  <2>4. CASE report' # Blocked
    <3>1. Report /\ limitations' = {}
          /\ report' = [status |-> "ok", bound |-> ComposedBound, bottlenecks |-> Bottlenecks]
      BY <2>1, <2>4 DEF Report, SolverFails
    <3>2. When(~GatesHold, "hard gates") = {}
      BY <3>1 DEF Report
    <3>3. GatesHold
      BY <3>2, WhenHolds
    <3>4. Ok' /\ report'.bound = ComposedBound /\ report'.bottlenecks = Bottlenecks
      BY <3>1 DEF Ok
    <3>5. Unblocked'
      BY <3>1 DEF Unblocked
    <3> QED BY <1>1, <2>2, <3>3, <3>4, <3>5, ReportStays DEF ReportIsLast
  <2> QED BY <2>3, <2>4
<1>5. pc = "done" => Quietly
  BY <1>1 DEF StepFrom
<1> QED BY <1>2, <1>3, <1>4, <1>5

----------------------------------------------------------------------------
(* The invariant                                                           *)

IInv ==
  /\ Clocks /\ BindingsType /\ IsSummary(summary)
  /\ EvidenceIsChecked /\ BindingsAreChecked /\ TermsAreChecked /\ NumbersAreChecked
  /\ ReportIsLast

LEMMA InitIInv == Init => IInv
<1> SUFFICES ASSUME Init PROVE IInv
  OBVIOUS
<1>1. Clocks
  BY ScalesAssumption DEF Init, Clocks, Stage
<1>2. BindingsType
  BY FS_EmptySet DEF Init, BindingsType
<1>3. IsSummary(summary)
  <2> DEFINE s == [charge |-> [t \in ChargeTerms |-> 0], refs |-> [t \in ReportTerms |-> {}],
                   lowers |-> [t \in LowerTerms |-> {}], bounds |-> [t \in LowerTerms |-> {}],
                   delta |-> 0]
  <2>1. IsSummary(s)
    BY FS_EmptySet DEF IsSummary
  <2> QED BY <2>1 DEF Init
<1>4. \A s \in DOMAIN Stage \ {"raised"} : ~Passed(s)
  <2>1. pc = "claim"
    BY DEF Init
  <2>2. \A s \in DOMAIN Stage \ {"raised"} : ~(Stage["claim"] > Stage[s])
    BY DEF Stage
  <2> QED BY <2>1, <2>2 DEF Passed
<1>5. EvidenceIsChecked /\ BindingsAreChecked
  BY <1>4 DEF EvidenceIsChecked, BindingsAreChecked, Stage
<1>6. {"statistics", "terms", "budget"} \subseteq DOMAIN Stage \ {"raised"}
      /\ \A t \in ReportTerms : CollectedAt[t] \in DOMAIN Stage \ {"raised"}
  BY DEF Stage, CollectedAt, ReportTerms, ChargeTerms, LowerTerms
<1>7. TermsAreChecked /\ NumbersAreChecked
  BY <1>4, <1>6 DEF TermsAreChecked, NumbersAreChecked, ReportTerms
<1>8. ReportIsLast
  BY StatusOfReports DEF Init, ReportIsLast, Ok
<1> QED BY <1>1, <1>2, <1>3, <1>5, <1>7, <1>8 DEF IInv

\* An error leaves nothing to be checked any more.
LEMMA RaiseKeepsIInv == IInv /\ Raise => IInv'
<1> SUFFICES ASSUME IInv, Raise PROVE IInv'
  OBVIOUS
<1>1. /\ UNCHANGED <<bundle, clock, began, limitations, bindings, summary, report>>
      /\ pc # "done" /\ pc' = "raised" /\ pc' \in DOMAIN Stage
  BY RaiseStops
<1>2. \A s \in DOMAIN Stage : ~Passed(s)'
  BY RaiseStops
<1>3. evidence' = evidence /\ Refs' = Refs
  BY <1>1, BundleStays
<1>4. Clocks' /\ BindingsType' /\ IsSummary(summary)'
  BY <1>1, <1>3 DEF IInv, Clocks, BindingsType, IsSummary
<1>5. EvidenceIsChecked' /\ BindingsAreChecked'
  BY <1>2 DEF EvidenceIsChecked, BindingsAreChecked, Stage
<1>6. {"statistics", "terms", "budget"} \subseteq DOMAIN Stage
      /\ \A t \in ReportTerms : CollectedAt[t] \in DOMAIN Stage
  BY DEF Stage, CollectedAt, ReportTerms, ChargeTerms, LowerTerms
<1>7. TermsAreChecked' /\ NumbersAreChecked'
  BY <1>2, <1>6 DEF TermsAreChecked, NumbersAreChecked, ReportTerms
<1>8. ReportIsLast'
  <2>1. report' = NoReport /\ pc' # "done"
    BY <1>1 DEF IInv, ReportIsLast
  <2> QED BY <2>1, StatusOfReports DEF ReportIsLast, Ok
<1> QED BY <1>4, <1>5, <1>7, <1>8 DEF IInv

LEMMA NextIInv == IInv /\ [Next]_vars => IInv'
<1> SUFFICES ASSUME IInv, Going PROVE IInv'
  BY GoingOrRaise, RaiseKeepsIInv
<1>1. Clocks' /\ BindingsType' /\ IsSummary(summary)'
  BY ClocksKept, BindingsTypeKept, SummaryKept DEF IInv
<1>2. EvidenceIsChecked' /\ BindingsAreChecked'
  BY EvidenceKept, BindingsKept DEF IInv
<1>3. TermsAreChecked' /\ NumbersAreChecked'
  BY TermsKept, NumbersKept DEF IInv
<1>4. ReportIsLast'
  BY ReportKept DEF IInv
<1> QED BY <1>1, <1>2, <1>3, <1>4 DEF IInv

LEMMA AlwaysIInv == Spec => []IInv
<1>1. Init => IInv
  BY InitIInv
<1>2. IInv /\ [Next]_vars => IInv'
  BY NextIInv
<1> QED BY <1>1, <1>2, PTL DEF Spec

\* When a report is ok, every validator has run and found nothing.
LEMMA OkIsLast ==
  ASSUME IInv, Ok
  PROVE  Unblocked /\ GatesHold /\ \A s \in DOMAIN Stage \ {"done"} : Passed(s)
<1>1. pc = "done"
  BY StatusOfReports DEF IInv, ReportIsLast, Ok
<1> QED BY <1>1 DEF IInv, ReportIsLast, Passed, Stage

----------------------------------------------------------------------------
(* Theorems                                                                *)

\* An ok report rests on evidence of every required kind that was fit at one
\* moment, and on roots of trust that were in place then: for any bundle and any
\* run of the clock between the three readings.
THEOREM OkNeedsFitEvidence == Spec => []OkRestsOnFitEvidence
<1>1. IInv => OkRestsOnFitEvidence
  <2> SUFFICES ASSUME IInv, Ok
               PROVE  /\ Fitting(began) = DOMAIN evidence
                      /\ RequiredKinds \subseteq {x.kind : x \in Range(evidence)}
                      /\ UNION ({x.tcb : x \in Range(evidence)} \cup {c.tcb : c \in Contracts}
                                \cup {w.tcb : w \in Witnesses})
                           \subseteq RootedTcb(began)
    BY DEF OkRestsOnFitEvidence
  <2>1. Unblocked /\ Passed("claim") /\ Passed("kinds") /\ Passed("tcb")
    BY OkIsLast DEF Stage
  <2> QED BY <2>1 DEF IInv, EvidenceIsChecked
<1> QED BY <1>1, AlwaysIInv, PTL

\* What the checks of a contract leave: each of its witnesses vouches for its one term.
LEMMA BoundContract ==
  ASSUME IInv, Ok, NEW c \in Contracts
  PROVE  /\ Len(c.exposes) = 1
         /\ AcceptedFor(c) # {}
         /\ \A w \in AcceptedFor(c) : w \in Witnesses /\ w.output /\ Vouches(c, w, c.exposes[1])
<1>1. ContractReasons(c) = {}
  <2>1. Unblocked /\ Passed("bind")
    BY OkIsLast DEF Stage
  <2> QED BY <2>1 DEF IInv, BindingsAreChecked
<1>2. AcceptedFor(c) # {} /\ Len(c.exposes) = 1
  BY <1>1 DEF ContractReasons
<1>3. ASSUME NEW w \in AcceptedFor(c) PROVE WitnessReasons(c, w) = {}
  BY <1>1, <1>2 DEF ContractReasons
<1>4. c.exposes = <<c.exposes[1]>>
  <2>1. c.exposes \in Seq(Range(c.exposes))
    BY ContractsType DEF PayloadShape, IInv, Clocks
  <2> DEFINE s == c.exposes
  <2>2. s \in Seq(Range(s)) /\ Len(s) = 1
    BY <1>2, <2>1
  <2> HIDE DEF s
  <2>3. s = <<s[1]>>
    BY <2>2
  <2> QED BY <2>3 DEF s
<1>5. ASSUME NEW w \in AcceptedFor(c)
      PROVE  w \in Witnesses /\ w.output /\ Vouches(c, w, c.exposes[1])
  <2>1. w \in Witnesses /\ w.accepted /\ w.contract_id = c.contract_id
    BY DEF AcceptedFor
  <2>2. w.exposes = c.exposes
    BY <1>3 DEF WitnessReasons
  <2>3. /\ When(w.input = "" \/ ~(c.input \subseteq {w.input}), "input digest") = {}
        /\ When(w.checker = "" \/ ~(c.checker \subseteq {w.checker}), "checker digest") = {}
        /\ When(c.scope # "" /\ w.scope # c.scope, "witness scope") = {}
        /\ When(~(c.tcb \subseteq w.tcb), "witness TCB") = {}
        /\ When(~w.output, "witness lacks output") = {}
    BY <1>3, <2>2 DEF WitnessReasons
  <2>4. /\ c.input \subseteq {w.input} /\ c.checker \subseteq {w.checker}
        /\ c.scope \in {"", w.scope} /\ c.tcb \subseteq w.tcb /\ w.output
    BY <2>3, WhenHolds
  <2> QED BY <1>4, <2>1, <2>2, <2>4 DEF Vouches
<1> QED BY <1>2, <1>5

\* Every binding of an ok report comes from a contract and a witness that vouches for it.
LEMMA BoundByWitness ==
  ASSUME IInv, Ok, NEW b \in bindings
  PROVE  \E c \in Contracts, w \in Witnesses :
           Vouches(c, w, b.term) /\ b.dependencies = c.dependencies /\ b.value = w.value
<1>1. bindings = UNION {BindingsOf(c) : c \in Contracts}
  BY OkIsLast DEF Stage, IInv, BindingsAreChecked
<1>2. PICK c \in Contracts : b \in BindingsOf(c)
  BY <1>1
<1>3. PICK w \in AcceptedFor(c) :
        b = [term |-> c.exposes[1], dependencies |-> c.dependencies, value |-> w.value]
  BY <1>2 DEF BindingsOf
<1>4. w \in Witnesses /\ Vouches(c, w, c.exposes[1])
  BY BoundContract
<1>5. b.term = c.exposes[1] /\ b.dependencies = c.dependencies /\ b.value = w.value
  BY <1>3
<1> QED BY <1>4, <1>5

\* Overlapping splits are excused only by adaptive rules that the contracts name
\* and that witnesses which bind their terms declare.
THEOREM OverlapIsExcused == Spec => []SplitIsHonest
<1>1. IInv => SplitIsHonest
  <2> SUFFICES ASSUME IInv, Ok, Overlap(bundle.split) # {}, NEW c \in Contracts
               PROVE  /\ c.compose \in AdaptiveRules
                      /\ \E w \in Witnesses :
                           /\ w.accepted /\ w.contract_id = c.contract_id /\ w.rule \in AdaptiveRules
                           /\ w.exposes = c.exposes /\ w.output
                           /\ [term |-> c.exposes[1], dependencies |-> c.dependencies, value |-> w.value]
                                \in bindings
    BY DEF SplitIsHonest
  <2>1. Unblocked /\ Passed("split") /\ Passed("bind")
    BY OkIsLast DEF Stage
  <2>2. SplitReasons(bundle.split) = {}
    BY <2>1 DEF IInv, EvidenceIsChecked
  <2>3. When(Overlap(bundle.split) # {} /\ ~OverlapWitness, "split overlaps") = {}
    BY <2>2 DEF SplitReasons
  <2>4. OverlapWitness
    BY <2>3, WhenHolds
  <2>5. c.compose \in AdaptiveRules /\ \E w \in AcceptedFor(c) : w.rule \in AdaptiveRules
    BY <2>4 DEF OverlapWitness
  <2>6. PICK w \in AcceptedFor(c) : w.rule \in AdaptiveRules
    BY <2>5
  <2>7. w \in Witnesses /\ w.output /\ Vouches(c, w, c.exposes[1]) /\ Len(c.exposes) = 1
    BY BoundContract
  <2>8. w.accepted /\ w.contract_id = c.contract_id /\ w.exposes = c.exposes
    BY <2>7 DEF Vouches
  <2>9. [term |-> c.exposes[1], dependencies |-> c.dependencies, value |-> w.value] \in BindingsOf(c)
    BY <2>7, <2>8 DEF BindingsOf
  <2>10. bindings = UNION {BindingsOf(d) : d \in Contracts}
    BY <2>1 DEF IInv, BindingsAreChecked
  <2>11. [term |-> c.exposes[1], dependencies |-> c.dependencies, value |-> w.value] \in bindings
    BY <2>9, <2>10
  <2> QED BY <2>5, <2>6, <2>7, <2>8, <2>11
<1> QED BY <1>1, AlwaysIInv, PTL

\* One witnessed contract names all sources of a term of an ok report, one names
\* the support of each edge, and one vouches for the capacity of the edge, by id
\* where several edges share the name.
THEOREM TermsAreWitnessed == Spec => []EveryTermIsWitnessed
<1>1. ASSUME IInv, Ok, NEW t \in ReportTerms
      PROVE  \E c \in Contracts, w \in Witnesses :
               Vouches(c, w, Term(t)) /\ SourcesOf(t) \subseteq c.dependencies
  <2>1. Unblocked /\ Passed("terms")
    BY <1>1, OkIsLast DEF Stage
  <2>2. Depends(BoundTo({Term(t)}), SourcesOf(t))
    BY <1>1, <2>1 DEF IInv, TermsAreChecked
  <2>3. PICK b \in bindings : b.term = Term(t) /\ SourcesOf(t) \subseteq b.dependencies
    BY <2>2 DEF Depends, BoundTo
  <2>4. PICK c \in Contracts, w \in Witnesses :
          Vouches(c, w, b.term) /\ b.dependencies = c.dependencies /\ b.value = w.value
    BY <1>1, BoundByWitness
  <2> QED BY <2>3, <2>4
<1>2. ASSUME IInv, Ok, NEW e \in Range(network.edges),
             NEW names, names = {CapacityOf(e.id), CapacityOf(e.name)}
      PROVE  /\ \E c \in Contracts, w \in Witnesses, x \in names :
                  Vouches(c, w, x) /\ e.evidence \subseteq c.dependencies
             /\ \E c \in Contracts, w \in Witnesses, x \in names :
                  Vouches(c, w, x) /\ \E v \in w.value : v >= e.capacity * Unit
             /\ Cardinality(SameName(e)) > 1 =>
                  \E c \in Contracts, w \in Witnesses : Vouches(c, w, CapacityOf(e.id))
  <2> DEFINE byId == BoundTo({CapacityOf(e.id)})
             byName == BoundTo({CapacityOf(e.name)})
             bound == byId \cup byName
  <2>1. EdgeReasons(e) = {}
    <3>1. Unblocked /\ Passed("capacities")
      BY <1>2, OkIsLast DEF Stage
    <3> QED BY <1>2, <3>1 DEF IInv, BindingsAreChecked
  <2>2. bound # {} /\ (Cardinality(SameName(e)) > 1 => byId # {})
    BY <2>1 DEF EdgeReasons
  <2>3. Depends(bound, e.evidence)
    BY <2>1, <2>2 DEF EdgeReasons
  <2>4. When(\A v \in Values(bound) : v < e.capacity * Unit, "capacity below declared") = {}
    BY <2>1, <2>2, <2>3 DEF EdgeReasons
  <2>5. PICK v \in Values(bound) : ~(v < e.capacity * Unit)
    BY <2>4, WhenHolds
  <2>6. \A b \in bound : b \in bindings /\ b.term \in names
    BY <1>2 DEF BoundTo
  <2>7. PICK b \in bound : v \in b.value
    BY <2>5 DEF Values
  <2>8. v \in Int /\ e.capacity * Unit \in Int
    <3>1. v \in Int
      BY <1>2, <2>6, <2>7 DEF IInv, BindingsType
    <3>2. e.capacity \in Nat
      BY <1>2, BundlesAssumption DEF IInv, Clocks, network, EdgeShape
    <3> QED BY <3>1, <3>2, ScalesAssumption
  <2>9. PICK d \in bound : e.evidence \subseteq d.dependencies
    BY <2>3 DEF Depends
  <2> HIDE DEF bound
  <2>10. \E c \in Contracts, w \in Witnesses, x \in names :
           Vouches(c, w, x) /\ e.evidence \subseteq c.dependencies
    <3>1. d \in bindings /\ d.term \in names
      BY <2>6
    <3>2. PICK c \in Contracts, w \in Witnesses :
            Vouches(c, w, d.term) /\ d.dependencies = c.dependencies /\ d.value = w.value
      BY <1>2, <3>1, BoundByWitness
    <3> QED BY <2>9, <3>1, <3>2
  <2>11. \E c \in Contracts, w \in Witnesses, x \in names :
           Vouches(c, w, x) /\ \E u \in w.value : u >= e.capacity * Unit
    <3>1. b \in bindings /\ b.term \in names
      BY <2>6
    <3>2. PICK c \in Contracts, w \in Witnesses :
            Vouches(c, w, b.term) /\ b.dependencies = c.dependencies /\ b.value = w.value
      BY <1>2, <3>1, BoundByWitness
    <3>3. v \in w.value /\ v >= e.capacity * Unit
      BY <2>5, <2>7, <2>8, <3>2
    <3> QED BY <3>1, <3>2, <3>3
  <2>12. Cardinality(SameName(e)) > 1 =>
           \E c \in Contracts, w \in Witnesses : Vouches(c, w, CapacityOf(e.id))
    <3> SUFFICES ASSUME byId # {} PROVE \E c \in Contracts, w \in Witnesses : Vouches(c, w, CapacityOf(e.id))
      BY <2>2
    <3>1. PICK a \in bindings : a.term = CapacityOf(e.id)
      BY DEF BoundTo
    <3>2. PICK c \in Contracts, w \in Witnesses :
            Vouches(c, w, a.term) /\ a.dependencies = c.dependencies /\ a.value = w.value
      BY <1>2, BoundByWitness
    <3> QED BY <3>1, <3>2
  <2> QED BY <2>10, <2>11, <2>12
<1>3. IInv => EveryTermIsWitnessed
  BY <1>1, <1>2 DEF EveryTermIsWitnessed
<1> QED BY <1>3, AlwaysIInv, PTL

\* What the certificates spend is counted but for fractions of a microunit.
LEMMA SpentIsCounted ==
  ASSUME bundle \in Bundles
  PROVE  /\ SumFunction([i \in Numeric |-> Spent(evidence[i].payload)]) \in Nat
         /\ SumFunction([i \in Numeric |-> Spent(evidence[i].payload)])
              <= Micro * CountedDeltas + (Micro - 1) * Cardinality(Numeric)
         /\ Cardinality(Numeric) \in Nat
<1> DEFINE f == [i \in Numeric |-> Spent(evidence[i].payload)]
           g == [i \in Numeric |-> CountedDelta(evidence[i].payload)]
<1>1. DOMAIN f = Numeric /\ DOMAIN g = Numeric
  OBVIOUS
<1>2. \A i \in Numeric : f[i] \in Nat /\ g[i] \in Nat /\ f[i] <= Micro * g[i] + (Micro - 1)
  BY DeltaType DEF Numeric
<1>3. IsFiniteSet(Numeric) /\ Cardinality(Numeric) \in Nat
  BY DeltaType, FS_CardinalityType
<1>4. CountedDeltas = SumFunction(g)
  BY DEF CountedDeltas
<1>5. Micro \in Int /\ Micro - 1 \in Int
  BY ScalesAssumption
<1> HIDE DEF f, g
<1>6. SumFunctionOnSet(f, Numeric) \in Nat
  BY <1>2, <1>3, SumNotNegative
<1>7. SumFunctionOnSet(f, Numeric)
        <= Micro * SumFunctionOnSet(g, Numeric) + (Micro - 1) * Cardinality(Numeric)
  <2>1. \A i \in Numeric : f[i] \in Int /\ g[i] \in Int /\ f[i] <= Micro * g[i] + (Micro - 1)
    BY <1>2
  <2> DEFINE k == Micro - 1
  <2>2. k \in Int /\ \A i \in Numeric : f[i] \in Int /\ g[i] \in Int /\ f[i] <= Micro * g[i] + k
    BY <1>5, <2>1
  <2>3. Micro \in Int
    BY <1>5
  <2> HIDE DEF k
  <2>4. SumFunctionOnSet(f, Numeric) <= Micro * SumFunctionOnSet(g, Numeric) + k * Cardinality(Numeric)
    BY <1>3, <2>2, <2>3, SumOfMultiples, Zenon
  <2> QED BY <2>4 DEF k
<1>8. SumFunction(f) = SumFunctionOnSet(f, Numeric) /\ SumFunction(g) = SumFunctionOnSet(g, Numeric)
  BY <1>1, SumFunctionIs
<1>9. /\ SumFunction(f) \in Nat
      /\ SumFunction(f) <= Micro * CountedDeltas + (Micro - 1) * Cardinality(Numeric)
  BY <1>4, <1>6, <1>7, <1>8
<1> QED BY <1>3, <1>9 DEF f

\* An ok report spends no more confidence than any of the budgets allows, but for
\* fractions of a microunit and for what is written as a string: for every bundle,
\* with confidence and limits of either sign.
THEOREM ConfidenceWithinBudget == Spec => []ConfidenceIsPaid
<1> DEFINE Counted == {i \in OfKind("statistical_certificate") : evidence[i].payload.numeric}
<1>1. ASSUME IInv, Ok PROVE Paid(Counted)
  <2> SUFFICES ASSUME NEW p \in Payloads("confidence_budget")
               PROVE  Micro * (EvidenceConfidence
                        + SumFunction([i \in OfKind("evidence_contract") |-> evidence[i].payload.budget])
                        + SumFunction([i \in OfKind("path_law_certificate") |-> evidence[i].payload.delta]))
                      + SumFunction([i \in Counted |-> Spent(evidence[i].payload)])
                        <= Micro * LimitOf(p) + (Micro - 1) * Cardinality(Counted)
    BY DEF Paid, EvidenceConfidence
  <2>1. Unblocked /\ Passed("parse") /\ Passed("statistics") /\ Passed("budget") /\ bundle \in Bundles
    BY <1>1, OkIsLast DEF Stage, IInv, Clocks
  <2>2. SumFunction([i \in OfKind("evidence_contract") |-> evidence[i].payload.budget]) = ContractBudgets
    <3>1. OfKind("evidence_contract") = ValidOfKind("evidence_contract")
      BY <1>1, <2>1 DEF IInv, EvidenceIsChecked
    <3> QED BY <3>1 DEF ContractBudgets
  <2>3. /\ Statistical = OfKind("statistical_certificate") /\ Paths = OfKind("path_law_certificate")
        /\ summary.delta = CountedDeltas + PathDeltas
        /\ ConfidenceUsed <= BudgetLimit
    BY <1>1, <2>1 DEF IInv, NumbersAreChecked, CountedDeltas, PathDeltas
  <2>4. Counted = Numeric
    BY <2>3 DEF Numeric
  <2>5. SumFunction([i \in OfKind("path_law_certificate") |-> evidence[i].payload.delta]) = PathDeltas
    BY <2>3 DEF PathDeltas
  <2>6. BudgetLimit \in Int /\ LimitOf(p) \in Int /\ BudgetLimit <= LimitOf(p)
    BY <2>1, BudgetType
  <2>7. ConfidenceUsed = EvidenceConfidence + ContractBudgets + summary.delta
    BY DEF ConfidenceUsed, EvidenceConfidence, ContractBudgets
  <2>8. /\ EvidenceConfidence \in Int /\ ContractBudgets \in Int
        /\ CountedDeltas \in Int /\ PathDeltas \in Int
    BY <2>1, ConfidenceType, CountedDeltasType
  <2> DEFINE C == EvidenceConfidence + ContractBudgets + PathDeltas
             X == SumFunction([i \in Numeric |-> Spent(evidence[i].payload)])
             N == Cardinality(Numeric)
             D == CountedDeltas
             L == LimitOf(p)
  <2>9. C \in Int /\ D \in Int /\ L \in Int /\ C + D <= L
    BY <2>3, <2>6, <2>7, <2>8
  <2>10. X \in Nat /\ N \in Nat /\ X <= Micro * D + (Micro - 1) * N
    BY <2>1, SpentIsCounted
  <2>11. Micro \in Nat
    BY ScalesAssumption
  <2> HIDE DEF C, D, L, X, N
  <2>12. Micro * (C + D) = Micro * C + Micro * D /\ Micro * (C + D) <= Micro * L
    <3>1. L - (C + D) \in Nat
      BY <2>9
    <3>2. Micro * (L - (C + D)) \in Nat
      BY <2>11, <3>1
    <3>3. Micro * L = Micro * (C + D) + Micro * (L - (C + D))
      BY <2>9, <2>11
    <3>4. Micro * (C + D) = Micro * C + Micro * D
      BY <2>9, <2>11
    <3>5. Micro * L \in Int /\ Micro * (C + D) \in Int
      BY <2>9, <2>11
    <3> QED BY <3>2, <3>3, <3>4, <3>5
  <2>13. Micro * C \in Int /\ Micro * D \in Int /\ Micro * L \in Int /\ (Micro - 1) * N \in Int
    BY <2>9, <2>10, <2>11
  <2>14. Micro * C + X <= Micro * L + (Micro - 1) * N
    BY <2>10, <2>12, <2>13
  <2> QED BY <2>2, <2>4, <2>5, <2>14 DEF C, X, N, L
<1>2. IInv => ConfidenceIsPaid
  BY <1>1 DEF ConfidenceIsPaid
<1> QED BY <1>2, AlwaysIInv, PTL

----------------------------------------------------------------------------
(* The flow relaxation                                                     *)

\* Of numbers the least is one of them.
LEMMA NetLeastIs ==
  ASSUME NEW S \in SUBSET Nat, S # {}
  PROVE  LP!Least(S) \in S /\ \A x \in S : LP!Least(S) <= x
<1>1. \E n \in S : \A m \in S : n <= m
  BY LeastNatural
<1> QED BY <1>1 DEF LP!Least

\* The sums of the graph module are the sums of this one.
LEMMA NetSums == \A f, A : LP!SumFunctionOnSet(f, A) = SumFunctionOnSet(f, A)
BY DEF LP!SumFunctionOnSet, SumFunctionOnSet, LP!FoldFunctionOnSet, FoldFunctionOnSet,
       LP!MapThenFoldSet, MapThenFoldSet

\* The vertices of the program are the nodes of the network and its two ends.
LEMMA NetVertices ==
  /\ IsFiniteSet(LP!Vertices)
  /\ LP!Vertices = NetNodes \cup {"__cwc_source__", "__cwc_sink__"}
  /\ LP!Arcs = Across(LP!Vertices, LP!Vertices)
<1>1. IsFiniteSet(NetNodes \cup {"__cwc_source__"})
      /\ NetNodes \cup {"__cwc_source__", "__cwc_sink__"} = (NetNodes \cup {"__cwc_source__"}) \cup {"__cwc_sink__"}
  BY NetNodesAssumption, FS_AddElement
<1>2. IsFiniteSet(LP!Vertices)
  BY <1>1, FS_AddElement DEF LP!Vertices
<1> QED BY <1>2 DEF LP!Vertices, LP!Arcs, Across

\* A set of nodes together with the super source, and what crosses it.
Sourced(S) == S \cup {"__cwc_source__"}
Crossing(S) == Across(Sourced(S), LP!Vertices \ Sourced(S))

\* What a set of nodes is crossed by is the capacity of the cut it makes.
LEMMA NetCuts ==
  ASSUME NEW c \in [LP!Arcs -> Nat], NEW S \in SUBSET NetNodes
  PROVE  /\ IsFiniteSet(Crossing(S)) /\ Crossing(S) \subseteq LP!Arcs
         /\ LP!CutCapacity(c, S \cup {"__cwc_source__"}) = SumFunctionOnSet(c, Crossing(S))
         /\ LP!CutCapacity(c, S \cup {"__cwc_source__"}) \in Nat
<1>1. Sourced(S) \in SUBSET LP!Vertices /\ LP!Vertices \ Sourced(S) \in SUBSET LP!Vertices
  BY NetVertices DEF Sourced
<1>2. IsFiniteSet(Crossing(S))
  BY <1>1, NetVertices, ArcsAreFinite DEF Crossing
<1>3. Crossing(S) \subseteq LP!Arcs
  BY <1>1 DEF Crossing, Across, LP!Arcs
<1>4. LP!CutCapacity(c, S \cup {"__cwc_source__"}) = LP!SumFunctionOnSet(c, Crossing(S))
  BY DEF LP!CutCapacity, Crossing, Sourced, Across
<1>5. LP!CutCapacity(c, S \cup {"__cwc_source__"}) = SumFunctionOnSet(c, Crossing(S))
  BY <1>4, NetSums
<1>6. \A a \in Crossing(S) : c[a] \in Nat
  BY <1>3
<1>7. SumFunctionOnSet(c, Crossing(S)) \in Nat
  BY <1>2, <1>6, SumNotNegative
<1> QED BY <1>2, <1>3, <1>5, <1>7

\* The least cut is below what crosses any set of nodes.
LEMMA NetMinCut ==
  ASSUME NEW c \in [LP!Arcs -> Nat]
  PROVE  /\ LP!MinCut(c) \in Nat
         /\ \A S \in SUBSET NetNodes : LP!MinCut(c) <= SumFunctionOnSet(c, Crossing(S))
<1> DEFINE C == {LP!CutCapacity(c, S \cup {"__cwc_source__"}) : S \in SUBSET NetNodes}
<1>1. \A S \in SUBSET NetNodes : LP!CutCapacity(c, S \cup {"__cwc_source__"}) \in Nat
  BY NetCuts
<1>2. C \in SUBSET Nat /\ C # {}
  BY <1>1
<1>3. LP!Least(C) \in C /\ \A x \in C : LP!Least(C) <= x
  BY <1>2, NetLeastIs
<1>4. LP!MinCut(c) = LP!Least(C)
  BY DEF LP!MinCut
<1>5. \A S \in SUBSET NetNodes : LP!MinCut(c) <= LP!CutCapacity(c, S \cup {"__cwc_source__"})
  BY <1>3, <1>4
<1> QED BY <1>2, <1>3, <1>4, <1>5, NetCuts

\* The network of a bundle.
LEMMA NetworkType ==
  ASSUME bundle \in Bundles
  PROVE  /\ bundle.target \in Nat /\ network.nodes \subseteq NetNodes
         /\ network.sources \subseteq NetNodes /\ network.sinks \subseteq NetNodes
         /\ IsFiniteSet(Edges) /\ Edges \subseteq Nat
         /\ \A i \in Edges : EdgeShape(network.edges[i])
         /\ CertifiedCapacities \in [Edges -> Nat]
<1>1. /\ bundle.target \in Nat /\ network.nodes \subseteq NetNodes
      /\ network.sources \subseteq NetNodes /\ network.sinks \subseteq NetNodes
      /\ network.edges \in Seq(Range(network.edges))
      /\ \A e \in Range(network.edges) : EdgeShape(e)
  BY BundlesAssumption DEF network
<1>2. Len(network.edges) \in Nat /\ Edges = 1..Len(network.edges)
      /\ \A i \in Edges : network.edges[i] \in Range(network.edges)
  BY <1>1 DEF Edges, Range
<1>3. IsFiniteSet(Edges)
  BY <1>2, FS_Interval
<1>4. Edges \subseteq Nat /\ \A i \in Edges : EdgeShape(network.edges[i])
  BY <1>1, <1>2
<1>5. CertifiedCapacities \in [Edges -> Nat]
  BY <1>4 DEF CertifiedCapacities, Certified, VG!Positive, EdgeShape
<1> QED BY <1>1, <1>3, <1>4, <1>5

\* The edges that join two nodes.
Joining(a) == {i \in Edges : <<network.edges[i].from, network.edges[i].to>> = a}

\* Only finitely many edges join two nodes.
LEMMA JoiningIs ==
  ASSUME bundle \in Bundles, NEW a
  PROVE  Joining(a) \subseteq Edges /\ IsFiniteSet(Joining(a))
<1>1. Joining(a) \subseteq Edges
  BY DEF Joining
<1> QED BY <1>1, NetworkType, FS_Subset

\* The capacities of the program are natural numbers.
LEMMA LPCapacitiesAre ==
  ASSUME bundle \in Bundles, NEW c \in [Edges -> Nat]
  PROVE  /\ LPCapacities(c) \in [LP!Arcs -> Nat]
         /\ \A a \in LP!Arcs : LPCapacities(c)[a] =
              IF a[1] = "__cwc_source__" THEN IF a[2] \in network.sources THEN bundle.target ELSE 0
              ELSE IF a[2] = "__cwc_sink__" THEN IF a[1] \in network.sinks THEN bundle.target ELSE 0
              ELSE IF {a[1], a[2]} \subseteq network.nodes THEN SumFunctionOnSet(c, Joining(a)) ELSE 0
<1>1. LPCapacities(c) = [a \in LP!Arcs |->
              IF a[1] = "__cwc_source__" THEN IF a[2] \in network.sources THEN bundle.target ELSE 0
              ELSE IF a[2] = "__cwc_sink__" THEN IF a[1] \in network.sinks THEN bundle.target ELSE 0
              ELSE IF {a[1], a[2]} \subseteq network.nodes THEN SumFunctionOnSet(c, Joining(a)) ELSE 0]
  BY DEF LPCapacities, Joining
<1>2. ASSUME NEW a PROVE SumFunctionOnSet(c, Joining(a)) \in Nat
  <2>1. Joining(a) \subseteq Edges /\ IsFiniteSet(Joining(a))
    BY JoiningIs
  <2>2. \A i \in Joining(a) : c[i] \in Nat
    BY <2>1
  <2> QED BY <2>1, <2>2, SumNotNegative
<1>3. bundle.target \in Nat
  BY NetworkType
<1> QED BY <1>1, <1>2, <1>3

\* Sums over parts that do not overlap are no more than the whole.
LEMMA SumOfParts ==
  ASSUME NEW f, NEW X, IsFiniteSet(X), \A x \in X : f[x] \in Nat,
         NEW A, IsFiniteSet(A), NEW B, NEW g,
         \A a \in A : B[a] \subseteq X /\ g[a] = SumFunctionOnSet(f, B[a]),
         \A a, b \in A : a # b => B[a] \cap B[b] = {}
  PROVE  SumFunctionOnSet(g, A) <= SumFunctionOnSet(f, X)
<1> DEFINE U == UNION {B[a] : a \in A}
<1>1. \A a \in A : IsFiniteSet(B[a]) /\ (\A x \in B[a] : f[x] \in Int) /\ g[a] = SumFunctionOnSet(f, B[a])
  BY FS_Subset
<1>2. \A x : x \in U <=> \E a \in A : x \in B[a]
  OBVIOUS
<1>3. U \in SUBSET X
  OBVIOUS
<1> HIDE DEF U
<1>4. /\ IsFiniteSet(U)
      /\ SumFunctionOnSet(g, A) = SumFunctionOnSet(f, U)
  BY <1>1, <1>2, SumOfGroups
<1>5. SumFunctionOnSet(f, U) <= SumFunctionOnSet(f, X)
  BY <1>3, SumOfPart
<1> QED BY <1>4, <1>5

\* What crosses a cut of the program is at most what leaves that cut of the network.
LEMMA CrossingBelowLeaving ==
  ASSUME bundle \in Bundles, NEW c \in [Edges -> Nat], NEW S \in NetworkCuts
  PROVE  SumFunctionOnSet(LPCapacities(c), Crossing(S)) <= SumFunctionOnSet(c, Leaving(S))
<1> DEFINE A == Crossing(S)
           X == Leaving(S)
           B == [a \in A |-> IF {a[1], a[2]} \subseteq network.nodes THEN Joining(a) ELSE {}]
           g == LPCapacities(c)
<1>1. S \in SUBSET NetNodes /\ network.sources \subseteq S /\ network.sinks \cap S = {}
  BY DEF NetworkCuts
<1>2. X \subseteq Edges
  BY DEF Leaving
<1>3. IsFiniteSet(X) /\ \A x \in X : c[x] \in Nat
  BY <1>2, NetworkType, FS_Subset
<1>4. g \in [LP!Arcs -> Nat]
  BY LPCapacitiesAre
<1>5. IsFiniteSet(A) /\ A \subseteq LP!Arcs
  BY <1>1, <1>4, NetCuts
<1>6. ASSUME NEW a \in A PROVE B[a] \subseteq X /\ g[a] = SumFunctionOnSet(c, B[a])
  <2>1. PICK u \in Sourced(S), v \in LP!Vertices \ Sourced(S) : a = <<u, v>>
    BY DEF Crossing, Across
  <2>2. a[1] = u /\ a[2] = v
    BY <2>1
  <2>3. g[a] = IF u = "__cwc_source__" THEN IF v \in network.sources THEN bundle.target ELSE 0
               ELSE IF v = "__cwc_sink__" THEN IF u \in network.sinks THEN bundle.target ELSE 0
               ELSE IF {u, v} \subseteq network.nodes THEN SumFunctionOnSet(c, Joining(a)) ELSE 0
    BY <1>5, <2>2, LPCapacitiesAre
  <2>4. v \notin S /\ v # "__cwc_source__"
    BY DEF Sourced
  <2>5. /\ network.nodes \subseteq NetNodes /\ network.sinks \subseteq NetNodes
        /\ "__cwc_source__" \notin NetNodes /\ "__cwc_sink__" \notin NetNodes
    BY NetworkType, NetNodesAssumption
  <2>6. CASE {u, v} \subseteq network.nodes
    <3>1. u # "__cwc_source__" /\ v # "__cwc_sink__" /\ u \in S
      BY <2>5, <2>6 DEF Sourced
    <3>2. B[a] = Joining(a)
      BY <2>2, <2>6
    <3>3. Joining(a) \subseteq X
      BY <2>1, <2>4, <3>1 DEF Joining, Leaving
    <3> QED BY <2>3, <2>6, <3>1, <3>2, <3>3
  <2>7. CASE ~({u, v} \subseteq network.nodes)
    <3>1. B[a] = {}
      BY <2>2, <2>7
    <3>2. v \notin network.sources
      BY <1>1, <2>4
    <3>3. u \in S => u \notin network.sinks
      BY <1>1
    <3>4. g[a] = 0
      BY <2>3, <2>7, <3>2, <3>3 DEF Sourced
    <3> HIDE DEF B, g
    <3> QED BY <3>1, <3>4, SumOfNothing
  <2> QED BY <2>6, <2>7
<1>7. \A a, b \in A : a # b => B[a] \cap B[b] = {}
  BY DEF Joining
<1> HIDE DEF A, X, B, g
<1>8. SumFunctionOnSet(g, A) <= SumFunctionOnSet(c, X)
  BY <1>3, <1>5, <1>6, <1>7, SumOfParts
<1> QED BY <1>8 DEF A, X, g

\* The flow: a number, at most the target, and, where the sources are listed, at
\* most what leaves any cut of the network.
LEMMA FlowIs ==
  ASSUME bundle \in Bundles, NEW c \in [Edges -> Nat]
  PROVE  /\ Flow(c) \in Nat /\ Flow(c) <= bundle.target
         /\ network.sources \subseteq network.nodes =>
              \A S \in NetworkCuts : Flow(c) <= SumFunctionOnSet(c, Leaving(S))
<1> DEFINE n == Cardinality(network.sources \ network.nodes)
           loose == n * bundle.target
           m == LP!MinCut(LPCapacities(c))
           P == {bundle.target, loose + m}
<1>1. bundle.target \in Nat /\ network.sources \subseteq NetNodes
  BY NetworkType
<1>2. IsFiniteSet(network.sources \ network.nodes)
  BY <1>1, NetNodesAssumption, FS_Subset
<1>3. n \in Nat
  BY <1>2, FS_CardinalityType
<1>4. LPCapacities(c) \in [LP!Arcs -> Nat]
  BY LPCapacitiesAre
<1>5. m \in Nat /\ \A S \in SUBSET NetNodes : m <= SumFunctionOnSet(LPCapacities(c), Crossing(S))
  BY <1>4, NetMinCut
<1>6. network.sources \subseteq network.nodes => n = 0
  <2>1. network.sources \subseteq network.nodes => network.sources \ network.nodes = {}
    OBVIOUS
  <2> QED BY <2>1, FS_EmptySet
<1>7. Flow(c) = Min(P)
  BY DEF Flow
<1> HIDE DEF n, m
<1>8. loose \in Nat
  BY <1>1, <1>3
<1>9. n = 0 => loose = 0
  BY <1>1
<1> HIDE DEF loose
<1>10. P \subseteq Int /\ P # {}
  BY <1>1, <1>5, <1>8
<1>11. IsFiniteSet(P)
  <2>1. P = {bundle.target} \cup {loose + m}
    OBVIOUS
  <2>2. IsFiniteSet({bundle.target})
    BY FS_Singleton
  <2>3. IsFiniteSet({bundle.target} \cup {loose + m})
    BY <2>2, FS_AddElement
  <2> HIDE DEF P
  <2> QED BY <2>1, <2>3
<1> HIDE DEF P
<1>12. Min(P) \in P /\ \A x \in P : Min(P) <= x
  BY <1>10, <1>11, Extremes
<1>13. Min(P) \in Nat /\ Min(P) <= bundle.target /\ Min(P) <= loose + m
  BY <1>1, <1>5, <1>8, <1>12 DEF P
<1>14. ASSUME network.sources \subseteq network.nodes, NEW S \in NetworkCuts
       PROVE  Flow(c) <= SumFunctionOnSet(c, Leaving(S))
  <2>1. Min(P) <= m
    BY <1>5, <1>6, <1>9, <1>13, <1>14
  <2>2. S \in SUBSET NetNodes
    BY DEF NetworkCuts
  <2>3. m <= SumFunctionOnSet(LPCapacities(c), Crossing(S))
    BY <1>5, <2>2
  <2>4. SumFunctionOnSet(LPCapacities(c), Crossing(S)) <= SumFunctionOnSet(c, Leaving(S))
    BY CrossingBelowLeaving
  <2>5. SumFunctionOnSet(LPCapacities(c), Crossing(S)) \in Int
    <3>1. IsFiniteSet(Crossing(S)) /\ Crossing(S) \subseteq LP!Arcs
      BY <1>4, <2>2, NetCuts
    <3>2. \A a \in Crossing(S) : LPCapacities(c)[a] \in Int
      BY <1>4, <3>1
    <3> QED BY <3>1, <3>2, SumType
  <2>6. SumFunctionOnSet(c, Leaving(S)) \in Int
    <3>1. Leaving(S) \subseteq Edges
      BY DEF Leaving
    <3>2. IsFiniteSet(Leaving(S)) /\ \A i \in Leaving(S) : c[i] \in Int
      BY <3>1, NetworkType, FS_Subset
    <3> QED BY <3>2, SumType
  <2> QED BY <1>5, <1>7, <1>13, <2>1, <2>3, <2>4, <2>5, <2>6
<1> QED BY <1>7, <1>13, <1>14

\* The charges that an unblocked report has counted are natural numbers.
ChargesAreNumbers ==
  Unblocked => \A t \in ChargeTerms : Passed(CollectedAt[t]) => CertifiedCharge(t) \in Nat

\* The first certificate of a kind, when nothing was wrong with it.
LEMMA FirstIsValid ==
  ASSUME bundle \in Bundles, NEW k, NEW reasons, ReasonsOfFirst(k, reasons) = {}
  PROVE  OfKind(k) # {} /\ First(OfKind(k)) \in ValidOfKind(k)
<1>1. OfKind(k) # {} /\ evidence[First(OfKind(k))].valid
  BY DEF ReasonsOfFirst
<1>2. First(OfKind(k)) \in OfKind(k)
  BY <1>1, OfKindPlaces, KindPlaces
<1> QED BY <1>1, <1>2 DEF ValidOfKind

\* A step keeps the charges natural.
LEMMA ChargesKept ==
  ASSUME Clocks, EvidenceIsChecked, ChargesAreNumbers, Going
  PROVE  ChargesAreNumbers'
<1>1. /\ bundle' = bundle /\ limitations \subseteq limitations'
      /\ \A s \in DOMAIN Stage \ {"cut"} : Passed(s)' => Passed(s) \/ pc = s
      /\ StepFrom /\ bundle \in Bundles /\ pc \in DOMAIN Stage
  BY StepsInOrder DEF Clocks
<1> SUFFICES ASSUME Unblocked', NEW t \in ChargeTerms, Passed(CollectedAt[t])'
             PROVE  CertifiedCharge(t)' \in Nat
  BY DEF ChargesAreNumbers
<1>2. CertifiedCharge(t)' = CertifiedCharge(t)
  BY <1>1, SourcesStay
<1>3. CollectedAt[t] \in DOMAIN Stage \ {"cut"}
  BY DEF ChargeTerms, CollectedAt, Stage
<1>4. Unblocked
  BY <1>1 DEF Unblocked
<1>5. CASE Passed(CollectedAt[t])
  BY <1>2, <1>4, <1>5 DEF ChargesAreNumbers
<1>6. CASE ~Passed(CollectedAt[t])
  <2>1. pc = CollectedAt[t]
    BY <1>1, <1>3, <1>6
  <2>2. ~Quietly
    BY <1>3, <1>6 DEF Quietly, Passed
  <2>3. CASE t = "queue_boundary"
    <3>1. pc = "queue"
      BY <2>1, <2>3 DEF CollectedAt
    <3>2. CheckQueue
      BY <1>1, <2>2, <3>1 DEF StepFrom
    <3>3. ReasonsOfFirst("queue_certificate", QueueReasons) = {}
      BY <3>2, NoReason DEF CheckQueue
    <3>4. PayloadOf("queue_certificate").charge \in Nat
      BY <1>1, <3>3, FirstIsValid, ChargesType DEF PayloadOf
    <3> QED BY <1>2, <2>3, <3>4, CertifiedCharges
  <2>4. CASE t = "release_accounting"
    <3>1. pc = "release"
      BY <2>1, <2>4 DEF CollectedAt
    <3>2. CheckRelease
      BY <1>1, <2>2, <3>1 DEF StepFrom
    <3>3. ReasonsOfFirst("release_accounting", ReleaseReasons) = {}
      BY <3>2, NoReason DEF CheckRelease
    <3>4. PayloadOf("release_accounting").charge \in Nat
      BY <1>1, <3>3, FirstIsValid, ChargesType DEF PayloadOf
    <3> QED BY <1>2, <2>4, <3>4, CertifiedCharges
  <2>5. CASE t \in {"goodhart_charge", "open_world_charge"}
    <3>1. pc = "accounts"
      BY <2>1, <2>5 DEF CollectedAt
    <3>2. CheckAccounts
      BY <1>1, <2>2, <3>1 DEF StepFrom
    <3>3. AccountReasons("goodhart_account") \cup AccountReasons("open_world_account") = {}
      BY <3>2, NoReason DEF CheckAccounts
    <3>4. ASSUME NEW k \in {"goodhart_account", "open_world_account"}
          PROVE  evidence[Max(OfKind(k))].payload.charge \in Nat
      <4>1. When(OfKind(k) # ValidOfKind(k), "invalid account") = {}
        BY <3>3 DEF AccountReasons
      <4>2. Passed("kinds") /\ k \in RequiredKinds
        BY <3>1 DEF Passed, Stage, RequiredKinds
      <4>3. OfKind(k) = ValidOfKind(k) /\ OfKind(k) # {}
        BY <1>4, <4>1, <4>2, WhenHolds, RequiredPlaces
      <4>4. Max(OfKind(k)) \in ValidOfKind(k)
        BY <1>1, <4>3, OfKindPlaces, KindPlaces
      <4> QED BY <1>1, <4>4, ChargesType
    <3> QED BY <1>2, <2>5, <3>4, CertifiedCharges
  <2> QED BY <2>3, <2>4, <2>5 DEF ChargeTerms
<1> QED BY <1>5, <1>6

\* From the start they are natural.
LEMMA AlwaysCharges == Spec => []ChargesAreNumbers
<1>1. Init => ChargesAreNumbers
  <2> SUFFICES ASSUME Init, NEW t \in ChargeTerms PROVE ~Passed(CollectedAt[t])
    BY DEF ChargesAreNumbers
  <2> QED BY DEF Init, Passed, Stage, ChargeTerms, CollectedAt
<1>2. IInv /\ ChargesAreNumbers /\ [Next]_vars => ChargesAreNumbers'
  <2>1. ASSUME Raise, NEW t \in ChargeTerms PROVE ~Passed(CollectedAt[t])'
    <3>1. CollectedAt[t] \in DOMAIN Stage
      BY DEF Stage, CollectedAt, ChargeTerms
    <3> QED BY <2>1, <3>1, RaiseStops
  <2>2. Raise => ChargesAreNumbers'
    BY <2>1 DEF ChargesAreNumbers
  <2> QED BY <2>2, ChargesKept, GoingOrRaise DEF IInv
<1>3. Spec => []IInv
  BY AlwaysIInv
<1> QED BY <1>1, <1>2, <1>3, PTL DEF Spec

\* The charges of the report together are at least those of the certificates.
LEMMA ChargesCount ==
  ASSUME IInv, ChargesAreNumbers, Ok
  PROVE  /\ CountedCharges \in Nat /\ SumFunction(summary.charge) \in Int
         /\ CountedCharges <= SumFunction(summary.charge)
<1> DEFINE q == CertifiedCharge("queue_boundary")
           r == CertifiedCharge("release_accounting")
           g == CertifiedCharge("goodhart_charge")
           o == CertifiedCharge("open_world_charge")
           f == summary.charge
<1>1. Unblocked /\ \A t \in ChargeTerms : Passed(CollectedAt[t]) /\ Passed("terms")
  BY OkIsLast DEF ChargeTerms, CollectedAt, Stage
<1>2. \A t \in ChargeTerms : f[t] >= CertifiedCharge(t) /\ CertifiedCharge(t) \in Nat
  BY <1>1 DEF IInv, NumbersAreChecked, ChargesAreNumbers
<1>3. f \in [ChargeTerms -> Int]
  BY DEF IInv, IsSummary
<1>4. /\ f["queue_boundary"] >= q /\ q \in Nat /\ f["queue_boundary"] \in Int
      /\ f["release_accounting"] >= r /\ r \in Nat /\ f["release_accounting"] \in Int
      /\ f["goodhart_charge"] >= g /\ g \in Nat /\ f["goodhart_charge"] \in Int
      /\ f["open_world_charge"] >= o /\ o \in Nat /\ f["open_world_charge"] \in Int
  BY <1>2, <1>3 DEF ChargeTerms
<1>5. CountedCharges = q + r + g + o
  BY CertifiedCharges DEF CountedCharges
<1>6. SumFunction(f) = f["queue_boundary"] + f["release_accounting"] + f["goodhart_charge"] + f["open_world_charge"]
  <2> DEFINE s1 == {"queue_boundary"}
             s2 == s1 \cup {"release_accounting"}
             s3 == s2 \cup {"goodhart_charge"}
             s4 == s3 \cup {"open_world_charge"}
  <2>1. IsFiniteSet(s1) /\ IsFiniteSet(s2) /\ IsFiniteSet(s3)
    <3>1. IsFiniteSet(s1)
      BY FS_Singleton
    <3>2. IsFiniteSet(s2)
      BY <3>1, FS_AddElement
    <3> QED BY <3>1, <3>2, FS_AddElement
  <2>2. SumFunctionOnSet(f, s1) = f["queue_boundary"]
    BY <1>4, <2>1, SumAtPlace
  <2>3. SumFunctionOnSet(f, s2) = f["release_accounting"] + SumFunctionOnSet(f, s1)
    BY <1>4, <2>1, SumWithElement
  <2>4. SumFunctionOnSet(f, s3) = f["goodhart_charge"] + SumFunctionOnSet(f, s2)
    BY <1>4, <2>1, SumWithElement
  <2>5. SumFunctionOnSet(f, s4) = f["open_world_charge"] + SumFunctionOnSet(f, s3)
    BY <1>4, <2>1, SumWithElement
  <2>6. DOMAIN f = s4
    BY <1>3 DEF ChargeTerms
  <2>7. SumFunction(f) = SumFunctionOnSet(f, s4)
    BY <2>6, SumFunctionIs
  <2> HIDE DEF s1, s2, s3, s4
  <2> QED BY <1>4, <2>2, <2>3, <2>4, <2>5, <2>7
<1> QED BY <1>4, <1>5, <1>6

\* The certificates of an ok report, as the summary has them.
LEMMA CertificatesCount ==
  ASSUME IInv, Ok
  PROVE  /\ CertificateLowers = UNION {summary.lowers[t] : t \in LowerTerms}
         /\ CertificateLowers # {}
         /\ \A t \in LowerTerms : /\ summary.lowers[t] \subseteq Int /\ IsFiniteSet(summary.lowers[t])
                                  /\ summary.bounds[t] \subseteq Int /\ IsFiniteSet(summary.bounds[t])
<1>1. Unblocked /\ Passed("statistics")
  BY OkIsLast DEF Stage
<1>2. /\ summary.lowers["statistical_lower"] = {StatisticalLower(evidence[i].payload) : i \in Statistical}
      /\ summary.lowers["path_law_lower"] = {PathLower(evidence[i].payload) : i \in Paths}
      /\ Statistical = OfKind("statistical_certificate")
  BY <1>1 DEF IInv, NumbersAreChecked
<1>3. Statistical = ValidOfKind("statistical_certificate")
  BY <1>2 DEF Statistical, ValidOfKind
<1>4. {StatisticalLower(p) : p \in Payloads("statistical_certificate")} = summary.lowers["statistical_lower"]
  BY <1>2, <1>3 DEF Payloads
<1>5. {PathLower(p) : p \in Payloads("path_law_certificate")} = summary.lowers["path_law_lower"]
  BY <1>2 DEF Payloads, Paths
<1>6. summary.lowers["statistical_lower"] # {}
  BY <1>1 DEF IInv, TermsAreChecked, ReportTerms, LowerTerms
<1>7. CertificateLowers = UNION {summary.lowers[t] : t \in LowerTerms}
  BY <1>4, <1>5 DEF CertificateLowers, LowerTerms
<1>8. \A t \in LowerTerms : /\ summary.lowers[t] \subseteq Int /\ IsFiniteSet(summary.lowers[t])
                            /\ summary.bounds[t] \subseteq Int /\ IsFiniteSet(summary.bounds[t])
  BY DEF IInv, IsSummary
<1> QED BY <1>4, <1>6, <1>7, <1>8 DEF CertificateLowers

\* What the bound is composed of.
Ceilings ==
  {Flow(CertifiedCapacities) * Unit}
    \cup UNION {summary.lowers[t] \cup summary.bounds[t] : t \in LowerTerms}

\* The bound of the report is the least ceiling without the charges.
LEMMA CeilingsAre ==
  ASSUME IInv, Ok
  PROVE  /\ Min(Ceilings) \in Int /\ \A x \in Ceilings : x \in Int /\ Min(Ceilings) <= x
         /\ ComposedBound = VG!Positive((Min(Ceilings) - SumFunction(summary.charge)) \div Unit)
<1> DEFINE a == summary.lowers["statistical_lower"] \cup summary.bounds["statistical_lower"]
           b == summary.lowers["path_law_lower"] \cup summary.bounds["path_law_lower"]
           f == Flow(CertifiedCapacities)
           C == Ceilings
<1>1. bundle \in Bundles
  BY DEF IInv, Clocks
<1>2. f \in Nat
  BY <1>1, NetworkType, FlowIs
<1>3. f * Unit \in Int
  BY <1>2, ScalesAssumption
<1>4. C = (a \cup b) \cup {f * Unit}
  BY DEF Ceilings, LowerTerms
<1>5. IsFiniteSet(a) /\ IsFiniteSet(b) /\ a \subseteq Int /\ b \subseteq Int
  <2>1. {"statistical_lower", "path_law_lower"} \subseteq LowerTerms
    BY DEF LowerTerms
  <2> QED BY <2>1, CertificatesCount, FS_Union
<1> HIDE DEF a, b, f, C
<1>6. IsFiniteSet(a \cup b)
  BY <1>5, FS_Union
<1>7. IsFiniteSet((a \cup b) \cup {f * Unit})
  BY <1>6, FS_AddElement
<1>8. IsFiniteSet(C) /\ C \subseteq Int /\ C # {}
  BY <1>3, <1>4, <1>5, <1>7
<1>9. Min(C) \in C /\ \A x \in C : Min(C) <= x
  BY <1>8, Extremes
<1>10. ComposedBound = VG!Positive((Min(C) - SumFunction(summary.charge)) \div Unit)
  BY DEF ComposedBound, C, Ceilings
<1> QED BY <1>8, <1>9, <1>10 DEF C

\* What a positive bound leaves room for.
LEMMA RoomForCharges ==
  ASSUME NEW m \in Int, NEW charges \in Int, NEW u \in Nat \ {0}, NEW bound,
         bound = VG!Positive((m - charges) \div u), bound > 0
  PROVE  bound \in Nat /\ bound * u + charges <= m
<1> DEFINE d == m - charges
           q == d \div u
<1>1. d \in Int /\ q \in Int /\ u * q <= d
  OBVIOUS
<1>2. bound = q
  <2>1. bound = VG!Positive(q)
    OBVIOUS
  <2> HIDE DEF q
  <2> QED BY <2>1 DEF VG!Positive
<1>3. bound * u = u * q /\ u * q \in Int
  <2> HIDE DEF d, q
  <2> QED BY <1>1, <1>2
<1>4. d + charges = m
  OBVIOUS
<1> HIDE DEF d, q
<1> QED BY <1>1, <1>2, <1>3, <1>4

\* A positive lower bound leaves room for the charges of the evidence under every
\* certificate and every cut of the network, whatever the witnesses accepted.
THEOREM FullBoundSound == Spec => []FullBoundIsSound
<1>1. IInv /\ ChargesAreNumbers => FullBoundIsSound
  <2> SUFFICES ASSUME IInv, ChargesAreNumbers, Ok, report.bound > 0
               PROVE  /\ CertificateLowers # {}
                      /\ \A l \in CertificateLowers : report.bound * Unit + CountedCharges <= l
                      /\ report.bound <= bundle.target
                      /\ network.sources \subseteq network.nodes =>
                           \A S \in NetworkCuts :
                             report.bound * Unit + CountedCharges
                               <= Unit * SumFunctionOnSet(CertifiedCapacities, Leaving(S))
    BY DEF FullBoundIsSound
  <2> DEFINE n == report.bound
             m == Min(Ceilings)
             f == Flow(CertifiedCapacities)
             charges == SumFunction(summary.charge)
             counted == CountedCharges
  <2>1. bundle \in Bundles /\ report.bound = ComposedBound
    BY DEF IInv, Clocks, ReportIsLast
  <2>2. /\ m \in Int /\ \A x \in Ceilings : x \in Int /\ m <= x
        /\ n = VG!Positive((m - charges) \div Unit)
    BY <2>1, CeilingsAre
  <2>3. counted \in Nat /\ charges \in Int /\ counted <= charges
    BY ChargesCount
  <2>4. Unit \in Nat \ {0}
    BY ScalesAssumption
  <2>5. n \in Nat /\ n * Unit + charges <= m
    <3> HIDE DEF n, m, charges
    <3> QED BY <2>2, <2>3, <2>4, RoomForCharges DEF n
  <2>6. n * Unit \in Nat
    BY <2>4, <2>5
  <2>7. \A x \in Ceilings : x \in Int /\ n * Unit + counted <= x
    <3> HIDE DEF n, m, charges, counted
    <3> QED BY <2>2, <2>3, <2>5, <2>6
  <2>8. CertificateLowers # {} /\ CertificateLowers \subseteq Ceilings
    BY CertificatesCount DEF Ceilings
  <2>9. CertifiedCapacities \in [Edges -> Nat]
    BY <2>1, NetworkType
  <2>10. /\ f \in Nat /\ f <= bundle.target
         /\ network.sources \subseteq network.nodes =>
              \A S \in NetworkCuts : f <= SumFunctionOnSet(CertifiedCapacities, Leaving(S))
    BY <2>1, <2>9, FlowIs
  <2>11. f * Unit \in Ceilings
    BY DEF Ceilings
  <2>12. n * Unit + counted <= f * Unit
    BY <2>7, <2>11
  <2> HIDE DEF n, f, counted
  <2>13. n <= f
    <3>1. n * Unit <= f * Unit
      BY <2>3, <2>4, <2>6, <2>10, <2>12
    <3> QED BY <2>4, <2>5, <2>10, <3>1
  <2>14. n <= bundle.target
    BY <2>1, <2>5, <2>10, <2>13, NetworkType
  <2>15. ASSUME network.sources \subseteq network.nodes, NEW S \in NetworkCuts
         PROVE  n * Unit + counted <= Unit * SumFunctionOnSet(CertifiedCapacities, Leaving(S))
    <3> DEFINE x == SumFunctionOnSet(CertifiedCapacities, Leaving(S))
    <3>1. x \in Int
      <4>1. Leaving(S) \subseteq Edges
        BY DEF Leaving
      <4>2. IsFiniteSet(Leaving(S)) /\ \A i \in Leaving(S) : CertifiedCapacities[i] \in Int
        BY <2>1, <2>9, <4>1, NetworkType, FS_Subset
      <4> QED BY <4>2, SumType
    <3>2. f <= x
      BY <2>10, <2>15
    <3> HIDE DEF x
    <3>3. f * Unit <= Unit * x /\ f * Unit \in Int /\ Unit * x \in Int
      BY <2>4, <2>10, <3>1, <3>2
    <3>4. n * Unit + counted <= Unit * x
      BY <2>3, <2>6, <2>12, <3>3
    <3> QED BY <3>4 DEF x
  <2> QED BY <2>7, <2>8, <2>14, <2>15 DEF n, counted
<1>2. Spec => []IInv
  BY AlwaysIInv
<1>3. Spec => []ChargesAreNumbers
  BY AlwaysCharges
<1> QED BY <1>1, <1>2, <1>3, PTL

\* Overriding a capacity changes that of the edge, where ids are unique.
LEMMA OverrideIs ==
  ASSUME bundle \in Bundles, NEW i \in Edges, NEW x \in Nat
  PROVE  /\ Override(i, x) \in [Edges -> Nat] /\ Override(i, x)[i] = x
         /\ (\A k, j \in Edges : network.edges[k].id = network.edges[j].id => k = j) =>
              \A j \in Edges \ {i} : Override(i, x)[j] = CertifiedCapacities[j]
<1>1. CertifiedCapacities \in [Edges -> Nat]
  BY NetworkType
<1> QED BY <1>1 DEF Override

\* The upper end of a price is at least what a unit less costs.
LEMMA UpperPriceIs ==
  ASSUME bundle \in Bundles, NEW i \in Edges, CertifiedCapacities[i] > 0
  PROVE  Flow(CertifiedCapacities) - Flow(Override(i, CertifiedCapacities[i] - 1)) <= UpperPrice(i)
         /\ UpperPrice(i) \in Int
<1> DEFINE x == CertifiedCapacities[i]
           base == Flow(CertifiedCapacities)
           up == Flow(Override(i, x + 1))
           down == Flow(Override(i, x - 1))
           P == {0, up - base, base - down}
<1>1. CertifiedCapacities \in [Edges -> Nat] /\ x \in Nat /\ x > 0
  BY NetworkType
<1>2. x + 1 \in Nat /\ x - 1 \in Nat /\ VG!Positive(x - 1) = x - 1
  BY <1>1 DEF VG!Positive
<1>3. Override(i, x + 1) \in [Edges -> Nat] /\ Override(i, x - 1) \in [Edges -> Nat]
  BY <1>2, OverrideIs
<1>4. base \in Nat /\ up \in Nat /\ down \in Nat
  BY <1>1, <1>3, FlowIs
<1>5. UpperPrice(i) = Max(P)
  BY <1>2 DEF UpperPrice
<1> HIDE DEF x, base, up, down
<1>6. P \subseteq Int /\ P # {}
  BY <1>4
<1>7. IsFiniteSet(P)
  <2> DEFINE a == {0}
             b == a \cup {up - base}
             c == b \cup {base - down}
  <2>1. IsFiniteSet(a)
    BY FS_Singleton
  <2>2. IsFiniteSet(b)
    BY <2>1, FS_AddElement
  <2>3. IsFiniteSet(c)
    BY <2>2, FS_AddElement
  <2>4. P = c
    OBVIOUS
  <2> HIDE DEF P, c
  <2> QED BY <2>3, <2>4
<1> HIDE DEF P
<1>8. Max(P) \in P /\ \A y \in P : y <= Max(P)
  BY <1>6, <1>7, Extremes
<1>9. base - down \in P
  BY DEF P
<1> QED BY <1>5, <1>6, <1>8, <1>9 DEF base, down, x

\* While the network holds the bound back, the bottlenecks of an ok report include
\* every edge of every least cut of the network.
THEOREM BottlenecksFound == Spec => []BottlenecksContainMinCuts
<1>1. IInv => BottlenecksContainMinCuts
  <2> SUFFICES ASSUME IInv, Ok, network.sources \subseteq network.nodes,
                      \A i, j \in Edges : network.edges[i].id = network.edges[j].id => i = j,
                      NEW S \in NetworkCuts,
                      SumFunctionOnSet(CertifiedCapacities, Leaving(S)) = Flow(CertifiedCapacities),
                      NEW i \in Leaving(S), CertifiedCapacities[i] > 0
               PROVE  network.edges[i].id \in report.bottlenecks
    BY DEF BottlenecksContainMinCuts
  <2> DEFINE c == CertifiedCapacities
             x == c[i] - 1
             d == Override(i, x)
             L == Leaving(S)
  <2>1. bundle \in Bundles /\ report.bottlenecks = Bottlenecks
    BY DEF IInv, Clocks, ReportIsLast
  <2>2. L \subseteq Edges /\ i \in L /\ i \in Edges
    BY DEF Leaving
  <2>3. c \in [Edges -> Nat] /\ IsFiniteSet(L)
    BY <2>1, <2>2, NetworkType, FS_Subset
  <2>4. x \in Nat /\ c[i] = x + 1
    BY <2>2, <2>3
  <2>5. d \in [Edges -> Nat] /\ d[i] = x /\ \A j \in Edges \ {i} : d[j] = c[j]
    BY <2>1, <2>2, <2>4, OverrideIs
  <2>6. Flow(d) \in Nat /\ Flow(c) \in Nat /\ Flow(d) <= SumFunctionOnSet(d, L)
    BY <2>1, <2>3, <2>5, FlowIs
  <2>7. Flow(c) - Flow(d) <= UpperPrice(i) /\ UpperPrice(i) \in Int
    BY <2>1, <2>2, UpperPriceIs
  <2>8. Flow(c) = SumFunctionOnSet(c, L)
    OBVIOUS
  <2> HIDE DEF c, d, L, x
  <2>9. SumFunctionOnSet(c, L) = c[i] + SumFunctionOnSet(c, L \ {i})
    BY <2>2, <2>3, SumElement
  <2>10. SumFunctionOnSet(d, L) = d[i] + SumFunctionOnSet(d, L \ {i})
    BY <2>2, <2>3, <2>5, SumElement
  <2>11. SumFunctionOnSet(d, L \ {i}) = SumFunctionOnSet(c, L \ {i})
         /\ SumFunctionOnSet(c, L \ {i}) \in Int
    <3>1. IsFiniteSet(L \ {i})
      BY <2>3, FS_Subset
    <3>2. \A j \in L \ {i} : c[j] \in Int /\ d[j] = c[j]
      BY <2>2, <2>3, <2>5
    <3> QED BY <3>1, <3>2, SumOfEquals, SumType
  <2>12. UpperPrice(i) > 0
    BY <2>4, <2>5, <2>6, <2>7, <2>8, <2>9, <2>10, <2>11
  <2>13. \A k \in Edges : network.edges[k].id = network.edges[i].id => k <= i
    BY <2>1, <2>2, NetworkType
  <2> QED BY <2>1, <2>2, <2>12, <2>13 DEF Bottlenecks
<1>2. Spec => []IInv
  BY AlwaysIInv
<1> QED BY <1>1, <1>2, PTL

----------------------------------------------------------------------------
(* Validation capital: the root cut                                        *)

RootEnd == "__cwc_val_root__"
DemandEnd == "__cwc_val_demand__"

\* The vertices of the root cut are the nodes of the graph and its two ends.
LEMMA CapitalVertices ==
  /\ IsFiniteSet(VG!Vertices) /\ VG!Arcs = Across(VG!Vertices, VG!Vertices)
  /\ VG!Vertices = GraphNodes \cup {RootEnd, DemandEnd}
  /\ RootEnd \notin GraphNodes /\ DemandEnd \notin GraphNodes /\ RootEnd # DemandEnd
<1>1. IsFiniteSet(GraphNodes \cup {RootEnd})
      /\ GraphNodes \cup {RootEnd, DemandEnd} = (GraphNodes \cup {RootEnd}) \cup {DemandEnd}
  BY GraphNodesAssumption, FS_AddElement
<1>2. VG!Vertices = GraphNodes \cup {RootEnd, DemandEnd}
  BY DEF VG!Vertices, RootEnd, DemandEnd
<1>3. IsFiniteSet(VG!Vertices)
  BY <1>1, <1>2, FS_AddElement
<1>4. VG!Arcs = Across(VG!Vertices, VG!Vertices)
  BY DEF VG!Arcs, Across
<1> QED BY <1>2, <1>3, <1>4, GraphNodesAssumption DEF RootEnd, DemandEnd

\* Of numbers the least is one of them.
LEMMA CapitalLeastIs ==
  ASSUME NEW S \in SUBSET Nat, S # {}
  PROVE  VG!Least(S) \in S /\ \A x \in S : VG!Least(S) <= x
<1>1. \E n \in S : \A m \in S : n <= m
  BY LeastNatural
<1> QED BY <1>1 DEF VG!Least

\* Both modules count vertices alike.
LEMMA VertexCount == VG!Cardinality(VG!Vertices) = Cardinality(VG!Vertices)
                     /\ Cardinality(VG!Vertices) \in Nat
<1>1. \A A : VG!Cardinality(A) = Cardinality(A)
  BY DEF VG!Cardinality, Cardinality
<1> QED BY <1>1, CapitalVertices, FS_CardinalityType

\* What _root_cut_capacity reaches is what the search of SumsAndFlows reaches.
LEMMA CapitalReached ==
  ASSUME NEW r
  PROVE  Reaches(VG!Vertices, RootEnd, r, Cardinality(VG!Vertices), VG!Reached(r))
<1> DEFINE N == Cardinality(VG!Vertices)
<1>1. N \in Nat /\ RootEnd \in VG!Vertices
  BY VertexCount, CapitalVertices
<1>2. VG!Reached(r) = CHOOSE f : f = [k \in 0..VG!Cardinality(VG!Vertices) |->
        IF k = 0 THEN {RootEnd}
        ELSE UNION {{v \in VG!Vertices : v = u \/ r[<<u, v>>] > 0} : u \in f[k - 1]}]
  BY DEF VG!Reached, VG!Depths, RootEnd
<1>3. VG!Cardinality(VG!Vertices) = N
  BY VertexCount
<1> HIDE DEF N
<1>4. VG!Reached(r) = CHOOSE f : f = [k \in 0..N |->
        IF k = 0 THEN {RootEnd}
        ELSE UNION {{v \in VG!Vertices : v = u \/ r[<<u, v>>] > 0} : u \in f[k - 1]}]
  BY <1>2, <1>3
<1>5. Reaches(VG!Vertices, RootEnd, r, N, VG!Reached(r))
  BY <1>1, <1>4, SearchReaches
<1> QED BY <1>5 DEF N

\* An augmenting path of the root cut is a path on which something is left.
LEMMA CapitalPath ==
  ASSUME NEW r, VG!Augmentable(r), NEW p \in VG!ShortestPaths(r)
  PROVE  /\ p \in Seq(VG!Vertices) /\ IsPath(VG!Vertices, RootEnd, DemandEnd, Len(p), p)
         /\ \A i \in 1..(Len(p) - 1) : r[<<p[i], p[i + 1]>>] > 0
<1> DEFINE N == Cardinality(VG!Vertices)
           R == VG!Reached(r)
           S == {k \in VG!Depths : DemandEnd \in R[k]}
           L == VG!Least(S)
<1>1. p \in Prolonged(RootEnd, r, L, R)[L] /\ p[L + 1] = DemandEnd
  BY DEF VG!ShortestPaths, Prolonged, RootEnd, DemandEnd
<1>2. N \in Nat /\ RootEnd \in VG!Vertices /\ VG!Depths = 0..N
  BY VertexCount, CapitalVertices DEF VG!Depths
<1>3. L \in 0..N
  <2>1. DemandEnd \in R[N]
    BY VertexCount DEF VG!Augmentable, DemandEnd
  <2>2. N \in S /\ S \subseteq 0..N
    BY <1>2, <2>1
  <2>3. S \in SUBSET Nat /\ S # {}
    BY <1>2, <2>2
  <2> HIDE DEF S
  <2>4. VG!Least(S) \in S
    BY <2>3, CapitalLeastIs
  <2> QED BY <2>2, <2>4
<1>4. Reaches(VG!Vertices, RootEnd, r, N, R)
  BY CapitalReached
<1> HIDE DEF N, R, L
<1> QED BY <1>1, <1>2, <1>3, <1>4, SearchFindsPaths

\* r is what a flow of x units from the roots leaves of the capacities c.
CapitalLeft(c, r, x) == IsResidual(VG!Vertices, RootEnd, DemandEnd, c, r, x)

\* What an augmenting path carries.
LEMMA NarrowestIs ==
  ASSUME NEW r \in [VG!Arcs -> Int], VG!Augmentable(r), NEW p \in VG!ShortestPaths(r)
  PROVE  /\ VG!ArcsOf(p) = PathArcs(Len(p), p) /\ VG!ArcsOf(p) \subseteq VG!Arcs
         /\ NarrowestOf(r, p) \in Nat /\ \A a \in VG!ArcsOf(p) : NarrowestOf(r, p) <= r[a]
<1> DEFINE n == Len(p)
           A == VG!ArcsOf(p)
           S == {r[a] : a \in A}
<1>1. /\ p \in Seq(VG!Vertices) /\ IsPath(VG!Vertices, RootEnd, DemandEnd, n, p)
      /\ \A i \in 1..(n - 1) : r[<<p[i], p[i + 1]>>] > 0
  BY CapitalPath
<1>3. A = PathArcs(n, p)
  BY DEF VG!ArcsOf, PathArcs
<1>4. \A a \in A : a \in VG!Arcs /\ r[a] > 0
  <2> SUFFICES ASSUME NEW i \in 1..(n - 1)
               PROVE  <<p[i], p[i + 1]>> \in VG!Arcs /\ r[<<p[i], p[i + 1]>>] > 0
    BY <1>3 DEF PathArcs
  <2>1. n \in Nat /\ i \in 1..n /\ i + 1 \in 1..n
    BY <1>1
  <2>2. p[i] \in VG!Vertices /\ p[i + 1] \in VG!Vertices
    BY <1>1, <2>1 DEF IsPath
  <2> QED BY <1>1, <2>2 DEF VG!Arcs
<1>5. A # {}
  <2>1. n \in Nat /\ n >= 1 /\ p[1] = RootEnd /\ p[n] = DemandEnd
    BY <1>1 DEF IsPath
  <2>2. n # 1
    BY <2>1, CapitalVertices
  <2> HIDE DEF n, A
  <2>3. 1 \in 1..(n - 1)
    BY <2>1, <2>2
  <2> QED BY <1>3, <2>3 DEF PathArcs
<1> HIDE DEF A
<1>6. S \in SUBSET Nat /\ S # {}
  BY <1>4, <1>5
<1> HIDE DEF S
<1>7. VG!Least(S) \in S /\ \A x \in S : VG!Least(S) <= x
  BY <1>6, CapitalLeastIs
<1>8. NarrowestOf(r, p) = VG!Least(S)
  BY DEF NarrowestOf, S, A
<1>9. \A a \in A : VG!Least(S) <= r[a]
  BY <1>7 DEF S
<1> QED BY <1>3, <1>4, <1>6, <1>7, <1>8, <1>9 DEF A

\* An augmentation of the root cut sends that much more.
LEMMA CapitalPush ==
  ASSUME NEW c \in [VG!Arcs -> Int], NEW r, NEW x \in Nat, CapitalLeft(c, r, x),
         VG!Augmentable(r), NEW p \in VG!ShortestPaths(r)
  PROVE  LET d == NarrowestOf(r, p) IN
         d \in Nat /\ CapitalLeft(c, VG!Pushed(r, p, d), x + d)
<1> DEFINE d == NarrowestOf(r, p)
           q == VG!Pushed(r, p, d)
           n == Len(p)
<1>1. r \in [VG!Arcs -> Int]
  BY CapitalVertices DEF CapitalLeft, IsResidual
<1>2. /\ VG!ArcsOf(p) = PathArcs(n, p) /\ VG!ArcsOf(p) \subseteq VG!Arcs
      /\ d \in Nat /\ \A a \in VG!ArcsOf(p) : d <= r[a]
  BY <1>1, NarrowestIs
<1>3. IsPath(VG!Vertices, RootEnd, DemandEnd, n, p)
  BY CapitalPath
<1> HIDE DEF d, n
<1> DEFINE P == PathArcs(n, p)
           A == Across(VG!Vertices, VG!Vertices)
<1>4. q = [a \in A |-> r[a] - (IF a \in P THEN d ELSE 0)
                             + (IF <<a[2], a[1]>> \in P THEN d ELSE 0)]
  BY <1>2, CapitalVertices DEF VG!Pushed, VG!Reversed
<1>5. c \in [A -> Int] /\ P \subseteq A /\ \A a \in P : d <= r[a]
  BY <1>2, CapitalVertices
<1>6. RootEnd \in VG!Vertices /\ DemandEnd \in VG!Vertices /\ RootEnd # DemandEnd
      /\ IsFiniteSet(VG!Vertices)
  BY CapitalVertices
<1> HIDE DEF q
<1>7. CapitalLeft(c, q, x + d)
  BY <1>2, <1>3, <1>4, <1>5, <1>6, PushSendsMore DEF CapitalLeft
<1> QED BY <1>2, <1>7 DEF q, d

----------------------------------------------------------------------------
(* What the roots can carry                                                *)

\* Demands and capacities of a graph are whole numbers of either sign; a cut is
\* bounded by those that are positive.
Bearing(g) == [i \in DOMAIN g.edges |-> EdgeCapacity(g, g.edges[i])]
PosBearing(g) == [i \in DOMAIN g.edges |-> VG!Positive(EdgeCapacity(g, g.edges[i]))]
PosDemands(g) == [n \in GraphNodes |-> VG!Positive(DemandOf(g, n))]
LinksOf(g, a) == {i \in DOMAIN g.edges : <<g.edges[i].from, g.edges[i].to>> = a}

LEMMA PositiveIs ==
  ASSUME NEW x \in Int
  PROVE  VG!Positive(x) \in Nat /\ VG!Positive(x) >= x /\ (x >= 0 => VG!Positive(x) = x)
         /\ (x <= 0 => VG!Positive(x) = 0)
BY DEF VG!Positive

\* A graph without malformed parts has finitely many nodes, edges and demands.
LEMMA GraphNumbers ==
  ASSUME NEW g, IsGraph(g)
  PROVE  /\ g.roots \subseteq GraphNodes /\ g.nodes \subseteq GraphNodes
         /\ Demanded(g) \subseteq GraphNodes
         /\ IsFiniteSet(Demanded(g)) /\ IsFiniteSet(DOMAIN g.demands)
         /\ DOMAIN g.demands \subseteq GraphNodes
         /\ IsFiniteSet(DOMAIN g.edges)
         /\ \A i \in DOMAIN g.edges : g.edges[i].from \in GraphNodes /\ g.edges[i].to \in GraphNodes
         /\ DeclaredDemand(g) = SumFunctionOnSet(g.demands, DOMAIN g.demands)
         /\ DeclaredDemand(g) \in Int
         /\ \A n \in DOMAIN g.demands : g.demands[n] \in Int
         /\ \A n : DemandOf(g, n) \in Int
         /\ Bearing(g) \in [DOMAIN g.edges -> Int]
         /\ PosBearing(g) \in [DOMAIN g.edges -> Nat] /\ PosDemands(g) \in [GraphNodes -> Nat]
<1>1. /\ g.roots \subseteq GraphNodes /\ g.nodes \subseteq GraphNodes
      /\ g.demand_nodes \in Seq(GraphNodes) /\ DOMAIN g.demands \subseteq GraphNodes
      /\ g.edges \in Seq([from : GraphNodes, to : GraphNodes, kind : EdgeKinds, capacity : Nat])
      /\ Range(g.demands) \subseteq Int
  BY DEF IsGraph
<1>2. Demanded(g) \subseteq GraphNodes
  <2>1. \A i \in DOMAIN g.demand_nodes : g.demand_nodes[i] \in GraphNodes
    BY <1>1
  <2> QED BY <2>1 DEF Demanded, Range
<1>3. IsFiniteSet(Demanded(g)) /\ IsFiniteSet(DOMAIN g.demands)
  BY <1>1, <1>2, GraphNodesAssumption, FS_Subset
<1>4. \A n \in DOMAIN g.demands : g.demands[n] \in Int
  BY <1>1 DEF Range
<1>5. DeclaredDemand(g) = SumFunctionOnSet(g.demands, DOMAIN g.demands)
  BY SumFunctionIs DEF DeclaredDemand
<1>6. DeclaredDemand(g) \in Int
  BY <1>3, <1>4, <1>5, SumType
<1>7. Len(g.edges) \in Nat /\ DOMAIN g.edges = 1..Len(g.edges)
      /\ \A i \in DOMAIN g.edges :
           g.edges[i] \in [from : GraphNodes, to : GraphNodes, kind : EdgeKinds, capacity : Nat]
  <2> DEFINE E == [from : GraphNodes, to : GraphNodes, kind : EdgeKinds, capacity : Nat]
  <2>1. g.edges \in Seq(E)
    BY <1>1
  <2> HIDE DEF E
  <2>2. Len(g.edges) \in Nat /\ DOMAIN g.edges = 1..Len(g.edges)
        /\ \A i \in DOMAIN g.edges : g.edges[i] \in E
    BY <2>1
  <2> QED BY <2>2 DEF E
<1>8. IsFiniteSet(DOMAIN g.edges)
  BY <1>7, FS_Interval
<1>9. \A i \in DOMAIN g.edges : g.edges[i].from \in GraphNodes /\ g.edges[i].to \in GraphNodes
                                /\ g.edges[i].capacity \in Nat
  BY <1>7
<1>10. \A n : DemandOf(g, n) \in Int
  BY <1>4 DEF DemandOf
<1>11. \A i \in DOMAIN g.edges : EdgeCapacity(g, g.edges[i]) \in Int
  BY <1>6, <1>9 DEF EdgeCapacity
<1>12. Bearing(g) \in [DOMAIN g.edges -> Int]
  BY <1>11 DEF Bearing
<1>13. PosBearing(g) \in [DOMAIN g.edges -> Nat]
  BY <1>11, PositiveIs DEF PosBearing
<1>14. PosDemands(g) \in [GraphNodes -> Nat]
  BY <1>10, PositiveIs DEF PosDemands
<1> QED BY <1>1, <1>2, <1>3, <1>4, <1>5, <1>6, <1>8, <1>9, <1>10, <1>12, <1>13, <1>14

\* What is demanded in a set of nodes, and what leaves it.
LEMMA DemandedAndCarried ==
  ASSUME NEW g, IsGraph(g), NEW S
  PROVE  /\ DemandsIn(g, S) = SumFunctionOnSet(PosDemands(g), Demanded(g) \cap S)
         /\ Carried(g, S) = SumFunctionOnSet(PosBearing(g), Outward(g, S))
         /\ IsFiniteSet(Demanded(g) \cap S) /\ Demanded(g) \cap S \subseteq GraphNodes
         /\ IsFiniteSet(Outward(g, S)) /\ Outward(g, S) \subseteq DOMAIN g.edges
         /\ DemandsIn(g, S) \in Nat /\ Carried(g, S) \in Nat
<1> DEFINE X == Demanded(g) \cap S
           Y == Outward(g, S)
           f == [i \in Y |-> VG!Positive(EdgeCapacity(g, g.edges[i]))]
<1>1. DemandsIn(g, S) = SumFunctionOnSet(PosDemands(g), X)
  BY DEF DemandsIn, PosDemands
<1>2. X \subseteq Demanded(g) /\ Y \subseteq DOMAIN g.edges
  BY DEF Outward
<1>3. IsFiniteSet(X) /\ X \subseteq GraphNodes /\ \A n \in X : PosDemands(g)[n] \in Nat
  BY <1>2, GraphNumbers, FS_Subset
<1>4. IsFiniteSet(Y) /\ \A i \in Y : PosBearing(g)[i] \in Nat
  BY <1>2, GraphNumbers, FS_Subset
<1>5. Carried(g, S) = SumFunctionOnSet(f, Y)
  BY SumFunctionIs DEF Carried
<1>6. \A i \in Y : PosBearing(g)[i] \in Int /\ f[i] = PosBearing(g)[i]
  BY <1>2, <1>4 DEF PosBearing
<1> HIDE DEF X, Y, f
<1>7. SumFunctionOnSet(f, Y) = SumFunctionOnSet(PosBearing(g), Y)
  BY <1>4, <1>6, SumOfEquals
<1>8. SumFunctionOnSet(PosDemands(g), X) \in Nat /\ SumFunctionOnSet(PosBearing(g), Y) \in Nat
  BY <1>3, <1>4, SumNotNegative
<1> QED BY <1>1, <1>2, <1>3, <1>4, <1>5, <1>7, <1>8 DEF X, Y

\* More than any cut can ask for.
Supply(g) == Max({SumFunction(Bearing(g)), DeclaredDemand(g), 1})

\* The capacities of the root cut are whole numbers.
LEMMA RootCutCapacitiesAre ==
  ASSUME NEW g, IsGraph(g)
  PROVE  /\ RootCutCapacities(g) \in [VG!Arcs -> Int]
         /\ \A a \in VG!Arcs : RootCutCapacities(g)[a] =
              IF a[1] = RootEnd THEN IF a[2] \in g.roots THEN Supply(g) ELSE 0
              ELSE IF a[2] = DemandEnd
                   THEN IF a[1] \in Demanded(g) THEN DemandOf(g, a[1]) ELSE 0
              ELSE SumFunctionOnSet(Bearing(g), LinksOf(g, a))
<1>1. RootCutCapacities(g) = [a \in VG!Arcs |->
              IF a[1] = RootEnd THEN IF a[2] \in g.roots THEN Supply(g) ELSE 0
              ELSE IF a[2] = DemandEnd
                   THEN IF a[1] \in Demanded(g) THEN DemandOf(g, a[1]) ELSE 0
              ELSE SumFunctionOnSet(Bearing(g), LinksOf(g, a))]
  BY DEF RootCutCapacities, Bearing, LinksOf, Supply, RootEnd, DemandEnd
<1>2. Supply(g) \in Int
  <2> DEFINE s == SumFunction(Bearing(g))
             d == DeclaredDemand(g)
             T == {s, d, 1}
  <2>1. s \in Int
    <3>1. SumFunction(Bearing(g)) = SumFunctionOnSet(Bearing(g), DOMAIN g.edges)
      BY SumFunctionIs DEF Bearing
    <3>2. \A i \in DOMAIN g.edges : Bearing(g)[i] \in Int
      BY GraphNumbers
    <3> QED BY <3>1, <3>2, GraphNumbers, SumType
  <2>2. d \in Int
    BY GraphNumbers
  <2> HIDE DEF s, d
  <2>3. T \subseteq Int /\ T # {}
    BY <2>1, <2>2
  <2>4. IsFiniteSet(T)
    <3> DEFINE x == {s}
               y == x \cup {d}
               z == y \cup {1}
    <3>1. IsFiniteSet(x)
      BY FS_Singleton
    <3>2. IsFiniteSet(y)
      BY <3>1, FS_AddElement
    <3>3. IsFiniteSet(z)
      BY <3>2, FS_AddElement
    <3>4. T = z
      OBVIOUS
    <3> HIDE DEF T, z
    <3> QED BY <3>3, <3>4
  <2>5. Supply(g) = Max(T)
    BY DEF Supply, s, d
  <2> HIDE DEF T
  <2> QED BY <2>3, <2>4, <2>5, Extremes
<1>3. ASSUME NEW a PROVE SumFunctionOnSet(Bearing(g), LinksOf(g, a)) \in Int
  <2>1. LinksOf(g, a) \subseteq DOMAIN g.edges
    BY DEF LinksOf
  <2>2. IsFiniteSet(LinksOf(g, a)) /\ \A i \in LinksOf(g, a) : Bearing(g)[i] \in Int
    BY <2>1, GraphNumbers, FS_Subset
  <2> QED BY <2>2, SumType
<1>4. \A n : (IF n \in Demanded(g) THEN DemandOf(g, n) ELSE 0) \in Int
  BY GraphNumbers
<1> QED BY <1>1, <1>2, <1>3, <1>4

\* Sums that are at most those of disjoint parts of a set are in all at most the sum
\* over the set.
LEMMA SumWithinParts ==
  ASSUME NEW f, NEW X, IsFiniteSet(X), \A x \in X : f[x] \in Nat,
         NEW A, IsFiniteSet(A), NEW B, NEW g,
         \A a \in A : B[a] \subseteq X /\ g[a] \in Int /\ g[a] <= SumFunctionOnSet(f, B[a]),
         \A a, b \in A : a # b => B[a] \cap B[b] = {}
  PROVE  SumFunctionOnSet(g, A) <= SumFunctionOnSet(f, X)
<1> DEFINE h == [a \in A |-> SumFunctionOnSet(f, B[a])]
<1>1. \A a \in A : IsFiniteSet(B[a]) /\ \A x \in B[a] : f[x] \in Nat
  BY FS_Subset
<1>2. \A a \in A : h[a] \in Int
  BY <1>1, SumNotNegative
<1>3. \A a \in A : g[a] \in Int /\ h[a] \in Int /\ g[a] <= h[a]
  BY <1>2
<1>4. \A a \in A : B[a] \subseteq X /\ h[a] = SumFunctionOnSet(f, B[a])
  OBVIOUS
<1> HIDE DEF h
<1>5. SumFunctionOnSet(g, A) <= SumFunctionOnSet(h, A)
  BY <1>3, SumOfLess
<1>6. SumFunctionOnSet(h, A) <= SumFunctionOnSet(f, X)
  BY <1>4, SumOfParts
<1>7. SumFunctionOnSet(g, A) \in Int /\ SumFunctionOnSet(h, A) \in Int
      /\ SumFunctionOnSet(f, X) \in Int
  BY <1>3, SumType
<1> QED BY <1>5, <1>6, <1>7

\* What a flow can send along an arc at most.
Bound(c) == [a \in VG!Arcs |-> VG!Positive(c[a])]

\* The links from one node to another carry at most what the positive ones carry.
LEMMA LinksCarry ==
  ASSUME NEW g, IsGraph(g), NEW a
  PROVE  VG!Positive(SumFunctionOnSet(Bearing(g), LinksOf(g, a)))
           <= SumFunctionOnSet(PosBearing(g), LinksOf(g, a))
<1> DEFINE L == LinksOf(g, a)
<1>1. L \subseteq DOMAIN g.edges
  BY DEF LinksOf
<1>2. IsFiniteSet(L)
  BY <1>1, GraphNumbers, FS_Subset
<1>3. \A i \in L : Bearing(g)[i] \in Int /\ PosBearing(g)[i] \in Nat
  BY <1>1, GraphNumbers
<1>4. \A i \in L : Bearing(g)[i] <= PosBearing(g)[i]
  <2>1. \A i \in L : PosBearing(g)[i] = VG!Positive(Bearing(g)[i])
    BY <1>1 DEF Bearing, PosBearing
  <2> QED BY <1>3, <2>1, PositiveIs
<1> HIDE DEF L
<1>5. SumFunctionOnSet(Bearing(g), L) <= SumFunctionOnSet(PosBearing(g), L)
  BY <1>2, <1>3, <1>4, SumOfLess
<1>6. SumFunctionOnSet(Bearing(g), L) \in Int /\ SumFunctionOnSet(PosBearing(g), L) \in Nat
  BY <1>2, <1>3, SumType, SumNotNegative
<1>7. VG!Positive(SumFunctionOnSet(Bearing(g), L)) <= SumFunctionOnSet(PosBearing(g), L)
  BY <1>5, <1>6 DEF VG!Positive
<1> QED BY <1>7 DEF L

\* A cut of the root cut carries the demands on the side of the roots and the
\* edges that leave it, and no more.
LEMMA RootCutIsBelow ==
  ASSUME NEW g, IsGraph(g), NEW S \in SUBSET GraphNodes, g.roots \subseteq S
  PROVE  LET T == S \cup {RootEnd} IN
         SumFunctionOnSet(Bound(RootCutCapacities(g)), Across(T, VG!Vertices \ T))
           <= DemandsIn(g, S) + Carried(g, S)
<1> DEFINE T == S \cup {RootEnd}
           c == RootCutCapacities(g)
           h == Bound(c)
           W == GraphNodes \ S
           X == Demanded(g) \cap S
           Y == Outward(g, S)
           A == Across(T, {DemandEnd})
           B == Across(T, W)
           P == [a \in A |-> {a[1]} \cap X]
           Q == [a \in B |-> IF a[1] = RootEnd THEN {} ELSE LinksOf(g, a)]
<1>1. T \in SUBSET VG!Vertices /\ W \in SUBSET VG!Vertices /\ {DemandEnd} \in SUBSET VG!Vertices
      /\ IsFiniteSet(VG!Vertices)
  BY CapitalVertices
<1>2. IsFiniteSet(A) /\ IsFiniteSet(B)
  BY <1>1, ArcsAreFinite
<1>3. Across(T, VG!Vertices \ T) = A \cup B /\ A \cap B = {}
  <2>1. VG!Vertices \ T = W \cup {DemandEnd} /\ DemandEnd \notin W
    BY CapitalVertices
  <2> QED BY <2>1 DEF Across
<1>4. A \subseteq VG!Arcs /\ B \subseteq VG!Arcs
  BY <1>1 DEF Across, VG!Arcs
<1>5. c \in [VG!Arcs -> Int]
  BY RootCutCapacitiesAre
<1>6. \A a \in VG!Arcs : h[a] = VG!Positive(c[a]) /\ h[a] \in Int
  BY <1>5, PositiveIs DEF Bound
<1>7. /\ IsFiniteSet(X) /\ (\A x \in X : PosDemands(g)[x] \in Nat)
      /\ IsFiniteSet(Y) /\ \A x \in Y : PosBearing(g)[x] \in Nat
  BY DemandedAndCarried, GraphNumbers
<1>8. ASSUME NEW a \in A PROVE P[a] \subseteq X /\ h[a] <= SumFunctionOnSet(PosDemands(g), P[a])
  <2>1. PICK u \in T : a = <<u, DemandEnd>>
    BY DEF Across
  <2>2. a[1] = u /\ a[2] = DemandEnd /\ P[a] = {u} \cap X
    BY <2>1
  <2>3. c[a] = IF u = RootEnd THEN IF DemandEnd \in g.roots THEN Supply(g) ELSE 0
               ELSE IF u \in Demanded(g) THEN DemandOf(g, u) ELSE 0
    BY <1>4, <2>2, RootCutCapacitiesAre
  <2>4. DemandEnd \notin g.roots /\ RootEnd \notin X
    BY CapitalVertices
  <2>5. h[a] = VG!Positive(c[a]) /\ h[a] \in Int
    BY <1>4, <1>6
  <2>6. CASE u \in X
    <3>1. P[a] = {u} /\ u # RootEnd /\ u \in Demanded(g) /\ u \in GraphNodes
      BY <2>2, <2>4, <2>6
    <3>2. h[a] = PosDemands(g)[u] /\ PosDemands(g)[u] \in Int
      BY <1>7, <2>3, <2>5, <2>6, <3>1 DEF PosDemands
    <3>3. IsFiniteSet({u}) /\ \A y \in {u} \ {u} : PosDemands(g)[y] = 0
      BY FS_Singleton
    <3>4. SumFunctionOnSet(PosDemands(g), {u}) = PosDemands(g)[u]
      BY <3>2, <3>3, SumAtPlace
    <3> QED BY <2>5, <2>6, <3>1, <3>2, <3>4
  <2>7. CASE u \notin X
    <3>1. P[a] = {}
      BY <2>2, <2>7
    <3>2. c[a] = 0
      BY <2>3, <2>4, <2>7
    <3>3. h[a] = 0
      BY <2>5, <3>2, PositiveIs
    <3> HIDE DEF P, h
    <3>4. SumFunctionOnSet(PosDemands(g), P[a]) = 0
      BY <3>1, SumOfNothing
    <3> QED BY <3>1, <3>3, <3>4
  <2> QED BY <2>6, <2>7
<1>9. \A a, b \in A : a # b => P[a] \cap P[b] = {}
  BY DEF Across
<1>10. ASSUME NEW a \in B PROVE Q[a] \subseteq Y /\ h[a] <= SumFunctionOnSet(PosBearing(g), Q[a])
  <2>1. PICK u \in T, v \in W : a = <<u, v>>
    BY DEF Across
  <2>2. a[1] = u /\ a[2] = v /\ v # DemandEnd /\ v \notin g.roots /\ v \notin S
    BY <2>1, CapitalVertices
  <2>3. c[a] = IF u = RootEnd THEN 0 ELSE SumFunctionOnSet(Bearing(g), LinksOf(g, a))
    BY <1>4, <2>2, RootCutCapacitiesAre
  <2>4. h[a] = VG!Positive(c[a])
    BY <1>4, <1>6
  <2>5. CASE u = RootEnd
    <3>1. Q[a] = {} /\ c[a] = 0
      BY <2>2, <2>3, <2>5
    <3>2. h[a] = 0
      BY <2>4, <3>1, PositiveIs
    <3> HIDE DEF Q, h
    <3>3. SumFunctionOnSet(PosBearing(g), Q[a]) = 0
      BY <3>1, SumOfNothing
    <3> QED BY <3>1, <3>2, <3>3
  <2>6. CASE u # RootEnd
    <3>1. Q[a] = LinksOf(g, a) /\ u \in S
      BY <2>2, <2>6
    <3>2. LinksOf(g, a) \subseteq Y
      BY <2>1, <2>2, <3>1 DEF LinksOf, Outward
    <3>3. h[a] = VG!Positive(SumFunctionOnSet(Bearing(g), LinksOf(g, a)))
      BY <2>3, <2>4, <2>6
    <3> HIDE DEF h, Q
    <3> QED BY <3>1, <3>2, <3>3, LinksCarry
  <2> QED BY <2>5, <2>6
<1>11. \A a, b \in B : a # b => Q[a] \cap Q[b] = {}
  BY DEF LinksOf
<1>12. \A a \in A \cup B : h[a] \in Int
  BY <1>4, <1>6
<1>13. DemandsIn(g, S) = SumFunctionOnSet(PosDemands(g), X)
       /\ Carried(g, S) = SumFunctionOnSet(PosBearing(g), Y)
       /\ DemandsIn(g, S) \in Nat /\ Carried(g, S) \in Nat
  BY DemandedAndCarried
<1> HIDE DEF A, B, P, Q, X, Y, h
<1>14. SumFunctionOnSet(h, A) <= SumFunctionOnSet(PosDemands(g), X)
  <2>1. \A a \in A : P[a] \subseteq X /\ h[a] \in Int /\ h[a] <= SumFunctionOnSet(PosDemands(g), P[a])
    BY <1>8, <1>12
  <2> QED BY <1>2, <1>7, <1>9, <2>1, SumWithinParts
<1>15. SumFunctionOnSet(h, B) <= SumFunctionOnSet(PosBearing(g), Y)
  <2>1. \A a \in B : Q[a] \subseteq Y /\ h[a] \in Int /\ h[a] <= SumFunctionOnSet(PosBearing(g), Q[a])
    BY <1>10, <1>12
  <2> QED BY <1>2, <1>7, <1>11, <2>1, SumWithinParts
<1>16. SumFunctionOnSet(h, A \cup B) = SumFunctionOnSet(h, A) + SumFunctionOnSet(h, B)
  BY <1>2, <1>3, <1>12, SumOfUnion
<1>17. SumFunctionOnSet(h, A) \in Int /\ SumFunctionOnSet(h, B) \in Int
  BY <1>2, <1>12, SumType
<1>18. SumFunctionOnSet(h, A \cup B) <= DemandsIn(g, S) + Carried(g, S)
  BY <1>13, <1>14, <1>15, <1>16, <1>17
<1> QED BY <1>3, <1>18 DEF h

\* The capacities of the root cut: without roots or demand nodes there are none.
CutCaps(g) == IF g.roots = {} \/ Demanded(g) = {} THEN NoResidual ELSE RootCutCapacities(g)

\* Also when there is nothing to serve.
LEMMA CutCapsAre ==
  ASSUME NEW g, IsGraph(g)
  PROVE  CutCaps(g) \in [VG!Arcs -> Int]
BY RootCutCapacitiesAre DEF CutCaps, NoResidual

\* What flows from the roots is demanded on their side of a cut or leaves it.
LEMMA RootsReachAcross ==
  ASSUME NEW g, IsGraph(g), NEW r, NEW x \in Nat, CapitalLeft(CutCaps(g), r, x),
         NEW S \in SUBSET GraphNodes, g.roots \subseteq S
  PROVE  x <= DemandsIn(g, S) + Carried(g, S)
<1> DEFINE T == S \cup {RootEnd}
           A == Across(T, VG!Vertices \ T)
           c == CutCaps(g)
           h == Bound(c)
           most == DemandsIn(g, S) + Carried(g, S)
<1>1. c \in [VG!Arcs -> Int]
  BY CutCapsAre
<1>2. IsCut(VG!Vertices, RootEnd, DemandEnd, T)
  BY CapitalVertices DEF IsCut
<1>3. \A a \in VG!Arcs : h[a] = VG!Positive(c[a]) /\ h[a] \in Nat /\ h[a] >= c[a]
  BY <1>1, PositiveIs DEF Bound
<1>4. x <= SumFunctionOnSet(h, A)
  <2>1. c \in [Across(VG!Vertices, VG!Vertices) -> Int] /\ IsFiniteSet(VG!Vertices)
    BY <1>1, CapitalVertices
  <2>2. IsResidual(VG!Vertices, RootEnd, DemandEnd, c, r, x)
    BY DEF CapitalLeft
  <2>3. \A u, v \in VG!Vertices :
          h[<<u, v>>] \in Int /\ h[<<u, v>>] >= 0 /\ h[<<u, v>>] >= c[<<u, v>>]
    <3>1. \A u, v \in VG!Vertices : <<u, v>> \in VG!Arcs
      BY DEF VG!Arcs
    <3> HIDE DEF h, c
    <3>2. \A a \in VG!Arcs : h[a] \in Int /\ h[a] >= 0 /\ h[a] >= c[a]
      BY <1>3
    <3> QED BY <3>1, <3>2, Zenon
  <2> HIDE DEF c, T, h
  <2> QED BY <1>2, <2>1, <2>2, <2>3, ResidualBelowPositive
<1>5. IsFiniteSet(A) /\ A \subseteq VG!Arcs
  <2>1. T \in SUBSET VG!Vertices /\ VG!Vertices \ T \in SUBSET VG!Vertices
    BY <1>2 DEF IsCut
  <2>2. IsFiniteSet(A)
    BY <2>1, CapitalVertices, ArcsAreFinite
  <2> QED BY <2>1, <2>2 DEF Across, VG!Arcs
<1>6. most \in Nat
  <2>1. DemandsIn(g, S) \in Nat /\ Carried(g, S) \in Nat
    BY DemandedAndCarried
  <2> QED BY <2>1
<1>7. CASE g.roots = {} \/ Demanded(g) = {}
  <2>1. \A a \in VG!Arcs : c[a] = 0
    BY <1>7 DEF CutCaps, NoResidual
  <2> HIDE DEF most, A, c, h
  <2>2. \A a \in A : h[a] = 0
    BY <1>3, <1>5, <2>1, PositiveIs
  <2>3. SumFunctionOnSet(h, A) = 0
    BY <1>5, <2>2, SumOfZeros
  <2>4. x <= most
    BY <1>4, <1>6, <2>3
  <2> QED BY <2>4 DEF most
<1>8. CASE ~(g.roots = {} \/ Demanded(g) = {})
  <2>1. c = RootCutCapacities(g)
    BY <1>8 DEF CutCaps
  <2>2. SumFunctionOnSet(Bound(RootCutCapacities(g)), A) <= most
    BY RootCutIsBelow
  <2> HIDE DEF most, A, c
  <2>3. SumFunctionOnSet(h, A) <= most
    BY <2>1, <2>2
  <2> HIDE DEF h
  <2>4. \A a \in A : h[a] \in Nat
    BY <1>3, <1>5
  <2>5. SumFunctionOnSet(h, A) \in Nat
    BY <1>5, <2>4, SumNotNegative
  <2>6. x <= most
    BY <1>4, <1>6, <2>3, <2>5
  <2> QED BY <2>6 DEF most
<1> QED BY <1>7, <1>8

\* Where nothing leaves a set that holds the roots, they reach nothing else.
LEMMA ReachableStays ==
  ASSUME NEW g, IsGraph(g), NEW S \in SUBSET GraphNodes, g.roots \subseteq S, Outward(g, S) = {}
  PROVE  RootReachable(g) \subseteq S
<1> DEFINE N == Cardinality(GraphNodes)
           Onward(T) == T \cup {g.edges[i].to : i \in {j \in DOMAIN g.edges : g.edges[j].from \in T}}
           within == CHOOSE f : f = [k \in 0..N |-> IF k = 0 THEN g.roots ELSE Onward(f[k - 1])]
           D == SUBSET GraphNodes
           F == [T \in D |-> Onward(T)]
<1>1. RootReachable(g) = g.nodes \cap within[N]
  BY DEF RootReachable
<1>2. N \in Nat
  BY GraphNodesAssumption, FS_CardinalityType
<1>3. \A T \in D : Onward(T) \in D
  BY GraphNumbers
<1>4. g.roots \in D
  BY GraphNumbers
<1>5. \E f : f = [k \in 0..N |-> IF k = 0 THEN g.roots ELSE Onward(f[k - 1])]
  <2> HIDE DEF N, D, Onward
  <2>1. \A T \in D : F[T] \in D
    BY <1>3
  <2>2. PICK f : Steps(N, D, g.roots, F, f)
    <3> HIDE DEF F
    <3> QED BY <1>2, <1>4, <2>1, StepsExist
  <2>3. ASSUME NEW k \in 0..N PROVE f[k] = IF k = 0 THEN g.roots ELSE Onward(f[k - 1])
    <3>1. CASE k = 0
      BY <2>2, <3>1 DEF Steps
    <3>2. CASE k # 0
      <4>1. k \in 1..N /\ k - 1 \in 0..N
        BY <1>2, <3>2
      <4>2. f[k] = F[f[k - 1]] /\ f[k - 1] \in D
        BY <2>2, <4>1 DEF Steps
      <4>3. F[f[k - 1]] = Onward(f[k - 1])
        BY <4>2
      <4> QED BY <3>2, <4>2, <4>3
    <3> QED BY <3>1, <3>2
  <2>4. f \in [0..N -> D]
    BY <2>2 DEF Steps
  <2> HIDE DEF F
  <2>5. f = [k \in 0..N |-> IF k = 0 THEN g.roots ELSE Onward(f[k - 1])]
    BY <2>3, <2>4
  <2> QED BY <2>5
<1>6. within = [k \in 0..N |-> IF k = 0 THEN g.roots ELSE Onward(within[k - 1])]
  <2> HIDE DEF N, Onward
  <2> QED BY <1>5
<1>7. \A T \in SUBSET S : Onward(T) \subseteq S
  BY DEF Outward
<1> HIDE DEF within, Onward, N
<1> DEFINE Good == {k \in Nat : k <= N => within[k] \subseteq S}
<1>8. 0 \in Good
  BY <1>2, <1>6
<1>9. ASSUME NEW k \in Nat, k \in Good PROVE k + 1 \in Good
  <2> SUFFICES ASSUME k + 1 <= N PROVE within[k + 1] \subseteq S
    OBVIOUS
  <2>1. within[k] \subseteq S
    BY <1>2, <1>9
  <2>2. k + 1 \in 0..N /\ k + 1 # 0 /\ (k + 1) - 1 = k
    BY <1>2
  <2>3. within[k + 1] = Onward(within[k])
    BY <1>6, <2>2
  <2> QED BY <1>7, <2>1, <2>3
<1> HIDE DEF Good
<1>10. \A k \in Nat : k \in Good
  BY <1>8, <1>9, NumberInduction
<1>11. within[N] \subseteq S
  BY <1>2, <1>10 DEF Good
<1> QED BY <1>1, <1>11

\* If no demand is negative and the positive demands of the demand nodes are as much
\* as is declared, no other node has a demand, and what is declared is what the
\* demand nodes demand inside and outside of any set of nodes.
LEMMA DemandsAreDeclared ==
  ASSUME NEW g, IsGraph(g), \A n \in DOMAIN g.demands : g.demands[n] >= 0
  PROVE  /\ \A S \in SUBSET GraphNodes :
              DemandsIn(g, S) + DemandsIn(g, GraphNodes \ S) <= DeclaredDemand(g)
         /\ DeclaredDemand(g) <= DemandsIn(g, GraphNodes) =>
              {n \in DOMAIN g.demands : g.demands[n] > 0} \subseteq Demanded(g)
<1> DEFINE f == g.demands
           d == PosDemands(g)
           M == Demanded(g)
           K == DOMAIN g.demands
           X == M \cap K
           Y == K \ M
           Z == M \ K
<1>1. /\ IsFiniteSet(M) /\ IsFiniteSet(K) /\ M \subseteq GraphNodes /\ K \subseteq GraphNodes
      /\ DeclaredDemand(g) = SumFunctionOnSet(f, K) /\ d \in [GraphNodes -> Nat]
  BY GraphNumbers
<1>2. \A n \in K : f[n] \in Nat
  BY GraphNumbers
<1>3. (\A n \in X : d[n] = f[n]) /\ \A n \in Z : d[n] = 0
  <2>1. \A n \in X : d[n] = VG!Positive(f[n])
    BY <1>1 DEF PosDemands, DemandOf
  <2>2. \A n \in Z : d[n] = VG!Positive(0)
    BY <1>1 DEF PosDemands, DemandOf
  <2>3. \A n \in X : n \in K
    OBVIOUS
  <2> HIDE DEF f, d, X, Z, K, M
  <2> QED BY <1>2, <2>1, <2>2, <2>3, PositiveIs
<1>4. \A S : DemandsIn(g, S) = SumFunctionOnSet(d, M \cap S)
  BY DemandedAndCarried
<1> HIDE DEF f, d, M, K
<1>5. IsFiniteSet(X) /\ IsFiniteSet(Y) /\ IsFiniteSet(Z)
  BY <1>1, FS_Subset
<1>6. K = X \cup Y /\ X \cap Y = {} /\ M = X \cup Z /\ X \cap Z = {} /\ M \cap GraphNodes = M
  BY <1>1
<1>7. (\A n \in X \cup Y : f[n] \in Int) /\ \A n \in X \cup Z : d[n] \in Int
  BY <1>1, <1>2, <1>6
<1>8. \A n \in Y : f[n] \in Nat
  BY <1>2
<1>9. \A n \in X : f[n] \in Nat /\ f[n] \in Int /\ d[n] = f[n]
  BY <1>2, <1>3
<1> HIDE DEF X, Y, Z
<1>10. SumFunctionOnSet(f, X \cup Y) = SumFunctionOnSet(f, X) + SumFunctionOnSet(f, Y)
  BY <1>5, <1>6, <1>7, SumOfUnion
<1>11. SumFunctionOnSet(d, X \cup Z) = SumFunctionOnSet(d, X) + SumFunctionOnSet(d, Z)
  BY <1>5, <1>6, <1>7, SumOfUnion
<1>12. SumFunctionOnSet(d, Z) = 0
  BY <1>3, <1>5, SumOfZeros
<1>13. SumFunctionOnSet(d, X) = SumFunctionOnSet(f, X)
  BY <1>5, <1>9, SumOfEquals
<1>14. SumFunctionOnSet(f, X) \in Nat /\ SumFunctionOnSet(f, Y) \in Nat
  BY <1>5, <1>8, <1>9, SumNotNegative
<1>15. SumFunctionOnSet(d, M) = SumFunctionOnSet(f, X)
       /\ SumFunctionOnSet(f, K) = SumFunctionOnSet(f, X) + SumFunctionOnSet(f, Y)
  BY <1>6, <1>10, <1>11, <1>12, <1>13, <1>14
<1>16. ASSUME NEW S \in SUBSET GraphNodes
       PROVE  DemandsIn(g, S) + DemandsIn(g, GraphNodes \ S) <= DeclaredDemand(g)
  <2> DEFINE U == M \cap S
             V == M \cap (GraphNodes \ S)
  <2>1. IsFiniteSet(U) /\ IsFiniteSet(V)
    BY <1>1, FS_Subset
  <2>2. U \cap V = {} /\ U \cup V = M
    BY <1>1
  <2>3. \A n \in U \cup V : d[n] \in Int
    BY <1>1
  <2> HIDE DEF U, V
  <2>4. SumFunctionOnSet(d, U \cup V) = SumFunctionOnSet(d, U) + SumFunctionOnSet(d, V)
    BY <2>1, <2>2, <2>3, SumOfUnion
  <2>5. DemandsIn(g, S) = SumFunctionOnSet(d, U) /\ DemandsIn(g, GraphNodes \ S) = SumFunctionOnSet(d, V)
    BY <1>4 DEF U, V
  <2>6. DemandsIn(g, S) + DemandsIn(g, GraphNodes \ S) = SumFunctionOnSet(f, X)
    BY <1>15, <2>2, <2>4, <2>5
  <2> QED BY <1>1, <1>14, <1>15, <2>6
<1>17. ASSUME DeclaredDemand(g) <= DemandsIn(g, GraphNodes), NEW n \in K, f[n] > 0 PROVE n \in M
  <2>1. DemandsIn(g, GraphNodes) = SumFunctionOnSet(d, M)
    BY <1>4, <1>6
  <2>2. SumFunctionOnSet(f, Y) = 0
    BY <1>1, <1>14, <1>15, <1>17, <2>1
  <2>3. ASSUME n \in Y PROVE FALSE
    <3>1. SumFunctionOnSet(f, Y) = f[n] + SumFunctionOnSet(f, Y \ {n})
      BY <1>5, <1>8, <2>3, SumElement
    <3>2. SumFunctionOnSet(f, Y \ {n}) \in Nat
      BY <1>5, <1>8, FS_Subset, SumNotNegative
    <3>3. f[n] \in Nat
      BY <1>2
    <3> QED BY <1>17, <2>2, <3>1, <3>2, <3>3
  <2> QED BY <2>3 DEF Y
<1> QED BY <1>16, <1>17 DEF f, M, K

\* A root cut that carries all that is declared, of a graph without blocked nodes,
\* is what RootedCapital says.
LEMMA CutServesDemands ==
  ASSUME NEW g, IsGraph(g), NEW r, NEW x \in Nat, CapitalLeft(CutCaps(g), r, x),
         BlockedNodes(g) = {}, DeclaredDemand(g) <= x
  PROVE  /\ \A S \in SUBSET GraphNodes : g.roots \subseteq S =>
              /\ Outward(g, S) = {} => Demanded(g) \subseteq S
              /\ DeclaredDemand(g) <= DemandsIn(g, S) + Carried(g, S)
         /\ (\A n \in DOMAIN g.demands : g.demands[n] >= 0) =>
              /\ {n \in DOMAIN g.demands : g.demands[n] > 0} \subseteq Demanded(g)
              /\ Served(g)
<1>1. DeclaredDemand(g) \in Int /\ g.roots \subseteq GraphNodes
  BY GraphNumbers
<1>2. \A S : DemandsIn(g, S) \in Nat /\ Carried(g, S) \in Nat
  BY DemandedAndCarried
<1>3. ASSUME NEW S \in SUBSET GraphNodes, g.roots \subseteq S, Outward(g, S) = {}
      PROVE  Demanded(g) \subseteq S
  BY <1>3, ReachableStays DEF BlockedNodes
<1>4. ASSUME NEW S \in SUBSET GraphNodes, g.roots \subseteq S
      PROVE  DeclaredDemand(g) <= DemandsIn(g, S) + Carried(g, S)
  <2>1. x <= DemandsIn(g, S) + Carried(g, S)
    BY <1>4, RootsReachAcross
  <2> QED BY <1>1, <1>2, <2>1
<1>5. ASSUME \A n \in DOMAIN g.demands : g.demands[n] >= 0
      PROVE  /\ {n \in DOMAIN g.demands : g.demands[n] > 0} \subseteq Demanded(g)
             /\ Served(g)
  <2>1. DeclaredDemand(g) <= DemandsIn(g, GraphNodes)
    <3>1. Outward(g, GraphNodes) = {}
      BY GraphNumbers DEF Outward
    <3>2. Carried(g, GraphNodes) = 0
      <4>1. Carried(g, GraphNodes) = SumFunctionOnSet(PosBearing(g), Outward(g, GraphNodes))
        BY DemandedAndCarried
      <4> QED BY <3>1, <4>1, SumOfNothing
    <3>3. DeclaredDemand(g) <= DemandsIn(g, GraphNodes) + Carried(g, GraphNodes)
      BY <1>1, <1>4
    <3> QED BY <1>1, <1>2, <3>2, <3>3
  <2>2. {n \in DOMAIN g.demands : g.demands[n] > 0} \subseteq Demanded(g)
    BY <1>5, <2>1, DemandsAreDeclared
  <2>3. ASSUME NEW S \in SUBSET GraphNodes, g.roots \subseteq S
        PROVE  DemandsIn(g, GraphNodes \ S) <= Carried(g, S)
    <3>1. DemandsIn(g, S) + DemandsIn(g, GraphNodes \ S) <= DeclaredDemand(g)
      BY <1>5, DemandsAreDeclared
    <3>2. DeclaredDemand(g) <= DemandsIn(g, S) + Carried(g, S)
      BY <1>4, <2>3
    <3> QED BY <1>1, <1>2, <3>1, <3>2
  <2> QED BY <2>2, <2>3 DEF Served
<1> QED BY <1>3, <1>4, <1>5

\* The first graph of the evidence was read without an error.
GraphIsRead ==
  LET S == OfKind("validation_dependency_graph") IN S # {} /\ evidence[First(S)].valid

\* The graph that is judged was read without an error.
LEMMA GraphType ==
  ASSUME bundle \in Bundles, GraphIsRead
  PROVE  IsGraph(Graph)
<1> DEFINE k == "validation_dependency_graph"
           i == First(OfKind(k))
<1>1. i \in OfKind(k) /\ evidence[i].valid
  BY OfKindPlaces, KindPlaces DEF GraphIsRead
<1>2. i \in DOMAIN evidence /\ evidence[i].kind = k
  BY <1>1 DEF OfKind
<1>3. PayloadShape(k, evidence[i].payload)
  BY <1>1, <1>2, EvidenceType
<1>4. IsGraph(evidence[i].payload)
  BY <1>3 DEF PayloadShape
<1> QED BY <1>4 DEF Graph, PayloadOf

\* The residuals are those of a flow from the roots of cut units, and what an
\* unblocked report has judged is in order.
CapitalInv ==
  /\ residual \in [VG!Arcs -> Int] /\ cut \in Nat
  /\ pc = "cut" => GraphIsRead
  /\ GraphIsRead /\ Passed("capital") => CapitalLeft(CutCaps(Graph), residual, cut)
  /\ Unblocked /\ Passed("cut") =>
       /\ GraphIsRead /\ BlockedNodes(Graph) = {} /\ DeclaredDemand(Graph) <= cut

\* What the capital is about depends on the bundle alone.
LEMMA GraphStays ==
  ASSUME bundle' = bundle
  PROVE  Graph' = Graph /\ GraphIsRead' = GraphIsRead
<1>1. evidence' = evidence
  BY BundleStays
<1>2. \A k : OfKind(k)' = OfKind(k)
  BY BundleStays
<1> QED BY <1>1, <1>2 DEF Graph, PayloadOf, GraphIsRead

\* The lesser of two numbers.
LEMMA LeastOfTwo ==
  ASSUME NEW x \in Int, NEW y \in Int
  PROVE  VG!Least({x, y}) \in Int /\ VG!Least({x, y}) <= y
<1>1. \E z \in {x, y} : \A w \in {x, y} : z <= w
  <2>1. CASE x <= y
    BY <2>1
  <2>2. CASE ~(x <= y)
    BY <2>2
  <2> QED BY <2>1, <2>2
<1>2. VG!Least({x, y}) \in {x, y} /\ \A w \in {x, y} : VG!Least({x, y}) <= w
  BY <1>1 DEF VG!Least
<1> QED BY <1>2

\* What the demand nodes demand in all is a whole number.
LEMMA TotalDemandType ==
  ASSUME NEW g, IsGraph(g)
  PROVE  TotalDemand(g) \in Int
<1> DEFINE f == [i \in DOMAIN g.demand_nodes |-> DemandOf(g, g.demand_nodes[i])]
<1>1. Len(g.demand_nodes) \in Nat /\ DOMAIN g.demand_nodes = 1..Len(g.demand_nodes)
  BY DEF IsGraph
<1>2. IsFiniteSet(DOMAIN g.demand_nodes)
  BY <1>1, FS_Interval
<1>3. DOMAIN f = DOMAIN g.demand_nodes /\ \A i \in DOMAIN g.demand_nodes : f[i] \in Int
  BY GraphNumbers
<1>4. TotalDemand(g) = SumFunction(f)
  BY DEF TotalDemand
<1> HIDE DEF f
<1>5. SumFunctionOnSet(f, DOMAIN g.demand_nodes) \in Int
  BY <1>2, <1>3, SumType
<1> QED BY <1>3, <1>4, <1>5, SumFunctionIs

\* Only two steps touch the root cut.
LEMMA CapitalSteps ==
  ASSUME Going
  PROVE  StartCapital \/ AugmentCapital \/ UNCHANGED capital
<1>1. CASE CheckClaim \/ CheckKinds \/ ParseContractsAndWitnesses \/ CheckSplit \/ CheckTcb
           \/ BindContracts \/ CheckUncertainty \/ CheckCapacities \/ CheckQueue \/ CheckRelease
  BY <1>1 DEF CheckClaim, CheckKinds, ParseContractsAndWitnesses, CheckSplit, CheckTcb,
              BindContracts, CheckUncertainty, CheckCapacities, CheckQueue, CheckRelease
<1>2. CASE CheckAccounts \/ CheckStatistics \/ BindReportTerms \/ CheckBudget \/ JudgeCapital
           \/ Report \/ SolverFails \/ Tick \/ UNCHANGED vars
  BY <1>2 DEF CheckAccounts, CheckStatistics, BindReportTerms, CheckBudget, JudgeCapital,
              Report, SolverFails, Tick, vars
<1> QED BY <1>1, <1>2 DEF Going, Validate

\* The search for the root cut starts with nothing sent.
LEMMA StartKept ==
  ASSUME Clocks, CapitalInv, Going, StartCapital
  PROVE  CapitalInv'
<1>1. bundle' = bundle /\ bundle \in Bundles
  BY StepsInOrder DEF Clocks
<1>2. Graph' = Graph /\ GraphIsRead' = GraphIsRead
  BY <1>1, GraphStays
<1>3. CASE GraphIsRead
  <2>1. Go("capital", "cut", {}) /\ StartCut(Graph)
    BY <1>3 DEF StartCapital, GraphIsRead
  <2>2. pc' = "cut" /\ cut' = 0 /\ residual' = CutCaps(Graph)
    BY <2>1 DEF Go, StartCut, CutCaps
  <2>3. CutCaps(Graph) \in [VG!Arcs -> Int]
    BY <1>1, <1>3, GraphType, CutCapsAre
  <2>4. CapitalLeft(CutCaps(Graph), CutCaps(Graph), 0)
    <3>1. RootEnd \in VG!Vertices /\ IsFiniteSet(VG!Vertices)
          /\ CutCaps(Graph) \in [Across(VG!Vertices, VG!Vertices) -> Int]
      BY <2>3, CapitalVertices
    <3> QED BY <3>1, NothingFlows DEF CapitalLeft
  <2>5. CapitalLeft(CutCaps(Graph), residual, cut)'
    <3>1. CapitalLeft(CutCaps(Graph), residual', cut')
      BY <2>2, <2>4
    <3> QED BY <1>2, <3>1
  <2>6. residual' \in [VG!Arcs -> Int] /\ cut' \in Nat
    BY <2>2, <2>3
  <2>7. ~Passed("cut")'
    BY <2>2 DEF Passed, Stage
  <2> QED BY <1>2, <1>3, <2>5, <2>6, <2>7 DEF CapitalInv
<1>4. CASE ~GraphIsRead
  <2>1. Go("capital", "report", {"no validation dependency graph"}) /\ UNCHANGED capital
    BY <1>4 DEF StartCapital, GraphIsRead
  <2>2. pc' = "report" /\ ~Unblocked' /\ residual' = residual /\ cut' = cut
    BY <2>1 DEF Go, Unblocked, capital
  <2> QED BY <1>2, <1>4, <2>2 DEF CapitalInv
<1> QED BY <1>3, <1>4

\* An augmentation sends more along a path from the roots.
LEMMA AugmentKept ==
  ASSUME Clocks, CapitalInv, Going, AugmentCapital
  PROVE  CapitalInv'
<1>1. bundle' = bundle /\ bundle \in Bundles /\ pc = "cut" /\ pc' = pc /\ limitations' = limitations
  BY StepsInOrder DEF Clocks, AugmentCapital, full
<1>2. Graph' = Graph /\ GraphIsRead' = GraphIsRead
  BY <1>1, GraphStays
<1>3. Passed("capital") /\ ~Passed("cut") /\ ~Passed("cut")'
  BY <1>1 DEF Passed, Stage
<1>4. GraphIsRead /\ CapitalLeft(CutCaps(Graph), residual, cut) /\ cut \in Nat
  BY <1>1, <1>3 DEF CapitalInv
<1>5. CutCaps(Graph) \in [VG!Arcs -> Int]
  BY <1>1, <1>4, GraphType, CutCapsAre
<1>6. /\ VG!Augmentable(residual)
      /\ \E p \in VG!ShortestPaths(residual) :
           /\ residual' = VG!Pushed(residual, p, NarrowestOf(residual, p))
           /\ cut' = cut + NarrowestOf(residual, p)
  BY DEF AugmentCapital, AugmentCut
<1>7. PICK p \in VG!ShortestPaths(residual) :
           /\ residual' = VG!Pushed(residual, p, NarrowestOf(residual, p))
           /\ cut' = cut + NarrowestOf(residual, p)
  BY <1>6
<1>8. NarrowestOf(residual, p) \in Nat
      /\ CapitalLeft(CutCaps(Graph), VG!Pushed(residual, p, NarrowestOf(residual, p)),
                     cut + NarrowestOf(residual, p))
  BY <1>4, <1>5, <1>6, CapitalPush
<1>9. CapitalLeft(CutCaps(Graph), residual', cut')
  BY <1>7, <1>8
<1>10. CapitalLeft(CutCaps(Graph), residual, cut)'
  BY <1>2, <1>9
<1>11. residual' \in [VG!Arcs -> Int]
  BY <1>9, CapitalVertices DEF CapitalLeft, IsResidual
<1>12. cut' \in Nat
  BY <1>4, <1>7, <1>8
<1> QED BY <1>2, <1>3, <1>4, <1>10, <1>11, <1>12 DEF CapitalInv

\* The other steps do not touch the root cut; one judges it.
LEMMA JudgedKept ==
  ASSUME Clocks, CapitalInv, Going, ~StartCapital, UNCHANGED capital
  PROVE  CapitalInv'
<1>1. /\ bundle' = bundle /\ bundle \in Bundles /\ limitations \subseteq limitations'
      /\ \A s \in DOMAIN Stage \ {"cut"} : Passed(s)' => Passed(s) \/ pc = s
      /\ StepFrom /\ pc \in DOMAIN Stage /\ pc' \in DOMAIN Stage
  BY StepsInOrder DEF Clocks
<1>2. Graph' = Graph /\ GraphIsRead' = GraphIsRead /\ residual' = residual /\ cut' = cut
  BY <1>1, GraphStays DEF capital
<1>3. Passed("capital")' => Passed("capital")
  <2>1. ASSUME pc = "capital" PROVE pc' = pc
    BY <1>1, <2>1 DEF StepFrom, Quietly
  <2>2. pc = "capital" => ~Passed("capital")'
    BY <2>1 DEF Passed, Stage
  <2>3. "capital" \in DOMAIN Stage \ {"cut"}
    BY DEF Stage
  <2> QED BY <1>1, <2>2, <2>3
<1>4. /\ Passed("capital") => pc = "cut" \/ Passed("cut")
      /\ pc' = "cut" => Passed("capital")'
      /\ Passed("cut")' => Passed("capital")' /\ pc' # "cut"
      /\ Passed("cut") => pc # "cut" /\ pc # "capital"
  BY <1>1 DEF Passed, Stage
<1>5. pc' = "cut" => GraphIsRead
  <2> SUFFICES ASSUME pc' = "cut" PROVE pc = "cut"
    BY DEF CapitalInv
  <2>1. Passed("capital")
    BY <1>3, <1>4
  <2>2. Passed("cut") => Passed("cut")'
    BY StepsInOrder DEF Clocks, Stage
  <2> QED BY <1>4, <2>1, <2>2
<1>6. GraphIsRead /\ Passed("capital")' => CapitalLeft(CutCaps(Graph), residual, cut)
  BY <1>3 DEF CapitalInv
<1>7. ASSUME Unblocked', Passed("cut")'
      PROVE  GraphIsRead /\ BlockedNodes(Graph) = {} /\ DeclaredDemand(Graph) <= cut
  <2>1. Unblocked
    BY <1>1, <1>7 DEF Unblocked
  <2>2. CASE Passed("cut")
    BY <2>1, <2>2 DEF CapitalInv
  <2>3. CASE ~Passed("cut")
    <3>1. pc = "cut" /\ pc' # pc
      BY <1>3, <1>4, <1>7, <2>3
    <3>2. JudgeCapital
      BY <1>1, <3>1 DEF StepFrom, Quietly
    <3>3. When(BlockedNodes(Graph) # {}, "rootless validation nodes") \cup
          When(SupportedDemand(Graph) < DeclaredDemand(Graph), "root cut below demand") = {}
      BY <1>7, <3>2, NoReason DEF JudgeCapital
    <3>4. /\ When(BlockedNodes(Graph) # {}, "rootless validation nodes") = {}
          /\ When(SupportedDemand(Graph) < DeclaredDemand(Graph), "root cut below demand") = {}
      BY <3>3
    <3>5. BlockedNodes(Graph) = {} /\ ~(SupportedDemand(Graph) < DeclaredDemand(Graph))
      BY <3>4, WhenHolds
    <3>6. GraphIsRead
      BY <3>1 DEF CapitalInv
    <3>7. SupportedDemand(Graph) = VG!Least({TotalDemand(Graph), cut})
      BY DEF SupportedDemand
    <3>8. IsGraph(Graph)
      BY <1>1, <3>6, GraphType
    <3>9. DeclaredDemand(Graph) \in Int /\ TotalDemand(Graph) \in Int /\ cut \in Int
      BY <3>8, GraphNumbers, TotalDemandType DEF CapitalInv
    <3>10. VG!Least({TotalDemand(Graph), cut}) \in Int
           /\ VG!Least({TotalDemand(Graph), cut}) <= cut
      BY <3>9, LeastOfTwo
    <3>11. DeclaredDemand(Graph) <= cut
      BY <3>5, <3>7, <3>9, <3>10
    <3> QED BY <3>5, <3>6, <3>11
  <2> QED BY <2>2, <2>3
<1>8. residual' \in [VG!Arcs -> Int] /\ cut' \in Nat
  BY <1>2 DEF CapitalInv
<1>9. GraphIsRead' /\ Passed("capital")' => CapitalLeft(CutCaps(Graph), residual, cut)'
  BY <1>2, <1>6
<1>10. Unblocked' /\ Passed("cut")' =>
         GraphIsRead' /\ BlockedNodes(Graph)' = {} /\ DeclaredDemand(Graph)' <= cut'
  BY <1>2, <1>7
<1> QED BY <1>2, <1>5, <1>8, <1>9, <1>10 DEF CapitalInv

\* The residuals of the root cut are always those of a flow.
LEMMA AlwaysCapital == Spec => []CapitalInv
<1>1. Init => CapitalInv
  <2> SUFFICES ASSUME Init PROVE CapitalInv
    OBVIOUS
  <2>1. residual = NoResidual /\ cut = 0 /\ pc = "claim"
    BY DEF Init, CapitalInit
  <2>2. ~Passed("capital") /\ ~Passed("cut")
    BY <2>1 DEF Passed, Stage
  <2>3. residual \in [VG!Arcs -> Int] /\ cut \in Nat
    BY <2>1 DEF NoResidual
  <2> QED BY <2>1, <2>2, <2>3 DEF CapitalInv
<1>2. IInv /\ CapitalInv /\ [Next]_vars => CapitalInv'
  <2>1. IInv /\ CapitalInv /\ Going => CapitalInv'
    BY CapitalSteps, StartKept, AugmentKept, JudgedKept DEF IInv
  <2>2. ASSUME CapitalInv, Raise PROVE CapitalInv'
    <3>1. bundle' = bundle /\ capital' = capital /\ pc' = "raised" /\ \A s \in DOMAIN Stage : ~Passed(s)'
      BY <2>2, RaiseStops
    <3>2. residual' \in [VG!Arcs -> Int] /\ cut' \in Nat
      BY <2>2, <3>1 DEF CapitalInv, capital
    <3>3. ~Passed("capital")' /\ ~Passed("cut")'
      BY <3>1 DEF Stage
    <3> QED BY <3>1, <3>2, <3>3 DEF CapitalInv
  <2> QED BY <2>1, <2>2, GoingOrRaise
<1>3. Spec => []IInv
  BY AlwaysIInv
<1> QED BY <1>1, <1>2, <1>3, PTL DEF Spec

----------------------------------------------------------------------------
(* Types and the root cut                                                  *)

\* Every step gives reasons of the list, and takes none back.
LEMMA ReasonsAreNames ==
  ASSUME limitations \subseteq Reasons, Going
  PROVE  limitations' \subseteq Reasons
<1> USE DEF Go
<1>1. CASE CheckClaim
  <2> DEFINE A == When(~bundle.supported, "claim unsupported") \cup
                  When(network.sources = {} \/ network.sinks = {}, "no explicit ends")
             B == When(Fitting(clock) # DOMAIN evidence, "inactive evidence")
  <2>1. A \subseteq Reasons
    BY ZenonT(60) DEF When, Reasons
  <2>2. B \subseteq Reasons
    BY ZenonT(60) DEF When, Reasons
  <2>3. limitations' = limitations \cup (A \cup B)
    BY <1>1 DEF CheckClaim
  <2> QED BY <2>1, <2>2, <2>3
<1>2. CASE CheckKinds
  <2> DEFINE R == When(~(RequiredKinds \subseteq {evidence[i].kind : i \in Fitting(clock)}),
                       "missing evidence kinds")
  <2>1. R \subseteq Reasons
    BY ZenonT(60) DEF When, Reasons
  <2>2. limitations' = limitations \cup R
    BY <1>2 DEF CheckKinds
  <2> QED BY <2>1, <2>2
<1>3. CASE ParseContractsAndWitnesses
  <2> DEFINE A == UNION {When(OfKind(k) # ValidOfKind(k), "invalid contract or witness") :
                           k \in {"evidence_contract", "verification_witness"}}
             B == When(\E c \in Contracts : c.status # "active", "inactive contract") \cup
                  When(\E w \in Witnesses : ~w.accepted, "rejected witness")
  <2>1. A \subseteq Reasons
    BY ZenonT(60) DEF When, Reasons
  <2>2. B \subseteq Reasons
    BY ZenonT(60) DEF When, Reasons
  <2>3. limitations' = limitations \cup (A \cup B)
    BY <1>3, Zenon DEF ParseContractsAndWitnesses
  <2> QED BY <2>1, <2>2, <2>3
<1>4. CASE CheckSplit
  <2>1. SplitReasons(bundle.split) \subseteq Reasons
    BY ZenonT(60) DEF SplitReasons, When, Reasons
  <2> QED BY <1>4, <2>1 DEF CheckSplit
<1>5. CASE CheckTcb
  <2> DEFINE needed == UNION ({evidence[i].tcb : i \in DOMAIN evidence}
                              \cup {c.tcb : c \in Contracts} \cup {w.tcb : w \in Witnesses})
             R == When(~(needed \subseteq RootedTcb(clock)), "unmet TCB requirement")
  <2>1. R \subseteq Reasons
    BY ZenonT(60) DEF When, Reasons
  <2>2. limitations' = limitations \cup R
    BY <1>5 DEF CheckTcb
  <2> QED BY <2>1, <2>2
<1>6. CASE BindContracts
  <2>1. \A c, w : WitnessReasons(c, w) \subseteq Reasons
    <3> SUFFICES ASSUME NEW c, NEW w PROVE WitnessReasons(c, w) \subseteq Reasons
      OBVIOUS
    <3>1. When(w.input = "" \/ ~(c.input \subseteq {w.input}), "input digest") \subseteq Reasons
      BY ZenonT(60) DEF When, Reasons
    <3>2. When(w.checker = "" \/ ~(c.checker \subseteq {w.checker}), "checker digest") \subseteq Reasons
      BY ZenonT(60) DEF When, Reasons
    <3>3. When(c.scope # "" /\ w.scope # c.scope, "witness scope") \subseteq Reasons
      BY ZenonT(60) DEF When, Reasons
    <3>4. When(~(c.tcb \subseteq w.tcb), "witness TCB") \subseteq Reasons
          /\ When(~w.output, "witness lacks output") \subseteq Reasons
      BY ZenonT(60) DEF When, Reasons
    <3>5. {"witness exposes another term"} \subseteq Reasons
      BY DEF Reasons
    <3> QED BY <3>1, <3>2, <3>3, <3>4, <3>5 DEF WitnessReasons
  <2>2. \A c : ContractReasons(c) \subseteq Reasons
    <3> SUFFICES ASSUME NEW c PROVE ContractReasons(c) \subseteq Reasons
      OBVIOUS
    <3>1. When(~(c.dependencies \subseteq Refs), "dependency unavailable") \subseteq Reasons
          /\ {"contract without accepted witness"} \subseteq Reasons
          /\ {"not exactly one term"} \subseteq Reasons
      BY ZenonT(60) DEF When, Reasons
    <3>2. UNION {WitnessReasons(c, w) : w \in AcceptedFor(c)} \subseteq Reasons
      BY <2>1
    <3> QED BY <3>1, <3>2 DEF ContractReasons
  <2>3. UNION {ContractReasons(c) : c \in Contracts} \subseteq Reasons
    BY <2>2
  <2> QED BY <1>6, <2>3 DEF BindContracts
<1>7. CASE CheckUncertainty
  <2> DEFINE R == IF OfKind("uncertainty_contract") = {} THEN {"no uncertainty contract"}
                  ELSE When(~PayloadOf("uncertainty_contract").nonempty,
                            "uncertainty contract may be empty")
  <2>1. R \subseteq Reasons
    BY ZenonT(60) DEF When, Reasons
  <2>2. limitations' = limitations \cup R
    BY <1>7 DEF CheckUncertainty
  <2> QED BY <2>1, <2>2
<1>8. CASE CheckCapacities
  <2>1. \A e : EdgeReasons(e) \subseteq Reasons
    BY ZenonT(60) DEF EdgeReasons, When, Reasons
  <2>2. UNION {EdgeReasons(network.edges[i]) : i \in DOMAIN network.edges} \subseteq Reasons
    BY <2>1
  <2> QED BY <1>8, <2>2 DEF CheckCapacities
<1>9. \A k, R : R \subseteq Reasons => ReasonsOfFirst(k, R) \subseteq Reasons
  BY DEF ReasonsOfFirst, Reasons
<1>10. CASE CheckQueue
  <2>1. QueueReasons \subseteq Reasons
    BY ZenonT(60) DEF QueueReasons, When, Reasons
  <2>2. ReasonsOfFirst("queue_certificate", QueueReasons) \subseteq Reasons
    BY <1>9, <2>1
  <2> QED BY <1>10, <2>2 DEF CheckQueue
<1>11. CASE CheckRelease
  <2>1. ReleaseReasons \subseteq Reasons
    BY ZenonT(60) DEF ReleaseReasons, When, Reasons
  <2>2. ReasonsOfFirst("release_accounting", ReleaseReasons) \subseteq Reasons
    BY <1>9, <2>1
  <2> QED BY <1>11, <2>2 DEF CheckRelease
<1>12. CASE CheckAccounts
  <2>1. \A k : AccountReasons(k) \subseteq Reasons
    BY ZenonT(60) DEF AccountReasons, When, Reasons
  <2> QED BY <1>12, <2>1 DEF CheckAccounts
<1>13. CASE CheckStatistics
  <2> DEFINE A ==
        When(Statistical # OfKind("statistical_certificate"), "invalid statistical certificate") \cup
        When(Paths # OfKind("path_law_certificate"), "invalid path-law certificate")
             B == When(Statistical \cup Paths = {}, "no certificate of a lower bound")
  <2>1. A \subseteq Reasons
    BY ZenonT(60) DEF When, Reasons
  <2>2. B \subseteq Reasons
    BY ZenonT(60) DEF When, Reasons
  <2>3. limitations' = limitations \cup (A \cup B)
    BY <1>13 DEF CheckStatistics
  <2> QED BY <2>1, <2>2, <2>3
<1>14. CASE BindReportTerms
  <2>1. \A t : TermReasons(t) \subseteq Reasons
    BY ZenonT(60) DEF TermReasons, When, Reasons
  <2>2. UNION {TermReasons(t) : t \in Expected} \subseteq Reasons
    BY <2>1
  <2> QED BY <1>14, <2>2 DEF BindReportTerms
<1>15. CASE CheckBudget
  <2> DEFINE R == IF OfKind("confidence_budget") = {} THEN {"no confidence budget"}
                  ELSE When(ConfidenceUsed > BudgetLimit, "confidence budget exceeded")
  <2>1. R \subseteq Reasons
    BY ZenonT(60) DEF When, Reasons
  <2>2. limitations' = limitations \cup R
    BY <1>15 DEF CheckBudget
  <2> QED BY <2>1, <2>2
<1>16. CASE StartCapital
  <2>1. {} \subseteq Reasons /\ {"no validation dependency graph"} \subseteq Reasons
    BY DEF Reasons
  <2> QED BY <1>16, <2>1 DEF StartCapital
<1>17. CASE JudgeCapital
  <2> DEFINE R ==
        When(BlockedNodes(Graph) # {}, "rootless validation nodes") \cup
        When(SupportedDemand(Graph) < DeclaredDemand(Graph), "root cut below demand")
  <2>1. R \subseteq Reasons
    BY ZenonT(60) DEF When, Reasons
  <2>2. limitations' = limitations \cup R
    BY <1>17 DEF JudgeCapital
  <2> QED BY <2>1, <2>2
<1>18. CASE Report
  <2>1. When(~GatesHold, "hard gates") \subseteq Reasons
    BY ZenonT(60) DEF When, Reasons
  <2> QED BY <1>18, <2>1 DEF Report
<1>19. CASE SolverFails
  BY <1>19 DEF SolverFails, Reasons
<1>20. CASE AugmentCapital \/ Tick \/ UNCHANGED vars
  BY <1>20 DEF AugmentCapital, Tick, vars, full
<1> QED BY <1>1, <1>2, <1>3, <1>4, <1>5, <1>6, <1>7, <1>8, <1>10, <1>11, <1>12, <1>13,
           <1>14, <1>15, <1>16, <1>17, <1>18, <1>19, <1>20 DEF Going, Validate

\* Reasons are always of the list.
LEMMA AlwaysNames == Spec => [](limitations \subseteq Reasons)
<1>1. Init => limitations \subseteq Reasons
  BY DEF Init
<1>2. (limitations \subseteq Reasons) /\ [Next]_vars => (limitations \subseteq Reasons)'
  BY ReasonsAreNames, RaiseStops, GoingOrRaise
<1> QED BY <1>1, <1>2, PTL DEF Spec

\* The lower bound of an ok report is a natural number.
LEMMA BoundIsNumber ==
  ASSUME IInv, ChargesAreNumbers, Ok
  PROVE  ComposedBound \in Nat
<1> DEFINE d == Min(Ceilings) - SumFunction(summary.charge)
<1>1. Min(Ceilings) \in Int /\ SumFunction(summary.charge) \in Int
      /\ ComposedBound = VG!Positive(d \div Unit)
  BY CeilingsAre, ChargesCount
<1>2. d \in Int /\ Unit \in Nat \ {0}
  BY <1>1, ScalesAssumption
<1> HIDE DEF d
<1>3. d \div Unit \in Int
  BY <1>2
<1> QED BY <1>1, <1>3 DEF VG!Positive

\* For every bundle and any run of the clock the state of an analysis is well
\* typed: what validators hand on in one dictionary keeps its types, and the
\* root cut never leaves whole numbers.
THEOREM TypeCorrectness == Spec => []TypeOK
<1>1. IInv /\ ChargesAreNumbers /\ CapitalInv /\ limitations \subseteq Reasons => TypeOK
  <2> SUFFICES ASSUME IInv, ChargesAreNumbers, CapitalInv, limitations \subseteq Reasons
               PROVE  TypeOK
    OBVIOUS
  <2>1. /\ bundle \in Bundles /\ pc \in DOMAIN Stage
        /\ clock \in 0..MaxTime /\ began \in 0..clock
    BY DEF IInv, Clocks
  <2>2. \A b \in bindings : b.dependencies \subseteq STRING /\ b.value \subseteq Int
    BY DEF IInv, BindingsType
  <2>3. /\ \A t \in ChargeTerms : summary.charge[t] \in Int
        /\ \A t \in ReportTerms : summary.refs[t] \subseteq Refs
        /\ \A t \in LowerTerms : summary.lowers[t] \subseteq Int /\ summary.bounds[t] \subseteq Int
        /\ summary.delta \in Nat
    BY DEF IInv, IsSummary
  <2>4. report.status \in {"none", "ok", "blocked"} /\ report.bound \in Nat
    <3>1. CASE Ok
      BY <3>1, BoundIsNumber DEF Ok, IInv, ReportIsLast
    <3>2. CASE ~Ok
      <4>1. report \in {NoReport, Blocked}
        BY <3>2 DEF IInv, ReportIsLast
      <4> QED BY <4>1, StatusOfReports
    <3> QED BY <3>1, <3>2
  <2>5. residual \in [VG!Arcs -> Int] /\ cut \in Nat
    BY DEF CapitalInv
  <2> QED BY <2>1, <2>2, <2>3, <2>4, <2>5 DEF TypeOK
<1>2. Spec => []IInv
  BY AlwaysIInv
<1>3. Spec => []ChargesAreNumbers
  BY AlwaysCharges
<1>4. Spec => []CapitalInv
  BY AlwaysCapital
<1>5. Spec => [](limitations \subseteq Reasons)
  BY AlwaysNames
<1> QED BY <1>1, <1>2, <1>3, <1>4, <1>5, PTL

\* In an ok report every demand node is joined to a root, and whatever set of nodes
\* holds the roots, what is declared is demanded in it or carried by the edges that
\* leave it; if no demand is negative, those edges carry the demands outside.  For
\* any graph, with demands of either sign, and whichever augmenting paths were found.
THEOREM RootsCarryDemand == Spec => []RootedCapital
<1>1. IInv /\ CapitalInv => RootedCapital
  <2> SUFFICES ASSUME IInv, CapitalInv, Ok PROVE RootedCapital
    BY DEF RootedCapital
  <2> DEFINE g == Graph
  <2>1. Unblocked /\ Passed("capital") /\ Passed("cut") /\ bundle \in Bundles
    BY OkIsLast DEF Stage, IInv, Clocks
  <2>2. /\ GraphIsRead /\ BlockedNodes(g) = {} /\ cut \in Nat /\ DeclaredDemand(g) <= cut
        /\ CapitalLeft(CutCaps(g), residual, cut)
    BY <2>1 DEF CapitalInv
  <2>3. IsGraph(g)
    BY <2>1, <2>2, GraphType
  <2> HIDE DEF g
  <2>4. /\ \A S \in SUBSET GraphNodes : g.roots \subseteq S =>
             /\ Outward(g, S) = {} => Demanded(g) \subseteq S
             /\ DeclaredDemand(g) <= DemandsIn(g, S) + Carried(g, S)
        /\ (\A n \in DOMAIN g.demands : g.demands[n] >= 0) =>
             /\ {n \in DOMAIN g.demands : g.demands[n] > 0} \subseteq Demanded(g)
             /\ Served(g)
    BY <2>2, <2>3, CutServesDemands
  <2> QED BY <2>4, Zenon DEF RootedCapital, g
<1>2. Spec => []IInv
  BY AlwaysIInv
<1>3. Spec => []CapitalInv
  BY AlwaysCapital
<1> QED BY <1>1, <1>2, <1>3, PTL
=============================================================================
