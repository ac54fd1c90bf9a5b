------------------------------ MODULE Analysis ------------------------------
(***************************************************************************)
(* The kernel around the claim compiler (runtime/kernel.py): networks      *)
(* arrive as objects or as plain dictionaries, claims are compiled as in   *)
(* ClaimCompiler, and analyses with the light profile read a network, a    *)
(* compiled claim and its evidence, one storage call at a time, decide     *)
(* (adapters/deterministic_analyzer.py) and store a report.  Compilations, *)
(* additions of evidence, time and other analyses come in between.         *)
(*                                                                         *)
(* The lower bound and the scores of a report are functions of the network *)
(* and the claim request (module MaxFlow), so reports carry neither.       *)
(***************************************************************************)
EXTENDS ClaimCompiler

CONSTANTS
  Analysts,     \* processes that analyse
  Payload,      \* Payload[n]: network n as the caller gives it to the kernel
  Queries,      \* what they may be asked: network, claim request, mode, and the
                \* number of the compilation, or 0 for the claim itself
  MaxAnalyses,  \* bound on the analyses begun
  NoClaim       \* no claim has been read

Parts == [kind : {"reservation", "queue", "charge", "gate"},
          evidence : SUBSET Refs, failed : BOOLEAN]
Edges == [named : BOOLEAN, evidence : SUBSET Refs, parts : SUBSET Parts]

ASSUME PayloadAssumption ==
  Payload \in [Networks -> [named : BOOLEAN, edges : SUBSET Edges]]

Modes == {"diagnostic", "certified_lower_bound"}

ASSUME QueriesAssumption ==
  /\ Queries # {}
  /\ Queries \subseteq [network : Networks, request : Requests, nth : Nat, mode : Modes]

ASSUME AnalysisBounds == MaxAnalyses \in Nat /\ NoClaim \notin Nat

\* _network_from_dict: a dictionary with a network_id, or an edge with an
\* edge_id, is taken as it is; an edge without one is built from its name, ends,
\* capacity and evidence only.
EdgeFromDict(e, whole) == IF whole \/ e.named THEN e ELSE [e EXCEPT !.parts = {}]

NetworkFromDict(p) == {EdgeFromDict(e, p.named) : e \in p.edges}

\* _network_evidence_obligations: each edge and each part of it.
Obligations(edges) ==
  {e.evidence : e \in edges} \cup {p.evidence : p \in UNION {e.parts : e \in edges}}

\* blocked_gates over all edges.
GateFailures(edges) ==
  {p \in UNION {e.parts : e \in edges} : p.kind = "gate" /\ p.failed}

\* What the compiler asks evidence for is what was made of the payloads.
ASSUME ItemsAssumption ==
  Items = [n \in Networks |-> Obligations(NetworkFromDict(Payload[n]))]

VARIABLES
  apc,      \* where each analyst is
  query,    \* what it was asked last
  since,    \* history: compilations stored when it was asked
  subject,  \* the place of the claim it read in claims, or NoClaim
  toRead,   \* evidence of that claim still to read
  draft,    \* the report it has made
  taken,    \* history: was a report stored under its id when it looked?
  outcome,  \* how its last analysis ended
  reports,  \* stored reports
  asked     \* analyses begun so far

analysis == <<apc, query, since, subject, toRead, draft, taken, outcome, reports,
              asked>>
kernel == <<vars, analysis>>

Outcomes == {"none", "not found", "collision", "stored"}

Reports ==
  [network : Networks, request : Requests, mode : Modes,
   status : {"ok", "blocked"}, gates : SUBSET Parts, evidence_ids : SUBSET Evidence,
   limitations : SUBSET Reasons, created : Nat,
   claim : Nat]     \* history: which compilation

NoReport ==
  [network |-> CHOOSE n \in Networks : TRUE, request |-> CHOOSE r \in Requests : TRUE,
   mode |-> "diagnostic", status |-> "blocked", gates |-> {}, evidence_ids |-> {},
   limitations |-> {}, created |-> 0, claim |-> 0]

AnyQuery == CHOOSE q \in Queries : TRUE

AnalysisInit ==
  /\ Init
  /\ apc = [a \in Analysts |-> "idle"]
  /\ query = [a \in Analysts |-> AnyQuery]
  /\ since = [a \in Analysts |-> 0]
  /\ subject = [a \in Analysts |-> NoClaim]
  /\ toRead = [a \in Analysts |-> {}]
  /\ draft = [a \in Analysts |-> NoReport]
  /\ taken = [a \in Analysts |-> FALSE]
  /\ outcome = [a \in Analysts |-> "none"]
  /\ reports = {}
  /\ asked = 0

----------------------------------------------------------------------------
(* analyze                                                                 *)

\* analyze(network_id, claim_id): the claim is named by its request, or by
\* the compilation id that compile_claim returned.
Ask(a, q) ==
  /\ apc[a] = "idle"
  /\ asked < MaxAnalyses
  /\ asked' = asked + 1
  /\ q.nth \in {0} \cup {i \in DOMAIN claims : claims[i].request = q.request}
  /\ query' = [query EXCEPT ![a] = q]
  /\ since' = [since EXCEPT ![a] = Len(claims)]
  /\ apc' = [apc EXCEPT ![a] = "network"]
  /\ draft' = [draft EXCEPT ![a] = NoReport]
  /\ taken' = [taken EXCEPT ![a] = FALSE]
  /\ outcome' = [outcome EXCEPT ![a] = "none"]
  /\ UNCHANGED <<vars, subject, toRead, reports>>

\* The call goes on, or returns or raises and leaves nothing behind.
Continue(a, step) ==
  /\ apc' = [apc EXCEPT ![a] = step]
  /\ UNCHANGED <<query, since, outcome>>

End(a, how) ==
  /\ apc' = [apc EXCEPT ![a] = "idle"]
  /\ outcome' = [outcome EXCEPT ![a] = how]
  /\ query' = [query EXCEPT ![a] = AnyQuery]
  /\ since' = [since EXCEPT ![a] = 0]

ReadNetwork(a) ==
  /\ apc[a] = "network"
  /\ IF query[a].network \in registered THEN Continue(a, "claim") ELSE End(a, "not found")
  /\ UNCHANGED <<vars, subject, toRead, draft, taken, reports, asked>>

\* get_claim: the compilation of that id, or the latest one of the claim.
Candidates(q) ==
  {i \in DOMAIN claims : claims[i].request = q.request /\ q.nth \in {0, i}}

\* Variant: the oldest compilation.
Earliest(S) == CHOOSE i \in S : \A j \in S : i <= j

Latest(S) == CHOOSE i \in S : \A j \in S : j <= i

ReadClaim(a) ==
  /\ apc[a] = "claim"
  /\ IF Candidates(query[a]) # {}
     THEN LET i == Latest(Candidates(query[a])) IN
          /\ subject' = [subject EXCEPT ![a] = i]
          /\ toRead' = [toRead EXCEPT ![a] = claims[i].evidence_ids]
          /\ Continue(a, "evidence")
     ELSE End(a, "not found") /\ UNCHANGED <<subject, toRead>>
  /\ UNCHANGED <<vars, draft, taken, reports, asked>>

ReadEvidence(a) ==
  /\ apc[a] = "evidence"
  /\ \E e \in toRead[a] :
       IF e \in Stored
       THEN /\ toRead' = [toRead EXCEPT ![a] = @ \ {e}]
            /\ Continue(a, "evidence")
            /\ UNCHANGED subject
       ELSE /\ toRead' = [toRead EXCEPT ![a] = {}]
            /\ subject' = [subject EXCEPT ![a] = NoClaim]
            /\ End(a, "not found")
  /\ UNCHANGED <<vars, draft, taken, reports, asked>>

\* Variants: the claim's support is not looked at; a status of its own for it.
VerdictOnGates(n, k, mode) ==
  LET failures == GateFailures(NetworkFromDict(Payload[n])) IN
  [status |-> IF mode = "diagnostic" /\ failures = {} THEN "ok" ELSE "blocked",
   gates |-> failures, limitations |-> k.reasons]

VerdictOnSupport(n, k, mode) ==
  [status |-> IF k.supported THEN "ok" ELSE "unsupported",
   gates |-> GateFailures(NetworkFromDict(Payload[n])), limitations |-> k.reasons]

\* DeterministicAnalyzer.analyze: certified mode is refused, then an
\* unsupported claim, then a failed gate.  The evidence it was handed decides
\* nothing; the report names it.
Verdict(n, k, mode) ==
  LET failures == GateFailures(NetworkFromDict(Payload[n]))
      reached == mode = "diagnostic" /\ k.supported IN
  [status |-> IF reached /\ failures = {} THEN "ok" ELSE "blocked",
   gates |-> IF reached THEN failures ELSE {},
   limitations |-> IF mode = "diagnostic" /\ ~k.supported THEN k.reasons ELSE {}]

Conclude(a) ==
  LET q == query[a]
      k == claims[subject[a]]
      v == Verdict(q.network, k, q.mode) IN
  /\ apc[a] = "evidence"
  /\ toRead[a] = {}
  /\ draft' = [draft EXCEPT ![a] =
       [network |-> q.network, request |-> q.request, mode |-> q.mode,
        status |-> v.status, gates |-> v.gates, limitations |-> v.limitations,
        evidence_ids |-> k.evidence_ids, created |-> now,
        claim |-> subject[a]]]
  /\ subject' = [subject EXCEPT ![a] = NoClaim]
  /\ Continue(a, "store")
  /\ UNCHANGED <<vars, toRead, taken, reports, asked>>

\* The fields the report id is a digest of: not the limitations, nor created_at.
ReportId(r) == <<r.network, r.request, r.mode, r.status, r.gates, r.evidence_ids>>

\* What is stored of a report, without the history.
Content(r) == <<ReportId(r), r.limitations, r.created>>

Namesakes(a) == {r \in reports : ReportId(r) = ReportId(draft[a])}

\* Variant: the row that is found is not compared.
FindAnyReport(a) ==
  /\ apc[a] = "store"
  /\ taken' = [taken EXCEPT ![a] = Namesakes(a) # {}]
  /\ Continue(a, "insert")
  /\ UNCHANGED <<vars, subject, toRead, draft, reports, asked>>

\* append_report, SELECT: another report under the same id fails closed.
FindReport(a) ==
  /\ apc[a] = "store"
  /\ taken' = [taken EXCEPT ![a] = Namesakes(a) # {}]
  /\ IF \A r \in Namesakes(a) : Content(r) = Content(draft[a])
     THEN Continue(a, "insert")
     ELSE End(a, "collision")
  /\ UNCHANGED <<vars, subject, toRead, draft, reports, asked>>

\* append_report, INSERT OR IGNORE and COMMIT: the INSERT takes the write lock, so
\* nobody sees the row or stores another one before the COMMIT.  A report that came
\* under the same id since the SELECT stays, and the caller is not told.
InsertReport(a) ==
  /\ apc[a] = "insert"
  /\ reports' = IF Namesakes(a) = {} THEN reports \cup {draft[a]} ELSE reports
  /\ End(a, "stored")
  /\ UNCHANGED <<vars, subject, toRead, draft, taken, asked>>

----------------------------------------------------------------------------
Analyze(a) ==
  \/ ReadNetwork(a) \/ ReadClaim(a) \/ ReadEvidence(a) \/ Conclude(a)
  \/ FindReport(a) \/ InsertReport(a)

AnalysisNext ==
  \/ Next /\ UNCHANGED analysis
  \/ \E a \in Analysts :
       \/ \E q \in Queries : Ask(a, q)
       \/ Analyze(a)

\* A compilation keeps running; an analyst may stop for ever between two steps.
AnalysisSpec ==
  /\ AnalysisInit
  /\ [][AnalysisNext]_kernel
  /\ Fairness

----------------------------------------------------------------------------
AnalysisTypeOK ==
  /\ TypeOK
  /\ apc \in [Analysts -> {"idle", "network", "claim", "evidence", "store", "insert"}]
  /\ query \in [Analysts -> Queries]
  /\ since \in [Analysts -> Nat]
  /\ subject \in [Analysts -> Nat \cup {NoClaim}]
  /\ toRead \in [Analysts -> SUBSET Evidence]
  /\ draft \in [Analysts -> Reports]
  /\ taken \in [Analysts -> BOOLEAN]
  /\ outcome \in [Analysts -> Outcomes]
  /\ reports \subseteq Reports
  /\ asked \in 0..MaxAnalyses

\* Every item of the network n has evidence among E that was fit at time t.
Backed(n, E, t) ==
  \A ids \in Items[n] :
    ids # {} /\ ids \subseteq E /\ \A e \in ids : CanSupport(e, t)

\* An "ok" report rests on a compilation that was supported when it was stored,
\* names exactly its evidence, and is about a network none of whose stored gates
\* fails; a report about the network the claim was made for rests on evidence
\* for each item of it.  This survives whatever happens between the reads: a
\* newer compilation that is refused, evidence that expires, a second analysis.
OkReportIsBacked ==
  \A r \in reports : r.status = "ok" =>
    LET k == claims[r.claim] IN
    /\ r.mode = "diagnostic"
    /\ k.supported /\ k.request = r.request /\ k.evidence_ids = r.evidence_ids
    /\ GateFailures(NetworkFromDict(Payload[r.network])) = {}
    /\ Requires[k.request].network = r.network =>
         Backed(r.network, r.evidence_ids, k.began.time)

\* Evidence named by a compiled claim is never missing for its analysis, be the
\* claim supported or not: "not found" only ever means the network or the claim.
\* (backend_author_guide.md: evidence is append-oriented.)
AnalysisFindsItsEvidence ==
  /\ \A i \in DOMAIN claims : claims[i].evidence_ids \subseteq Stored
  /\ \A a \in Analysts : apc[a] = "evidence" => toRead[a] \subseteq Stored

\* backend_author_guide.md:26-28: get_claim(claim_id) is the latest compilation.
\* A report by claim id rests on no compilation older than the last one that was
\* stored when the analysis was asked for.
ReportIsFresh ==
  \A a \in Analysts : apc[a] = "store" /\ query[a].nth = 0 =>
    \A i \in 1..since[a] :
      claims[i].request = draft[a].request => i <= draft[a].claim

\* An id stands for one report for good.  An analyst that was told its report is
\* stored can export one under its id: exactly the one it was given if the id was
\* taken when it looked, so that only a report stored by somebody else between its
\* SELECT and its INSERT is ever answered for in place of its own.
StoredReportIsAnswered ==
  /\ \A r, s \in reports : ReportId(r) = ReportId(s) => r = s
  /\ \A a \in Analysts : apc[a] = "idle" /\ outcome[a] = "stored" =>
       \E r \in Namesakes(a) : taken[a] => Content(r) = Content(draft[a])

\* ports/storage.py:57: "Append or idempotently store a report."  An analysis
\* that comes to the same report as before is not refused.
RepeatedReportIsAccepted == \A a \in Analysts : outcome[a] # "collision"

\* docs/security_model.md:15-17: edges and their parts must reference active
\* evidence.  An "ok" report has evidence for every item of its own network.
ReportedNetworkIsBacked ==
  \A r \in reports : r.status = "ok" =>
    Backed(r.network, r.evidence_ids, claims[r.claim].began.time)
=============================================================================
