-------------------------- MODULE Analysis_proofs --------------------------
(***************************************************************************)
(* Proofs about analyses beside compilations, for every number of both and *)
(* every network, claim request and query: the composition does nothing to *)
(* the ledger that the claim compiler's specification does not allow, and  *)
(* a report keeps to the compilation it was read from.                     *)
(***************************************************************************)
EXTENDS Analysis, ClaimCompiler_proofs

\* Analyses only read the ledger and the claims: beside them the compilers behave
\* as specified by themselves, with the same fairness.
THEOREM AnalysisImplementsCompiler == AnalysisSpec => Spec
<1>1. AnalysisInit => Init
  BY DEF AnalysisInit
<1>2. [AnalysisNext]_kernel => [Next]_vars
  BY DEF AnalysisNext, kernel, Ask, Analyze, ReadNetwork, ReadClaim, ReadEvidence,
         Conclude, FindReport, InsertReport
<1> QED BY <1>1, <1>2, PTL DEF AnalysisSpec, Spec

\* What the analysis relies on of the ledger and the compiled claims.
LedgerInv == TypeOK /\ ObligationsAreKept /\ SupportIsSound

\* It holds beside analyses too.
LEMMA LedgerIsKept == AnalysisSpec => []LedgerInv
<1>1. TypeOK /\ ObligationsAreKept /\ SupportIsSound => LedgerInv
  BY DEF LedgerInv
<1> QED BY <1>1, AnalysisImplementsCompiler, TypeCorrectness, SupportInvariance, PTL

----------------------------------------------------------------------------
(* The inductive invariant                                                 *)

\* The compilation i is one the question of a is about; if it is about the claim,
\* none that was there when it was asked is newer.
Chosen(a, i) ==
  /\ i \in DOMAIN claims
  /\ claims[i].request = query[a].request
  /\ query[a].nth = 0 =>
       \A j \in 1..since[a] : claims[j].request = query[a].request => j <= i

\* The report r is what its compilation allows.
RestsOnClaim(r) ==
  /\ r.claim \in DOMAIN claims
  /\ r.status = "ok" =>
       /\ r.mode = "diagnostic"
       /\ claims[r.claim].supported
       /\ claims[r.claim].request = r.request
       /\ claims[r.claim].evidence_ids = r.evidence_ids
       /\ GateFailures(NetworkFromDict(Payload[r.network])) = {}

\* There is a report for what the analyst was told is stored.
Answered(a) == \E r \in Namesakes(a) : taken[a] => Content(r) = Content(draft[a])

\* What an analyst holds between two of its reads.
AnalystInv(a) ==
  /\ since[a] \in 0..Len(claims)
  /\ apc[a] = "evidence" =>
       Chosen(a, subject[a]) /\ toRead[a] \subseteq claims[subject[a]].evidence_ids
  /\ apc[a] \in {"store", "insert"} =>
       /\ Chosen(a, draft[a].claim) /\ RestsOnClaim(draft[a])
       /\ draft[a].request = query[a].request
  /\ apc[a] = "insert" /\ taken[a] => \E r \in reports : Content(r) = Content(draft[a])
  /\ apc[a] = "idle" /\ outcome[a] = "stored" => Answered(a)

ReportsInv ==
  /\ \A r \in reports : RestsOnClaim(r)
  /\ \A r, s \in reports : ReportId(r) = ReportId(s) => r = s

AnalysisInv == AnalysisTypeOK /\ (\A a \in Analysts : AnalystInv(a)) /\ ReportsInv

----------------------------------------------------------------------------
(* Operators                                                               *)

\* What a network leaves of its parts is of the type of parts.
LEMMA GatesType ==
  ASSUME NEW n \in Networks
  PROVE  GateFailures(NetworkFromDict(Payload[n])) \subseteq Parts
<1>1. Payload[n].edges \subseteq Edges
  BY PayloadAssumption
<1>2. ASSUME NEW e \in Edges, NEW whole PROVE EdgeFromDict(e, whole).parts \subseteq Parts
  BY DEF EdgeFromDict, Edges
<1>3. \A e \in NetworkFromDict(Payload[n]) : e.parts \subseteq Parts
  BY <1>1, <1>2 DEF NetworkFromDict
<1> QED BY <1>3 DEF GateFailures

\* There is a question, a network and a request to ask about.
LEMMA QueryType ==
  /\ AnyQuery \in Queries
  /\ \A q \in Queries : q.network \in Networks /\ q.request \in Requests /\ q.mode \in Modes
  /\ NoReport \in Reports
<1>1. AnyQuery \in Queries
  BY QueriesAssumption DEF AnyQuery
<1>2. \A q \in Queries : q.network \in Networks /\ q.request \in Requests /\ q.mode \in Modes
  BY QueriesAssumption
<1>3. (CHOOSE n \in Networks : TRUE) \in Networks /\ (CHOOSE r \in Requests : TRUE) \in Requests
  BY <1>1, <1>2
<1>4. NoReport \in Reports
  BY <1>3 DEF NoReport, Reports, Modes
<1> QED BY <1>1, <1>2, <1>4

\* Of the compilations that answer a question, one is the latest.
LEMMA LatestIsLast ==
  ASSUME TypeOK, NEW q, Candidates(q) # {}
  PROVE  /\ Latest(Candidates(q)) \in Candidates(q)
         /\ \A j \in Candidates(q) : j <= Latest(Candidates(q))
<1> DEFINE S == Candidates(q)
<1>1. Len(claims) \in Nat /\ S \subseteq 1..Len(claims)
  BY DEF Candidates, TypeOK
<1>2. IsFiniteSet(S) /\ S \subseteq Int
  <2> HIDE DEF S
  <2>1. IsFiniteSet(1..Len(claims))
    BY <1>1, FS_Interval
  <2>2. IsFiniteSet(S)
    BY <1>1, <2>1, FS_Subset
  <2> QED BY <1>1, <2>2
<1> HIDE DEF S
<1>3. PICK i \in S : \A j \in S : j <= i
  BY <1>2, FiniteExtremes DEF S
<1>4. Latest(S) \in S /\ \A j \in S : j <= Latest(S)
  BY <1>3 DEF Latest
<1> QED BY <1>4 DEF S

\* Claims stay as they were appended.
LEMMA ClaimsStay ==
  ASSUME TypeOK, [Next]_vars
  PROVE  /\ \A i \in DOMAIN claims : i \in DOMAIN claims' /\ claims'[i] = claims[i]
         /\ Len(claims) \in Nat /\ DOMAIN claims = 1..Len(claims)
         /\ 0..Len(claims) \subseteq 0..Len(claims')
<1>1. claims \in Seq(CompiledClaims)
  BY DEF TypeOK
<1>2. ASSUME NEW c \in Compilers, NEW why, AppendClaim(c, why)
      PROVE  claims' = Append(claims, Compiled(c, why))
  BY <1>2 DEF AppendClaim
<1>3. \/ claims' = claims
      \/ \E x : claims' = Append(claims, x)
  BY <1>2, ClaimsAreAppended DEF AppendChecked, AppendRejected
<1>4. ASSUME NEW x, claims' = Append(claims, x)
      PROVE  /\ \A i \in DOMAIN claims : i \in DOMAIN claims' /\ claims'[i] = claims[i]
             /\ Len(claims') = Len(claims) + 1
  BY <1>1, <1>4
<1>5. Len(claims) \in Nat /\ DOMAIN claims = 1..Len(claims)
  BY <1>1
<1> QED BY <1>3, <1>4, <1>5

\* What was read of the claims stays true as claims are added.
LEMMA ReadsStay ==
  ASSUME \A i \in DOMAIN claims : i \in DOMAIN claims' /\ claims'[i] = claims[i],
         Len(claims) \in Nat, DOMAIN claims = 1..Len(claims)
  PROVE  /\ \A r : RestsOnClaim(r) => RestsOnClaim(r)'
         /\ \A a, i : /\ Chosen(a, i) /\ since[a] \in 0..Len(claims)
                      /\ query'[a] = query[a] /\ since'[a] = since[a]
                      => Chosen(a, i)'
<1>1. ASSUME NEW r, RestsOnClaim(r) PROVE RestsOnClaim(r)'
  BY <1>1 DEF RestsOnClaim
<1>2. ASSUME NEW a, NEW i, Chosen(a, i), since[a] \in 0..Len(claims),
             query'[a] = query[a], since'[a] = since[a]
      PROVE  Chosen(a, i)'
  <2>1. \A j \in 1..since[a] : j \in DOMAIN claims /\ claims'[j] = claims[j]
    BY <1>2
  <2>2. i \in DOMAIN claims' /\ claims'[i] = claims[i]
    BY <1>2 DEF Chosen
  <2> QED BY <1>2, <2>1, <2>2 DEF Chosen
<1> QED BY <1>1, <1>2

\* The state of one analysis.
Call(a) ==
  <<apc[a], query[a], since[a], subject[a], toRead[a], draft[a], taken[a], outcome[a]>>

\* An analyst that does not move keeps what it has read, whatever else is stored.
LEMMA UnmovedAnalyst ==
  ASSUME TypeOK, [Next]_vars, NEW a \in Analysts, AnalystInv(a), Call(a)' = Call(a),
         reports \subseteq reports'
  PROVE  AnalystInv(a)'
<1>1. /\ apc'[a] = apc[a] /\ query'[a] = query[a] /\ since'[a] = since[a]
      /\ subject'[a] = subject[a] /\ toRead'[a] = toRead[a] /\ draft'[a] = draft[a]
      /\ taken'[a] = taken[a] /\ outcome'[a] = outcome[a]
  BY DEF Call
<1>2. /\ \A i \in DOMAIN claims : i \in DOMAIN claims' /\ claims'[i] = claims[i]
      /\ Len(claims) \in Nat /\ DOMAIN claims = 1..Len(claims)
      /\ 0..Len(claims) \subseteq 0..Len(claims')
  BY ClaimsStay
<1>3. since[a] \in 0..Len(claims) /\ since'[a] \in 0..Len(claims')
  BY <1>1, <1>2 DEF AnalystInv
<1>4. /\ \A r : RestsOnClaim(r) => RestsOnClaim(r)'
      /\ \A i : Chosen(a, i) => Chosen(a, i)'
  BY <1>1, <1>2, <1>3, ReadsStay
<1>5. ASSUME apc[a] = "evidence"
      PROVE  Chosen(a, subject[a])' /\ toRead'[a] \subseteq claims'[subject'[a]].evidence_ids
  <2>1. Chosen(a, subject[a]) /\ toRead[a] \subseteq claims[subject[a]].evidence_ids
    BY <1>5 DEF AnalystInv
  <2>2. PICK i : i = subject[a]
    OBVIOUS
  <2>3. Chosen(a, i)'
    BY <1>4, <2>1, <2>2
  <2>4. Chosen(a, subject[a])'
    BY <1>1, <2>2, <2>3 DEF Chosen
  <2>5. subject[a] \in DOMAIN claims
    BY <2>1 DEF Chosen
  <2> QED BY <1>1, <1>2, <2>1, <2>4, <2>5
<1>6. ASSUME apc[a] \in {"store", "insert"}
      PROVE  /\ Chosen(a, draft[a].claim)' /\ RestsOnClaim(draft[a])'
             /\ draft'[a].request = query'[a].request
  <2>1. /\ Chosen(a, draft[a].claim) /\ RestsOnClaim(draft[a])
        /\ draft[a].request = query[a].request
    BY <1>6 DEF AnalystInv
  <2>2. PICK r : r = draft[a]
    OBVIOUS
  <2>3. Chosen(a, r.claim)' /\ RestsOnClaim(r)'
    BY <1>4, <2>1, <2>2
  <2>4. Chosen(a, draft[a].claim)' /\ RestsOnClaim(draft[a])'
    BY <1>1, <2>2, <2>3 DEF Chosen, RestsOnClaim
  <2> QED BY <1>1, <2>1, <2>4
<1>7. apc[a] = "insert" /\ taken[a] => \E r \in reports' : Content(r) = Content(draft[a])'
  <2>1. Content(draft[a])' = Content(draft[a])
    BY <1>1 DEF Content, ReportId
  <2> QED BY <2>1 DEF AnalystInv
<1>8. Answered(a) => Answered(a)'
  BY <1>1 DEF Answered, Namesakes, Content, ReportId
<1>9. apc'[a] = "insert" /\ taken'[a] => (\E r \in reports : Content(r) = Content(draft[a]))'
  BY <1>1, <1>7 DEF Content, ReportId
<1> QED BY <1>1, <1>3, <1>5, <1>6, <1>8, <1>9 DEF AnalystInv

\* An analyst does not touch the other analyses, nor the ledger.
LEMMA OthersKeepTheirCalls ==
  ASSUME AnalysisTypeOK, NEW a \in Analysts, (\E q \in Queries : Ask(a, q)) \/ Analyze(a)
  PROVE  /\ UNCHANGED vars /\ reports \subseteq reports'
         /\ \A b \in Analysts \ {a} : Call(b)' = Call(b)
<1> USE DEF AnalysisTypeOK, Call
<1>1. ASSUME NEW how, End(a, how)
      PROVE  \A b \in Analysts \ {a} : /\ apc'[b] = apc[b] /\ outcome'[b] = outcome[b]
                                       /\ query'[b] = query[b] /\ since'[b] = since[b]
  BY <1>1 DEF End
<1>2. ASSUME NEW step, Continue(a, step)
      PROVE  \A b \in Analysts \ {a} : /\ apc'[b] = apc[b] /\ outcome'[b] = outcome[b]
                                       /\ query'[b] = query[b] /\ since'[b] = since[b]
  BY <1>2 DEF Continue
<1>3. ASSUME NEW q \in Queries, Ask(a, q)
      PROVE  /\ UNCHANGED vars /\ reports \subseteq reports'
             /\ \A b \in Analysts \ {a} : Call(b)' = Call(b)
  BY <1>3 DEF Ask
<1>4. CASE ReadNetwork(a)
  BY <1>1, <1>2, <1>4 DEF ReadNetwork
<1>5. CASE ReadClaim(a)
  BY <1>1, <1>2, <1>5 DEF ReadClaim
<1>6. CASE ReadEvidence(a)
  BY <1>1, <1>2, <1>6 DEF ReadEvidence
<1>7. CASE Conclude(a)
  BY <1>2, <1>7 DEF Conclude
<1>8. CASE FindReport(a)
  BY <1>1, <1>2, <1>8 DEF FindReport
<1>9. CASE InsertReport(a)
  BY <1>1, <1>9 DEF InsertReport
<1> QED BY <1>3, <1>4, <1>5, <1>6, <1>7, <1>8, <1>9 DEF Analyze

\* An analysis that is answered or refused holds nothing of the claims any more.
LEMMA EndedAnalyst ==
  ASSUME AnalysisTypeOK, NEW a \in Analysts, NEW how, End(a, how),
         how = "stored" => Answered(a)',
         how \in Outcomes
  PROVE  /\ AnalystInv(a)'
         /\ apc' \in [Analysts -> {"idle", "network", "claim", "evidence", "store", "insert"}]
         /\ query' \in [Analysts -> Queries] /\ since' \in [Analysts -> Nat]
         /\ outcome' \in [Analysts -> Outcomes]
<1>1. apc'[a] = "idle" /\ outcome'[a] = how /\ since'[a] = 0
  BY DEF End, AnalysisTypeOK
<1>2. /\ apc' \in [Analysts -> {"idle", "network", "claim", "evidence", "store", "insert"}]
      /\ query' \in [Analysts -> Queries] /\ since' \in [Analysts -> Nat]
      /\ outcome' \in [Analysts -> Outcomes]
  BY QueryType DEF End, AnalysisTypeOK
<1> QED BY <1>1, <1>2 DEF AnalystInv

\* What an analyst starts with.
LEMMA AskKeeps ==
  ASSUME AnalysisTypeOK, NEW a \in Analysts, NEW q \in Queries, Ask(a, q)
  PROVE  AnalysisTypeOK' /\ AnalystInv(a)' /\ UNCHANGED reports
<1> USE DEF AnalysisTypeOK
<1>1. /\ apc'[a] = "network" /\ since'[a] = Len(claims) /\ UNCHANGED <<vars, reports>>
  BY DEF Ask
<1>2. TypeOK' /\ Len(claims) \in Nat /\ claims' = claims
  BY <1>1 DEF vars, store, job, TypeOK
<1>3. AnalysisTypeOK'
  <2>1. asked' \in 0..MaxAnalyses
    BY AnalysisBounds DEF Ask
  <2>2. draft' \in [Analysts -> Reports] /\ taken' \in [Analysts -> BOOLEAN]
    BY QueryType DEF Ask
  <2>3. /\ query' \in [Analysts -> Queries] /\ since' \in [Analysts -> Nat]
        /\ apc' \in [Analysts -> {"idle", "network", "claim", "evidence", "store", "insert"}]
        /\ outcome' \in [Analysts -> Outcomes] /\ UNCHANGED <<subject, toRead, reports>>
    BY <1>2 DEF Ask, Outcomes
  <2> QED BY <1>2, <2>1, <2>2, <2>3
<1>4. AnalystInv(a)'
  BY <1>1, <1>2 DEF AnalystInv
<1> QED BY <1>1, <1>3, <1>4

\* A known network leads on to the claim.
LEMMA ReadNetworkKeeps ==
  ASSUME AnalysisTypeOK, NEW a \in Analysts, AnalystInv(a), ReadNetwork(a)
  PROVE  AnalysisTypeOK' /\ AnalystInv(a)' /\ UNCHANGED reports
<1>1. UNCHANGED <<vars, subject, toRead, draft, taken, reports, asked>>
  BY DEF ReadNetwork
<1>2. TypeOK' /\ claims' = claims
  BY <1>1 DEF vars, store, job, TypeOK, AnalysisTypeOK
<1>3. CASE Continue(a, "claim")
  <2>1. /\ apc' = [apc EXCEPT ![a] = "claim"] /\ UNCHANGED <<query, since, outcome>>
    BY <1>3 DEF Continue
  <2>2. AnalysisTypeOK'
    BY <1>1, <1>2, <2>1 DEF AnalysisTypeOK
  <2>3. apc'[a] = "claim" /\ since'[a] = since[a]
    BY <2>1 DEF AnalysisTypeOK
  <2>4. AnalystInv(a)'
    BY <1>2, <2>3 DEF AnalystInv
  <2> QED BY <1>1, <2>2, <2>4
<1>4. CASE End(a, "not found")
  BY <1>1, <1>2, <1>4, EndedAnalyst DEF AnalysisTypeOK, Outcomes
<1> QED BY <1>3, <1>4 DEF ReadNetwork

\* The latest compilation of the claim is read, or the one that was asked for.
LEMMA ReadClaimKeeps ==
  ASSUME AnalysisTypeOK, NEW a \in Analysts, AnalystInv(a), ReadClaim(a)
  PROVE  AnalysisTypeOK' /\ AnalystInv(a)' /\ UNCHANGED reports
<1>1. UNCHANGED <<vars, draft, taken, reports, asked>>
  BY DEF ReadClaim
<1>2. TypeOK /\ TypeOK' /\ claims' = claims
  BY <1>1 DEF vars, store, job, TypeOK, AnalysisTypeOK
<1>3. CASE Candidates(query[a]) # {}
  <2> DEFINE i == Latest(Candidates(query[a]))
  <2>1. /\ subject' = [subject EXCEPT ![a] = i]
        /\ toRead' = [toRead EXCEPT ![a] = claims[i].evidence_ids]
        /\ apc' = [apc EXCEPT ![a] = "evidence"] /\ UNCHANGED <<query, since, outcome>>
    BY <1>3 DEF ReadClaim, Continue
  <2>2. i \in Candidates(query[a]) /\ \A j \in Candidates(query[a]) : j <= i
    BY <1>2, <1>3, LatestIsLast
  <2>3. i \in DOMAIN claims /\ claims[i].request = query[a].request
    BY <2>2 DEF Candidates
  <2>4. claims[i] \in CompiledClaims /\ i \in Nat
    BY <1>2, <2>3, ElementOfSeq DEF TypeOK
  <2> HIDE DEF i
  <2>5. claims[i].evidence_ids \subseteq Evidence
    BY <2>4 DEF CompiledClaims
  <2>6. AnalysisTypeOK'
    BY <1>1, <1>2, <2>1, <2>4, <2>5 DEF AnalysisTypeOK
  <2>7. since[a] \in 0..Len(claims) /\ Len(claims) \in Nat /\ DOMAIN claims = 1..Len(claims)
    BY <1>2 DEF AnalystInv, TypeOK
  <2>8. Chosen(a, i)
    <3> SUFFICES ASSUME query[a].nth = 0, NEW j \in 1..since[a], claims[j].request = query[a].request
                 PROVE  j <= i
      BY <2>3 DEF Chosen
    <3>1. j \in Candidates(query[a])
      BY <2>7 DEF Candidates
    <3> QED BY <2>2, <3>1
  <2>9. /\ apc'[a] = "evidence" /\ subject'[a] = i /\ since'[a] = since[a] /\ query'[a] = query[a]
        /\ toRead'[a] = claims[i].evidence_ids
    BY <2>1 DEF AnalysisTypeOK
  <2>10. Chosen(a, subject[a])'
    BY <1>2, <2>8, <2>9 DEF Chosen
  <2>11. AnalystInv(a)'
    BY <1>2, <2>7, <2>9, <2>10 DEF AnalystInv
  <2> QED BY <1>1, <2>6, <2>11
<1>4. CASE Candidates(query[a]) = {}
  <2>1. End(a, "not found") /\ UNCHANGED <<subject, toRead>>
    BY <1>4 DEF ReadClaim
  <2> QED BY <1>1, <1>2, <2>1, EndedAnalyst DEF AnalysisTypeOK, Outcomes
<1> QED BY <1>3, <1>4

\* The evidence that the claim names is read one by one.
LEMMA ReadEvidenceKeeps ==
  ASSUME AnalysisTypeOK, NEW a \in Analysts, AnalystInv(a), ReadEvidence(a)
  PROVE  AnalysisTypeOK' /\ AnalystInv(a)' /\ UNCHANGED reports
<1>1. UNCHANGED <<vars, draft, taken, reports, asked>> /\ apc[a] = "evidence"
  BY DEF ReadEvidence
<1>2. TypeOK' /\ claims' = claims
  BY <1>1 DEF vars, store, job, TypeOK, AnalysisTypeOK
<1>3. ASSUME NEW e \in toRead[a], toRead' = [toRead EXCEPT ![a] = @ \ {e}],
             Continue(a, "evidence"), UNCHANGED subject
      PROVE  AnalysisTypeOK' /\ AnalystInv(a)'
  <2>1. /\ apc' = [apc EXCEPT ![a] = "evidence"] /\ UNCHANGED <<query, since, outcome>>
    BY <1>3 DEF Continue
  <2>2. AnalysisTypeOK'
    BY <1>1, <1>2, <1>3, <2>1 DEF AnalysisTypeOK
  <2>3. apc'[a] = "evidence" /\ toRead'[a] \subseteq toRead[a] /\ since'[a] = since[a]
    BY <1>3, <2>1 DEF AnalysisTypeOK
  <2>4. /\ Chosen(a, subject[a]) /\ toRead[a] \subseteq claims[subject[a]].evidence_ids
        /\ since[a] \in 0..Len(claims)
    BY <1>1 DEF AnalystInv
  <2>5. Chosen(a, subject[a])'
    BY <1>2, <1>3, <2>1, <2>4 DEF Chosen
  <2>6. AnalystInv(a)'
    BY <1>2, <1>3, <2>3, <2>4, <2>5 DEF AnalystInv
  <2> QED BY <2>2, <2>6
<1>4. ASSUME toRead' = [toRead EXCEPT ![a] = {}], subject' = [subject EXCEPT ![a] = NoClaim],
             End(a, "not found")
      PROVE  AnalysisTypeOK' /\ AnalystInv(a)'
  BY <1>1, <1>2, <1>4, EndedAnalyst DEF AnalysisTypeOK, Outcomes
<1> QED BY <1>1, <1>3, <1>4 DEF ReadEvidence

\* The report that is made is what its compilation allows.
LEMMA ConcludeKeeps ==
  ASSUME AnalysisTypeOK, NEW a \in Analysts, AnalystInv(a), Conclude(a)
  PROVE  AnalysisTypeOK' /\ AnalystInv(a)' /\ UNCHANGED reports
<1> DEFINE q == query[a]
           i == subject[a]
           k == claims[i]
           failures == GateFailures(NetworkFromDict(Payload[q.network]))
           v == Verdict(q.network, k, q.mode)
           r == [network |-> q.network, request |-> q.request, mode |-> q.mode,
                 status |-> v.status, gates |-> v.gates, limitations |-> v.limitations,
                 evidence_ids |-> k.evidence_ids, created |-> now,
                 claim |-> i]
<1>1. /\ UNCHANGED <<vars, toRead, taken, reports, asked>> /\ apc[a] = "evidence"
      /\ draft' = [draft EXCEPT ![a] = r] /\ subject' = [subject EXCEPT ![a] = NoClaim]
      /\ apc' = [apc EXCEPT ![a] = "store"] /\ UNCHANGED <<query, since, outcome>>
  BY DEF Conclude, Continue
<1>2. TypeOK /\ TypeOK' /\ claims' = claims
  BY <1>1 DEF vars, store, job, TypeOK, AnalysisTypeOK
<1>3. Chosen(a, i) /\ since[a] \in 0..Len(claims)
  BY <1>1 DEF AnalystInv
<1>4. i \in DOMAIN claims /\ k.request = q.request
  BY <1>3 DEF Chosen
<1>5. k \in CompiledClaims /\ i \in Nat
  BY <1>2, <1>4, ElementOfSeq DEF TypeOK
<1>6. q \in Queries /\ q.network \in Networks /\ q.request \in Requests /\ q.mode \in Modes
  BY QueryType DEF AnalysisTypeOK
<1>7. failures \subseteq Parts
  BY <1>6, GatesType
<1> HIDE DEF k, i, q, failures
<1>8. /\ v.status \in {"ok", "blocked"} /\ v.gates \subseteq Parts
      /\ v.limitations \subseteq Reasons
      /\ v.status = "ok" => q.mode = "diagnostic" /\ k.supported /\ failures = {}
  <2> DEFINE reached == q.mode = "diagnostic" /\ k.supported
  <2>1. /\ v.status = IF reached /\ failures = {} THEN "ok" ELSE "blocked"
        /\ v.gates = IF reached THEN failures ELSE {}
        /\ v.limitations = IF q.mode = "diagnostic" /\ ~k.supported THEN k.reasons ELSE {}
    BY DEF Verdict, failures
  <2>2. k.reasons \subseteq Reasons
    BY <1>5 DEF CompiledClaims
  <2> HIDE DEF v
  <2> QED BY <1>7, <2>1, <2>2
<1>9. k.evidence_ids \subseteq Evidence /\ now \in Nat
  BY <1>2, <1>5 DEF CompiledClaims, TypeOK
<1> HIDE DEF v
<1>10. r \in Reports
  BY <1>5, <1>6, <1>8, <1>9 DEF Reports
<1>11. /\ r.network = q.network /\ r.request = q.request /\ r.mode = q.mode /\ r.status = v.status
       /\ r.evidence_ids = k.evidence_ids /\ r.claim = i
  OBVIOUS
<1> HIDE DEF r
<1>12. AnalysisTypeOK'
  BY <1>1, <1>2, <1>10 DEF AnalysisTypeOK
<1>13. /\ draft'[a] = r /\ apc'[a] = "store" /\ since'[a] = since[a] /\ query'[a] = q
  BY <1>1 DEF AnalysisTypeOK, q
<1>14. RestsOnClaim(r)
  BY <1>4, <1>8, <1>11 DEF RestsOnClaim, k, failures
<1>15. RestsOnClaim(draft[a])'
  BY <1>2, <1>13, <1>14 DEF RestsOnClaim
<1>16. Chosen(a, draft[a].claim)'
  BY <1>2, <1>3, <1>11, <1>13 DEF Chosen, q
<1>17. AnalystInv(a)'
  BY <1>2, <1>3, <1>11, <1>13, <1>15, <1>16 DEF AnalystInv
<1> QED BY <1>1, <1>12, <1>17

\* A report is looked for under its id, and refused if another one is found.
LEMMA FindReportKeeps ==
  ASSUME AnalysisTypeOK, NEW a \in Analysts, AnalystInv(a), FindReport(a)
  PROVE  AnalysisTypeOK' /\ AnalystInv(a)' /\ UNCHANGED reports
<1>1. UNCHANGED <<vars, subject, toRead, draft, reports, asked>> /\ apc[a] = "store"
  BY DEF FindReport
<1>2. TypeOK' /\ claims' = claims
  BY <1>1 DEF vars, store, job, TypeOK, AnalysisTypeOK
<1>3. taken' = [taken EXCEPT ![a] = Namesakes(a) # {}] /\ taken' \in [Analysts -> BOOLEAN]
  BY DEF FindReport, AnalysisTypeOK
<1>4. CASE End(a, "collision")
  BY <1>1, <1>2, <1>3, <1>4, EndedAnalyst DEF AnalysisTypeOK, Outcomes
<1>5. CASE Continue(a, "insert") /\ \A r \in Namesakes(a) : Content(r) = Content(draft[a])
  <2>1. /\ apc' = [apc EXCEPT ![a] = "insert"] /\ UNCHANGED <<query, since, outcome>>
    BY <1>5 DEF Continue
  <2>2. AnalysisTypeOK'
    BY <1>1, <1>2, <1>3, <2>1 DEF AnalysisTypeOK
  <2>3. /\ since[a] \in 0..Len(claims)
        /\ Chosen(a, draft[a].claim) /\ RestsOnClaim(draft[a])
        /\ draft[a].request = query[a].request
    BY <1>1 DEF AnalystInv
  <2>4. Chosen(a, draft[a].claim)' /\ RestsOnClaim(draft[a])'
    BY <1>1, <1>2, <2>1, <2>3 DEF Chosen, RestsOnClaim
  <2>5. taken'[a] => (\E r \in reports : Content(r) = Content(draft[a]))'
    <3>1. taken'[a] => \E r \in Namesakes(a) : r \in reports
      BY <1>3 DEF Namesakes, AnalysisTypeOK
    <3> QED BY <1>1, <1>5, <3>1 DEF Content, ReportId
  <2>6. apc'[a] = "insert" /\ since'[a] = since[a]
    BY <2>1 DEF AnalysisTypeOK
  <2>7. AnalystInv(a)'
    BY <1>1, <1>2, <2>1, <2>3, <2>4, <2>5, <2>6 DEF AnalystInv
  <2> QED BY <1>1, <2>2, <2>7
<1> QED BY <1>4, <1>5 DEF FindReport

\* It is stored under a new id, or another one is there.
LEMMA InsertReportKeeps ==
  ASSUME AnalysisTypeOK, NEW a \in Analysts, AnalystInv(a), ReportsInv, InsertReport(a)
  PROVE  AnalysisTypeOK' /\ AnalystInv(a)' /\ ReportsInv'
<1>1. /\ UNCHANGED <<vars, subject, toRead, draft, taken, asked>> /\ apc[a] = "insert"
      /\ reports' = (IF Namesakes(a) = {} THEN reports \cup {draft[a]} ELSE reports)
      /\ End(a, "stored")
  BY DEF InsertReport
<1>2. TypeOK' /\ claims' = claims
  BY <1>1 DEF vars, store, job, TypeOK, AnalysisTypeOK
<1>3. draft[a] \in Reports /\ RestsOnClaim(draft[a])
  BY <1>1 DEF AnalystInv, AnalysisTypeOK
<1>4. ReportId(draft[a])' = ReportId(draft[a]) /\ Content(draft[a])' = Content(draft[a])
  BY <1>1 DEF Content, ReportId
<1>5. reports' \subseteq Reports /\ \A r \in reports' : RestsOnClaim(r)
  BY <1>1, <1>3 DEF ReportsInv, AnalysisTypeOK
<1>6. \A r \in reports' : RestsOnClaim(r)'
  BY <1>2, <1>5 DEF RestsOnClaim
<1>7. \A r, s \in reports' : ReportId(r) = ReportId(s) => r = s
  <2>1. \A r \in reports : Namesakes(a) = {} => ReportId(r) # ReportId(draft[a])
    BY DEF Namesakes
  <2>2. \A r, s \in reports : ReportId(r) = ReportId(s) => r = s
    BY DEF ReportsInv
  <2> QED BY <1>1, <2>1, <2>2
<1>8. ReportsInv'
  BY <1>6, <1>7 DEF ReportsInv, ReportId
<1>9. Answered(a)'
  <2>1. \E r \in reports' : /\ ReportId(r) = ReportId(draft[a])
                            /\ taken[a] => Content(r) = Content(draft[a])
    <3>1. CASE Namesakes(a) = {}
      BY <1>1, <3>1
    <3>2. CASE Namesakes(a) # {}
      <4>1. CASE taken[a]
        <5>1. PICK r \in reports : Content(r) = Content(draft[a])
          BY <1>1, <4>1 DEF AnalystInv
        <5>2. ReportId(r) = ReportId(draft[a])
          BY <5>1 DEF Content
        <5> QED BY <1>1, <3>2, <5>1, <5>2
      <4>2. CASE ~taken[a]
        BY <1>1, <3>2, <4>2 DEF Namesakes
      <4> QED BY <4>1, <4>2
    <3> QED BY <3>1, <3>2
  <2>2. ReportId(draft[a])' = ReportId(draft[a]) /\ taken'[a] = taken[a]
    BY <1>1, <1>4
  <2> QED BY <1>4, <2>1, <2>2 DEF Answered, Namesakes, ReportId, Content
<1> QED BY <1>1, <1>2, <1>5, <1>8, <1>9, EndedAnalyst DEF AnalysisTypeOK, Outcomes

----------------------------------------------------------------------------
(* The theorems                                                            *)

\* In the beginning nothing is asked, claimed or reported.
LEMMA InitAnalysisInv == AnalysisInit => AnalysisInv
<1> SUFFICES ASSUME AnalysisInit PROVE AnalysisInv
  OBVIOUS
<1>1. TypeOK
  BY InitHasTypes DEF AnalysisInit
<1>2. AnalysisTypeOK
  BY <1>1, QueryType, AnalysisBounds DEF AnalysisInit, AnalysisTypeOK, Outcomes
<1>3. claims = <<>> /\ Len(claims) = 0
  BY DEF AnalysisInit, Init
<1>4. ASSUME NEW a \in Analysts PROVE AnalystInv(a)
  BY <1>3 DEF AnalysisInit, AnalystInv
<1>5. ReportsInv
  BY DEF AnalysisInit, ReportsInv
<1> QED BY <1>2, <1>4, <1>5 DEF AnalysisInv

\* No step of an analysis, a compilation or anybody else breaks the invariant.
LEMMA StepKeepsAnalysisInv ==
  ASSUME AnalysisInv, [AnalysisNext]_kernel
  PROVE  AnalysisInv'
<1>1. AnalysisTypeOK /\ TypeOK /\ ReportsInv /\ \A a \in Analysts : AnalystInv(a)
  BY DEF AnalysisInv, AnalysisTypeOK
<1>2. ASSUME [Next]_vars, UNCHANGED analysis PROVE AnalysisInv'
  <2>1. TypeOK'
    BY <1>1, <1>2, NextKeepsTypes
  <2>2. AnalysisTypeOK'
    BY <1>1, <1>2, <2>1 DEF AnalysisTypeOK, analysis
  <2>3. ASSUME NEW a \in Analysts PROVE AnalystInv(a)'
    <3>1. Call(a)' = Call(a) /\ reports \subseteq reports'
      BY <1>2 DEF analysis, Call
    <3> QED BY <1>1, <1>2, <3>1, UnmovedAnalyst
  <2>4. /\ \A i \in DOMAIN claims : i \in DOMAIN claims' /\ claims'[i] = claims[i]
        /\ Len(claims) \in Nat /\ DOMAIN claims = 1..Len(claims)
    BY <1>1, <1>2, ClaimsStay
  <2>5. \A r : RestsOnClaim(r) => RestsOnClaim(r)'
    BY <2>4, ReadsStay
  <2>6. ReportsInv'
    BY <1>1, <1>2, <2>5 DEF ReportsInv, analysis, ReportId
  <2> QED BY <2>2, <2>3, <2>6 DEF AnalysisInv
<1>3. ASSUME NEW a \in Analysts, (\E q \in Queries : Ask(a, q)) \/ Analyze(a)
      PROVE  AnalysisInv'
  <2>1. /\ UNCHANGED vars /\ reports \subseteq reports'
        /\ \A b \in Analysts \ {a} : Call(b)' = Call(b)
    BY <1>1, <1>3, OthersKeepTheirCalls
  <2>2. ASSUME NEW b \in Analysts \ {a} PROVE AnalystInv(b)'
    BY <1>1, <2>1, <2>2, UnmovedAnalyst
  <2>3. ASSUME UNCHANGED reports PROVE ReportsInv'
    BY <1>1, <2>1, <2>3 DEF ReportsInv, RestsOnClaim, ReportId, vars
  <2>4. AnalysisTypeOK' /\ AnalystInv(a)' /\ ReportsInv'
    <3>1. CASE \E q \in Queries : Ask(a, q)
      BY <1>1, <2>3, <3>1, AskKeeps
    <3>2. CASE ReadNetwork(a)
      BY <1>1, <2>3, <3>2, ReadNetworkKeeps
    <3>3. CASE ReadClaim(a)
      BY <1>1, <2>3, <3>3, ReadClaimKeeps
    <3>4. CASE ReadEvidence(a)
      BY <1>1, <2>3, <3>4, ReadEvidenceKeeps
    <3>5. CASE Conclude(a)
      BY <1>1, <2>3, <3>5, ConcludeKeeps
    <3>6. CASE FindReport(a)
      BY <1>1, <2>3, <3>6, FindReportKeeps
    <3>7. CASE InsertReport(a)
      BY <1>1, <3>7, InsertReportKeeps
    <3> QED BY <1>3, <3>1, <3>2, <3>3, <3>4, <3>5, <3>6, <3>7 DEF Analyze
  <2> QED BY <2>2, <2>4 DEF AnalysisInv
<1>4. CASE UNCHANGED kernel
  <2>1. [Next]_vars /\ UNCHANGED analysis
    BY <1>4 DEF kernel
  <2> QED BY <1>2, <2>1
<1> QED BY <1>2, <1>3, <1>4 DEF AnalysisNext

\* The invariant behind the theorems about analyses holds in every run.
LEMMA AnalysisInvariance == AnalysisSpec => []AnalysisInv
<1>1. AnalysisInv /\ [AnalysisNext]_kernel => AnalysisInv'
  BY StepKeepsAnalysisInv
<1> QED BY <1>1, InitAnalysisInv, PTL DEF AnalysisSpec

\* However analyses and compilations interleave, the state keeps its types: a
\* question is about known networks and requests, a report is well formed.
THEOREM AnalysisTypeCorrectness == AnalysisSpec => []AnalysisTypeOK
<1>1. AnalysisInv => AnalysisTypeOK
  BY DEF AnalysisInv
<1> QED BY <1>1, AnalysisInvariance, PTL

\* For every network, request, ledger and interleaving, an "ok" report rests on a
\* supported compilation of its request, names exactly its evidence and has no failed
\* gate; about the claim's own network that evidence covers and fits every item.
THEOREM OkReportsAreBacked == AnalysisSpec => []OkReportIsBacked
<1>1. AnalysisInv /\ LedgerInv => OkReportIsBacked
  <2> SUFFICES ASSUME AnalysisInv, LedgerInv, NEW r \in reports, r.status = "ok"
               PROVE  /\ r.mode = "diagnostic"
                      /\ claims[r.claim].supported /\ claims[r.claim].request = r.request
                      /\ claims[r.claim].evidence_ids = r.evidence_ids
                      /\ GateFailures(NetworkFromDict(Payload[r.network])) = {}
                      /\ Requires[claims[r.claim].request].network = r.network =>
                           Backed(r.network, r.evidence_ids, claims[r.claim].began.time)
    BY DEF OkReportIsBacked
  <2> DEFINE k == claims[r.claim]
  <2>1. /\ r.claim \in DOMAIN claims
        /\ r.mode = "diagnostic" /\ k.supported /\ k.request = r.request
        /\ k.evidence_ids = r.evidence_ids
        /\ GateFailures(NetworkFromDict(Payload[r.network])) = {}
    BY DEF AnalysisInv, ReportsInv, RestsOnClaim
  <2>2. Sound(k)
    BY <2>1 DEF LedgerInv, SupportIsSound
  <2> HIDE DEF k
  <2>3. ASSUME Requires[k.request].network = r.network
        PROVE  Backed(r.network, r.evidence_ids, k.began.time)
    <3>1. /\ {} \notin Items[r.network]
          /\ UNION Items[r.network] \subseteq k.evidence_ids
          /\ \A e \in k.evidence_ids : CanSupport(e, k.began.time)
      BY <2>2, <2>3 DEF Sound, Covers
    <3> QED BY <2>1, <3>1 DEF Backed
  <2> QED BY <2>1, <2>3 DEF k
<1> QED BY <1>1, AnalysisInvariance, LedgerIsKept, PTL

\* Every claim, supported or not, names stored evidence only.
ClaimsNameStored == \A i \in DOMAIN claims : claims[i].evidence_ids \subseteq Stored

\* What a claim names stays stored, and what the next one names is.
LEMMA StepKeepsNames ==
  ASSUME LedgerInv, ClaimsNameStored, [Next]_vars
  PROVE  ClaimsNameStored'
<1>1. TypeOK /\ Stored \subseteq Stored'
  BY LedgerGrows DEF LedgerInv
<1>2. ASSUME NEW i \in DOMAIN claims' PROVE claims'[i].evidence_ids \subseteq Stored'
  <2>1. CASE i \in DOMAIN claims /\ claims'[i] = claims[i]
    BY <1>1, <2>1 DEF ClaimsNameStored
  <2>2. ASSUME NEW c \in Compilers, NEW why, claims'[i] = Compiled(c, why)
        PROVE  claims'[i].evidence_ids \subseteq Stored'
    <3>1. claims'[i].evidence_ids = found[c]
      BY <2>2 DEF Compiled
    <3>2. found[c] \subseteq Stored
      BY DEF LedgerInv, ObligationsAreKept, Kept, FoundIsFit
    <3> QED BY <1>1, <3>1, <3>2
  <2> QED BY <1>1, <2>1, <2>2, ClaimsAreAppended, AppendedClaim DEF AppendChecked, AppendRejected
<1> QED BY <1>2 DEF ClaimsNameStored

\* For every interleaving, evidence named by a claim is there when its analysis reads
\* it: "not found" never means that.
THEOREM AnalysesFindEvidence == AnalysisSpec => []AnalysisFindsItsEvidence
<1>1. AnalysisInit => ClaimsNameStored
  BY DEF AnalysisInit, Init, ClaimsNameStored
<1>2. LedgerInv /\ ClaimsNameStored /\ [AnalysisNext]_kernel => ClaimsNameStored'
  <2>1. [AnalysisNext]_kernel => [Next]_vars
    BY DEF AnalysisNext, kernel, Ask, Analyze, ReadNetwork, ReadClaim, ReadEvidence,
           Conclude, FindReport, InsertReport
  <2> QED BY <2>1, StepKeepsNames
<1>3. AnalysisInv /\ ClaimsNameStored => AnalysisFindsItsEvidence
  BY DEF AnalysisInv, AnalystInv, Chosen, ClaimsNameStored, AnalysisFindsItsEvidence
<1> QED BY <1>1, <1>2, <1>3, AnalysisInvariance, LedgerIsKept, PTL DEF AnalysisSpec

\* For every interleaving, a report by claim id rests on no compilation older than the
\* last one stored when it was asked for.
THEOREM ReportsAreFresh == AnalysisSpec => []ReportIsFresh
<1>1. AnalysisInv => ReportIsFresh
  BY DEF AnalysisInv, AnalystInv, Chosen, ReportIsFresh
<1> QED BY <1>1, AnalysisInvariance, PTL

\* However the looks, the inserts and the commits of analysts interleave, a report id
\* stands for one report, and who was told that a report is stored finds one under its
\* id: its own, unless another came after it had looked and found none.
THEOREM StoredReportsAnswer == AnalysisSpec => []StoredReportIsAnswered
<1>1. AnalysisInv => StoredReportIsAnswered
  BY DEF AnalysisInv, AnalystInv, Answered, ReportsInv, StoredReportIsAnswered
<1> QED BY <1>1, AnalysisInvariance, PTL
=============================================================================
