--------------------------- MODULE ClaimCompiler ---------------------------
(***************************************************************************)
(* compile_claim (runtime/kernel.py) over a ledger that other processes    *)
(* extend while it runs.  Every storage call of the compiler is one step:  *)
(* get_network, list_evidence per required scope, get_evidence per id,     *)
(* then rounds of the dependency closure, each dependency looked up by id  *)
(* and, failing that, by external reference, then the checks and the       *)
(* append of the compiled claim.  The clock may tick between any two       *)
(* steps, and within the look at an object, which reads it twice: is it    *)
(* expired, and if not, can it support claims?                             *)
(*                                                                         *)
(* The loops of the code run in the order of digests or of insertion; here *)
(* they take their next element in any order.                              *)
(***************************************************************************)
EXTENDS Naturals, Sequences, FiniteSets

CONSTANTS
  Compilers,   \* processes that compile claims
  Evidence,    \* ids of the evidence objects that may be added
  Refs,        \* every id or external reference that may be named
  Scopes,
  Tcbs,        \* names of TCB requirements
  Networks,
  Requests,    \* claim requests
  Profile,     \* Profile[e]: the immutable fields of an evidence object
  Items,       \* Items[n]: evidence_ids of each edge, reservation, gate, ...
  Requires,    \* Requires[r]: the fields of a claim request
  Never,       \* expiry of evidence that does not expire
  NoDep,       \* no dependency is being looked up
  MaxTime,     \* bound on the clock
  MaxClaims    \* bound on the compilations stored

Statuses == {"active", "expired", "quarantined", "superseded", "policy_reserve"}

Profiles ==
  [scope : Scopes, status : Statuses, expiry : Nat \cup {Never},
   external_refs : SUBSET Refs, dependencies : SUBSET Refs,
   attests : SUBSET Tcbs]   \* attests: rooted "ok" TCB payloads

RequestFields ==
  [network : Networks, scopes : SUBSET Scopes, evidence : SUBSET Refs,
   tcb : SUBSET Tcbs]

ASSUME CatalogAssumption ==
  /\ Requests # {}
  /\ NoDep \notin Refs
  /\ Evidence \subseteq Refs
  /\ Profile \in [Evidence -> Profiles]
  /\ Items \in [Networks -> SUBSET SUBSET Refs]
  /\ Requires \in [Requests -> RequestFields]

ASSUME BoundsAssumption == MaxTime \in Nat /\ MaxClaims \in Nat

VARIABLES
  obs,         \* obs[e]: the obs_seq of evidence e, 0 if it is not stored
  lastSeq,     \* the last obs_seq given out
  registered,  \* networks that are stored
  claims,      \* compiled claims in the order they were appended
  now,         \* the clock, in seconds
  pc,          \* where each compiler is
  request,     \* the claim it compiles
  began,       \* history: [seq, time] when it began
  scopesLeft,  \* required scopes still to list, or to check
  idsLeft,     \* candidate ids still to fetch
  found,       \* the evidence dictionary
  reasons,     \* why the claim is not supported
  depsLeft,    \* <<item, dependency>> pairs left in this closure round
  dep,         \* the dependency that get_evidence did not find
  changed      \* did this round add evidence?

store == <<obs, lastSeq, registered>>
job == <<pc, request, began, scopesLeft, idsLeft, found, reasons, depsLeft, dep, changed>>
vars == <<store, claims, now, job>>

----------------------------------------------------------------------------
(* Evidence and the ledger                                                 *)

Stored == {e \in Evidence : obs[e] # 0}

Expired(e, t) ==
  \/ Profile[e].status = "expired"
  \/ Profile[e].expiry # Never /\ Profile[e].expiry <= t

CanSupport(e, t) == Profile[e].status = "active" /\ ~Expired(e, t)

\* list_evidence(scope=s)
InScope(s) == {e \in Stored : Profile[e].scope = s}

\* The first item, in observable order, that carries an external reference.
Carriers(ref) == {e \in Stored : ref \in Profile[e].external_refs}
FirstObserved(S) == CHOOSE e \in S : \A f \in S : obs[e] <= obs[f]

\* Variant: external references are not counted as known.
KnownIdsOnly(S) == S

\* _known_refs: what the evidence in S answers to.
KnownRefs(S) == S \cup UNION {Profile[e].external_refs : e \in S}

OpenDeps(S) ==
  {p \in S \X Refs : p[2] \in Profile[p[1]].dependencies \ KnownRefs(S)}

----------------------------------------------------------------------------
(* Reasons: what is wrong, and with what                                   *)

ReasonKinds ==
  {"network not found", "no evidence", "missing evidence", "expired",
   "inactive", "missing dependency", "unsupported scope", "missing TCB"}
Reasons ==
  [kind : ReasonKinds, about : Refs \cup Networks \cup Scopes \cup Tcbs]

Because(k, x) == [kind |-> k, about |-> x]

\* The second reading of the clock in the look at one object.  Nothing else that
\* may change is read between the two, so one tick there stands for any number.
Later == {t \in {now, now + 1} : t <= MaxTime}

\* Variants: expiry is forgotten; the two tests are made in the other order.
DoubtsOfStatus(e, then) ==
  IF Profile[e].status # "active" THEN {Because("inactive", e)} ELSE {}

DoubtsInOtherOrder(e, then) ==
  IF ~CanSupport(e, now) THEN {Because("inactive", e)}
  ELSE IF Expired(e, then) THEN {Because("expired", e)} ELSE {}

\* Evidence that cannot support the claim is kept, with a reason.  Evidence that
\* is active and expires between the two readings is called inactive.
Doubts(e, then) ==
  IF Expired(e, now) THEN {Because("expired", e)}
  ELSE IF ~CanSupport(e, then) THEN {Because("inactive", e)} ELSE {}

----------------------------------------------------------------------------
Init ==
  /\ obs = [e \in Evidence |-> 0]
  /\ lastSeq = 0
  /\ registered = {}
  /\ claims = <<>>
  /\ now = 0
  /\ pc = [c \in Compilers |-> "idle"]
  /\ request = [c \in Compilers |-> CHOOSE r \in Requests : TRUE]
  /\ began = [c \in Compilers |-> [seq |-> 0, time |-> 0]]
  /\ scopesLeft = [c \in Compilers |-> {}]
  /\ idsLeft = [c \in Compilers |-> {}]
  /\ found = [c \in Compilers |-> {}]
  /\ reasons = [c \in Compilers |-> {}]
  /\ depsLeft = [c \in Compilers |-> {}]
  /\ dep = [c \in Compilers |-> NoDep]
  /\ changed = [c \in Compilers |-> FALSE]

----------------------------------------------------------------------------
(* Other processes, and time                                               *)

\* append_evidence of a new object; appending it again changes nothing.
AddEvidence(e) ==
  /\ obs[e] = 0
  /\ lastSeq' = lastSeq + 1
  /\ obs' = [obs EXCEPT ![e] = lastSeq + 1]
  /\ UNCHANGED <<registered, claims, now, job>>

RegisterNetwork(n) ==
  /\ n \notin registered
  /\ registered' = registered \cup {n}
  /\ UNCHANGED <<obs, lastSeq, claims, now, job>>

Tick ==
  /\ now < MaxTime
  /\ now' = now + 1
  /\ UNCHANGED <<store, claims, job>>
----------------------------------------------------------------------------
(* compile_claim                                                           *)

Begin(c, r) ==
  /\ pc[c] = "idle"
  /\ Len(claims) + Cardinality({d \in Compilers : pc[d] # "idle"}) < MaxClaims
  /\ pc' = [pc EXCEPT ![c] = "network"]
  /\ request' = [request EXCEPT ![c] = r]
  /\ began' = [began EXCEPT ![c] = [seq |-> lastSeq, time |-> now]]
  /\ found' = [found EXCEPT ![c] = {}]
  /\ UNCHANGED <<store, claims, now, scopesLeft, idsLeft, reasons, depsLeft, dep, changed>>

\* An unknown network is a reason of its own; nothing else is looked at.
NetworkMissing(c) ==
  LET n == Requires[request[c]].network IN
  /\ pc[c] = "network"
  /\ n \notin registered
  /\ pc' = [pc EXCEPT ![c] = "reject"]
  /\ reasons' = [reasons EXCEPT ![c] = {Because("network not found", n)}]
  /\ UNCHANGED <<store, claims, now, request, began, scopesLeft, idsLeft, found,
                 depsLeft, dep, changed>>

\* _network_evidence_obligations: every item of the network needs evidence.
NetworkFound(c) ==
  LET want == Requires[request[c]]
      n == want.network IN
  /\ pc[c] = "network"
  /\ n \in registered
  /\ pc' = [pc EXCEPT ![c] = "gather"]
  /\ idsLeft' = [idsLeft EXCEPT ![c] = (UNION Items[n]) \cup want.evidence]
  /\ reasons' = [reasons EXCEPT ![c] =
                   IF {} \in Items[n] THEN {Because("no evidence", n)} ELSE {}]
  /\ scopesLeft' = [scopesLeft EXCEPT ![c] = want.scopes]
  /\ UNCHANGED <<store, claims, now, request, began, found, depsLeft, dep, changed>>

\* All evidence of a required scope becomes a candidate.
ListScope(c) ==
  /\ pc[c] = "gather"
  /\ \E s \in scopesLeft[c] :
       /\ scopesLeft' = [scopesLeft EXCEPT ![c] = @ \ {s}]
       /\ idsLeft' = [idsLeft EXCEPT ![c] = @ \cup InScope(s)]
  /\ UNCHANGED <<store, claims, now, pc, request, began, found, reasons, depsLeft,
                 dep, changed>>

FetchPresent(c) ==
  /\ pc[c] = "gather"
  /\ scopesLeft[c] = {}
  /\ \E e \in idsLeft[c] \cap Stored : \E then \in Later :
       /\ now' = then
       /\ idsLeft' = [idsLeft EXCEPT ![c] = @ \ {e}]
       /\ found' = [found EXCEPT ![c] = @ \cup {e}]
       /\ reasons' = [reasons EXCEPT ![c] = @ \cup Doubts(e, then)]
  /\ UNCHANGED <<store, claims, pc, request, began, scopesLeft, depsLeft, dep, changed>>

FetchMissing(c) ==
  /\ pc[c] = "gather"
  /\ scopesLeft[c] = {}
  /\ \E x \in idsLeft[c] \ Stored :
       /\ idsLeft' = [idsLeft EXCEPT ![c] = @ \ {x}]
       /\ reasons' = [reasons EXCEPT ![c] = @ \cup {Because("missing evidence", x)}]
  /\ UNCHANGED <<store, claims, now, pc, request, began, scopesLeft, found, depsLeft,
                 dep, changed>>

\* _add_dependency_closure, top of the loop: what is known is fixed for the
\* whole round.
StartRound(c) ==
  /\ \/ pc[c] = "gather" /\ scopesLeft[c] = {} /\ idsLeft[c] = {}
     \/ pc[c] = "close" /\ depsLeft[c] = {} /\ changed[c]
  /\ pc' = [pc EXCEPT ![c] = "close"]
  /\ depsLeft' = [depsLeft EXCEPT ![c] = OpenDeps(found[c])]
  /\ changed' = [changed EXCEPT ![c] = FALSE]
  /\ UNCHANGED <<store, claims, now, request, began, scopesLeft, idsLeft, found,
                 reasons, dep>>

\* Variants: no further round; a dependency is taken without a look at its state.
AdoptInLastRound(c, e) ==
  /\ found' = [found EXCEPT ![c] = @ \cup {e}]
  /\ \E then \in Later :
       now' = then /\ reasons' = [reasons EXCEPT ![c] = @ \cup Doubts(e, then)]
  /\ UNCHANGED changed
  /\ pc' = [pc EXCEPT ![c] = "close"]

AdoptUnseen(c, e) ==
  /\ found' = [found EXCEPT ![c] = @ \cup {e}]
  /\ changed' = [changed EXCEPT ![c] = TRUE]
  /\ pc' = [pc EXCEPT ![c] = "close"]
  /\ UNCHANGED <<reasons, now>>

\* A dependency resolved to e joins the evidence.
Adopt(c, e) ==
  /\ found' = [found EXCEPT ![c] = @ \cup {e}]
  /\ \E then \in Later :
       now' = then /\ reasons' = [reasons EXCEPT ![c] = @ \cup Doubts(e, then)]
  /\ changed' = [changed EXCEPT ![c] = TRUE]
  /\ pc' = [pc EXCEPT ![c] = "close"]

\* _resolve_evidence_ref, first try: by id.
ResolveById(c) ==
  /\ pc[c] = "close"
  /\ \E p \in depsLeft[c] :
       /\ depsLeft' = [depsLeft EXCEPT ![c] = @ \ {p}]
       /\ IF p[2] \in Stored
          THEN Adopt(c, p[2]) /\ UNCHANGED dep
          ELSE /\ pc' = [pc EXCEPT ![c] = "scan"]
               /\ dep' = [dep EXCEPT ![c] = p[2]]
               /\ UNCHANGED <<found, reasons, changed, now>>
  /\ UNCHANGED <<store, claims, request, began, scopesLeft, idsLeft>>

\* Second try: the first evidence observed under that external reference.
ResolveByRef(c) ==
  /\ pc[c] = "scan"
  /\ IF Carriers(dep[c]) # {}
     THEN Adopt(c, FirstObserved(Carriers(dep[c])))
     ELSE /\ reasons' = [reasons EXCEPT ![c] =
                           @ \cup {Because("missing dependency", dep[c])}]
          /\ pc' = [pc EXCEPT ![c] = "close"]
          /\ UNCHANGED <<found, changed, now>>
  /\ UNCHANGED <<store, claims, request, began, scopesLeft, idsLeft, depsLeft, dep>>

\* A round that added nothing ends the closure.
EndClosure(c) ==
  /\ pc[c] = "close"
  /\ depsLeft[c] = {}
  /\ ~changed[c]
  /\ pc' = [pc EXCEPT ![c] = "check"]
  /\ scopesLeft' = [scopesLeft EXCEPT ![c] = Requires[request[c]].scopes]
  /\ UNCHANGED <<store, claims, now, request, began, idsLeft, found, reasons, depsLeft,
                 dep, changed>>

\* Every required scope needs an item that supports claims at this moment.
CheckScope(c) ==
  /\ pc[c] = "check"
  /\ \E s \in scopesLeft[c] :
       /\ scopesLeft' = [scopesLeft EXCEPT ![c] = @ \ {s}]
       /\ reasons' = [reasons EXCEPT ![c] = @ \cup
            IF \E e \in found[c] : Profile[e].scope = s /\ CanSupport(e, now)
            THEN {} ELSE {Because("unsupported scope", s)}]
  /\ UNCHANGED <<store, claims, now, pc, request, began, idsLeft, found, depsLeft,
                 dep, changed>>

\* Variant: the claim names the evidence that was asked for, found or not.
CompiledAsAsked(c, why) ==
  LET want == Requires[request[c]] IN
  [request |-> request[c], supported |-> why = {}, reasons |-> why,
   evidence_ids |-> found[c] \cup (UNION Items[want.network]) \cup want.evidence,
   began |-> began[c], appended |-> [seq |-> lastSeq, time |-> now]]

\* The claim as compiled, and what it was compiled from.
Compiled(c, why) ==
  [request |-> request[c], supported |-> why = {}, reasons |-> why,
   evidence_ids |-> found[c], began |-> began[c],
   appended |-> [seq |-> lastSeq, time |-> now]]

AppendClaim(c, why) ==
  /\ claims' = Append(claims, Compiled(c, why))
  /\ pc' = [pc EXCEPT ![c] = "idle"]
  /\ reasons' = [reasons EXCEPT ![c] = {}]
  /\ found' = [found EXCEPT ![c] = {}]
  /\ dep' = [dep EXCEPT ![c] = NoDep]
  /\ UNCHANGED <<store, now, request, began, scopesLeft, idsLeft, depsLeft, changed>>

\* The TCB check, which reads neither the store nor the clock, and the append.
AppendChecked(c) ==
  LET lacking == {t \in Requires[request[c]].tcb :
                    \A e \in found[c] : t \notin Profile[e].attests} IN
  /\ pc[c] = "check"
  /\ scopesLeft[c] = {}
  /\ AppendClaim(c, reasons[c] \cup {Because("missing TCB", t) : t \in lacking})

\* An unsupported claim is stored too, for the audit.
AppendRejected(c) ==
  /\ pc[c] = "reject"
  /\ AppendClaim(c, reasons[c])

----------------------------------------------------------------------------
Compile(c) ==
  \/ NetworkMissing(c) \/ NetworkFound(c)
  \/ ListScope(c) \/ FetchPresent(c) \/ FetchMissing(c)
  \/ StartRound(c) \/ ResolveById(c) \/ ResolveByRef(c) \/ EndClosure(c)
  \/ CheckScope(c) \/ AppendChecked(c) \/ AppendRejected(c)

Environment ==
  \/ \E e \in Evidence : AddEvidence(e)
  \/ \E n \in Networks : RegisterNetwork(n)
  \/ Tick

Next ==
  \/ Environment
  \/ \E c \in Compilers :
       \/ \E r \in Requests : Begin(c, r)
       \/ Compile(c)

\* A compilation that has begun keeps running; nothing else has to happen.
Fairness == \A c \in Compilers : WF_vars(Compile(c))

Spec == Init /\ [][Next]_vars /\ Fairness

----------------------------------------------------------------------------
Names == Refs \cup {NoDep}
Moments == [seq : Nat, time : Nat]

CompiledClaims ==
  [request : Requests, supported : BOOLEAN, reasons : SUBSET Reasons,
   evidence_ids : SUBSET Evidence, began : Moments, appended : Moments]

TypeOK ==
  /\ obs \in [Evidence -> Nat]
  /\ lastSeq \in Nat
  /\ registered \subseteq Networks
  /\ claims \in Seq(CompiledClaims)
  /\ now \in Nat
  /\ pc \in [Compilers -> {"idle", "network", "gather", "close", "scan", "check", "reject"}]
  /\ request \in [Compilers -> Requests]
  /\ began \in [Compilers -> Moments]
  /\ scopesLeft \in [Compilers -> SUBSET Scopes]
  /\ idsLeft \in [Compilers -> SUBSET Refs]
  /\ found \in [Compilers -> SUBSET Evidence]
  /\ reasons \in [Compilers -> SUBSET Reasons]
  /\ depsLeft \in [Compilers -> SUBSET (Evidence \X Refs)]
  /\ dep \in [Compilers -> Names]
  /\ \A c \in Compilers : pc[c] = "scan" => dep[c] \in Refs
  /\ changed \in [Compilers -> BOOLEAN]

\* The ledger as it was when obs_seq had reached n.
StoredAt(n) == {e \in Stored : obs[e] <= n}

\* E names everything the request r and its network ask for, and everything
\* that the evidence in E depends on in turn.
Covers(E, r) ==
  /\ (UNION Items[Requires[r].network]) \cup Requires[r].evidence \subseteq E
  /\ \A e \in E : Profile[e].dependencies \subseteq KnownRefs(E)

\* No support, no certification (docs/theory_mapping.md).  A supported claim
\* rests on stored evidence that covers its network item by item, its request
\* and all dependencies, none of which was inactive or expired when the
\* compilation began; every required scope and TCB has its evidence in it.
\* However the reads of the compiler interleave with additions and time, no
\* obligation is lost between two of its steps.
Sound(k) ==
  LET want == Requires[k.request] IN
  /\ {} \notin Items[want.network]
  /\ Covers(k.evidence_ids, k.request)
  /\ \A e \in k.evidence_ids : CanSupport(e, k.began.time)
  /\ \A s \in want.scopes : \E e \in k.evidence_ids : Profile[e].scope = s
  /\ \A t \in want.tcb : \E e \in k.evidence_ids : t \in Profile[e].attests

SupportIsSound ==
  \A i \in DOMAIN claims :
    claims[i].supported => claims[i].evidence_ids \subseteq Stored /\ Sound(claims[i])

\* The reason why is true of the claim k, before which this evidence was stored.
Justified(k, why, before) ==
  LET x == why.about
      want == Requires[k.request] IN
  CASE why.kind = "network not found" -> x = want.network
    [] why.kind = "no evidence" -> x = want.network /\ {} \in Items[x]
    [] why.kind = "missing evidence" -> x \notin before
    [] why.kind = "expired" -> x \in k.evidence_ids /\ Expired(x, k.appended.time)
    [] why.kind = "inactive" ->
         /\ x \in k.evidence_ids
         /\ ~Expired(x, k.began.time) /\ ~CanSupport(x, k.appended.time)
    [] why.kind = "missing dependency" ->
         \A e \in before : x # e /\ x \notin Profile[e].external_refs
    [] why.kind = "unsupported scope" ->
         /\ x \in want.scopes
         /\ \A e \in before : Profile[e].scope = x => ~CanSupport(e, k.appended.time)
    [] why.kind = "missing TCB" ->
         x \in want.tcb /\ \A e \in k.evidence_ids : x \notin Profile[e].attests

\* A claim is refused only for what is really wrong: evidence that was stored
\* before the compilation began is never reported missing, evidence is reported
\* expired only if the claim names it and it was by the time of the answer, and
\* inactive only if it was not expired at first and could not support the claim by
\* the time of the answer (it may just have expired); nothing is reported that was
\* not asked for.
RefusalIsJustified ==
  \A i \in DOMAIN claims : \A why \in claims[i].reasons :
    Justified(claims[i], why, StoredAt(claims[i].began.seq))

----------------------------------------------------------------------------
(* Why SupportIsSound holds: what a compiler that has found nothing wrong    *)
(* so far has already established, at each point of its way.               *)

Asked(c) ==
  (UNION Items[Requires[request[c]].network]) \cup Requires[request[c]].evidence

\* Whatever was found is stored and was fit when the compilation began.
FoundIsFit(c) ==
  /\ began[c].time <= now
  /\ found[c] \subseteq Stored
  /\ pc[c] = "network" => found[c] = {}
  /\ pc[c] = "reject" => reasons[c] # {}
  /\ pc[c] \in {"gather", "close", "scan", "check"} /\ reasons[c] = {} =>
       /\ {} \notin Items[Requires[request[c]].network]
       /\ \A e \in found[c] : CanSupport(e, began[c].time)

\* Nothing that was asked for is forgotten: it is found or still to be fetched.
AskedIsKept(c) ==
  reasons[c] = {} =>
    /\ pc[c] = "gather" => Asked(c) \subseteq found[c] \cup idsLeft[c]
    /\ pc[c] \in {"close", "scan", "check"} => Asked(c) \subseteq found[c]

\* A dependency is answered to, still to be looked up in this round, being
\* looked up, or there will be another round.
DependencyIsKept(c, e, d) ==
  \/ d \in KnownRefs(found[c])
  \/ pc[c] # "check" /\ (<<e, d>> \in depsLeft[c] \/ changed[c])
  \/ pc[c] = "scan" /\ d = dep[c]

DependenciesAreKept(c) ==
  pc[c] \in {"close", "scan", "check"} /\ reasons[c] = {} =>
    \A e \in found[c] : \A d \in Profile[e].dependencies : DependencyIsKept(c, e, d)

ScopesAreKept(c) ==
  pc[c] = "check" /\ reasons[c] = {} =>
    \A s \in Requires[request[c]].scopes \ scopesLeft[c] :
      \E e \in found[c] : Profile[e].scope = s

Kept(c) ==
  FoundIsFit(c) /\ AskedIsKept(c) /\ DependenciesAreKept(c) /\ ScopesAreKept(c)

\* The inductive invariant behind SupportIsSound: no step of compile_claim,
\* whatever other processes do before it, loses track of an obligation.
ObligationsAreKept == \A c \in Compilers : Kept(c)

----------------------------------------------------------------------------
(* What compiling r from the ledger L at time t should give                *)

\* The evidence a reference stands for: the object of that id, else the first
\* one observed under it, else nothing.
Meaning(ref, L) ==
  LET carriers == {e \in L : ref \in Profile[e].external_refs} IN
  IF ref \in L THEN {ref}
  ELSE IF carriers = {} THEN {} ELSE {FirstObserved(carriers)}

Named(r, L) ==
  (UNION Items[Requires[r].network]) \cup Requires[r].evidence
    \cup {e \in L : Profile[e].scope \in Requires[r].scopes}

Meanings(L) == [ref \in Refs |-> Meaning(ref, L)]

\* What the dependencies in D lead to, and those that lead nowhere.
Brought(D, meaning) == UNION {meaning[p[2]] : p \in D}
Unresolved(D, meaning) == {p[2] : p \in {q \in D : meaning[q[2]] = {}}}

\* Rounds(S, meaning)[n]: the evidence after n rounds of looking up the
\* dependencies that are open when the round starts.
Round(S, meaning) == S \cup Brought(OpenDeps(S), meaning)

Rounds(S, meaning) ==
  LET after[n \in 0..Cardinality(Evidence)] ==
        IF n = 0 THEN S ELSE Round(after[n - 1], meaning)
  IN after

AfterRound(r, L) == Rounds(Named(r, L) \cap L, Meanings(L))

Closure(r, L) == AfterRound(r, L)[Cardinality(Evidence)]

\* The reasons against r: about what it names, the evidence found, its
\* dependencies, the scopes and the TCB it requires.
Each(kind, X) == {Because(kind, x) : x \in X}

NamingReasons(r, X, L) ==
  Each("no evidence", {n \in {Requires[r].network} : {} \in Items[n]})
    \cup Each("missing evidence", X \ L)

Flaws(E, t) ==
  Each("expired", {e \in E : Expired(e, t)})
    \cup Each("inactive", {e \in E : ~Expired(e, t) /\ ~CanSupport(e, t)})

OpenRefs(E) == {p[2] : p \in OpenDeps(E)}

DependencyReasons(X) == Each("missing dependency", X)

ScopeReasons(scopes, E, t) ==
  Each("unsupported scope",
       {s \in scopes : \A e \in E : Profile[e].scope = s => ~CanSupport(e, t)})

TcbReasons(tcbs, E) ==
  Each("missing TCB", {q \in tcbs : \A e \in E : q \notin Profile[e].attests})

RefReasons(r, L, t) ==
  LET E == Closure(r, L) IN
  NamingReasons(r, Named(r, L), L)
    \cup Flaws(E, t)
    \cup DependencyReasons(OpenRefs(E))
    \cup ScopeReasons(Requires[r].scopes, E, t)
    \cup TcbReasons(Requires[r].tcb, E)

IsExact(k, L) ==
  /\ k.evidence_ids = Closure(k.request, L)
  /\ k.reasons = RefReasons(k.request, L, k.began.time)

\* When nothing was added and no second passed while a claim was compiled, the
\* step-by-step closure gives what its definition gives: same evidence, same
\* reasons, in whatever order the steps were taken.
QuietCompileIsExact ==
  \A i \in DOMAIN claims :
    LET k == claims[i] IN
    k.began = k.appended /\ (\A w \in k.reasons : w.kind # "network not found") =>
      IsExact(k, StoredAt(k.began.seq))

----------------------------------------------------------------------------
\* Every compilation ends in an appended claim: the closure terminates also on
\* cyclic dependencies and while evidence is added under it.
EveryCompileEnds == \A c \in Compilers : pc[c] # "idle" ~> pc[c] = "idle"

\* README.md:39, docs/theory_mapping.md: the compiler is monotone.  Within one
\* second, a request that was supported on a ledger stays supported on a larger
\* one.
CompilerIsMonotone ==
  \A i, j \in DOMAIN claims :
    /\ i < j /\ claims[i].request = claims[j].request
    /\ claims[i].supported
    /\ claims[i].appended.time = claims[j].appended.time
    /\ claims[i].appended.seq < claims[j].began.seq
    => claims[j].supported
=============================================================================
