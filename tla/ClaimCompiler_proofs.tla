------------------------ MODULE ClaimCompiler_proofs ------------------------
(***************************************************************************)
(* Proofs about compile_claim for every catalog, any number of compilers   *)
(* and unbounded time: its state keeps its types; a supported claim is     *)
(* sound (SupportIsSound) and a refusal is justified (RefusalIsJustified)  *)
(* however its steps interleave with additions to the ledger and with the  *)
(* clock; and where nothing interferes the claim is the one its definition *)
(* gives (QuietCompileIsExact).                                            *)
(***************************************************************************)
EXTENDS ClaimCompiler, SumsAndFlows, SequenceTheorems, WellFoundedInduction, TLAPS

\* The first observed element of a nonempty set of evidence exists: this is
\* the item that list_evidence yields first.
LEMMA FirstObservedIsMember ==
  ASSUME obs \in [Evidence -> Nat], NEW S \in SUBSET Evidence, S # {}
  PROVE  FirstObserved(S) \in S
<1> DEFINE T == {obs[e] : e \in S}
           R == OpToRel(<, Nat)
<1>1. T \subseteq Nat /\ T # {}
  OBVIOUS
<1>2. IsWellFoundedOn(R, Nat)
  BY NatLessThanWellFounded
<1>3. PICK x \in T : \A y \in T : ~ (<<y, x>> \in R)
  <2> HIDE DEF T, R
  <2> QED BY <1>1, <1>2, WFMin
<1>4. \A y \in T : x <= y
  <2> SUFFICES ASSUME NEW y \in T PROVE ~(y < x)
    BY <1>1
  <2>1. y < x => <<y, x>> \in R
    BY <1>1 DEF OpToRel
  <2> QED BY <1>3, <2>1
<1>5. PICK e \in S : obs[e] = x
  OBVIOUS
<1>6. \A f \in S : obs[e] <= obs[f]
  BY <1>4, <1>5
<1> QED
  <2> HIDE DEF T
  <2> QED BY <1>6 DEF FirstObserved

----------------------------------------------------------------------------
(* Types                                                                   *)

\* Every reason the compiler writes down is a reason.
LEMMA ReasonsType ==
  /\ \A k \in ReasonKinds, x \in Refs \cup Networks \cup Scopes \cup Tcbs :
       Because(k, x) \in Reasons
  /\ \A e \in Evidence : \A t \in Nat : Doubts(e, t) \in SUBSET Reasons
<1>1. \A k \in ReasonKinds, x \in Refs \cup Networks \cup Scopes \cup Tcbs :
        Because(k, x) \in Reasons
  BY DEF Because, Reasons
<1>2. "expired" \in ReasonKinds /\ "inactive" \in ReasonKinds
  BY DEF ReasonKinds
<1> QED BY <1>1, <1>2, CatalogAssumption DEF Doubts

\* What the catalog says about a request, a network and an evidence object.
LEMMA CatalogType ==
  /\ \A r \in Requests :
       /\ Requires[r].network \in Networks
       /\ Requires[r].scopes \subseteq Scopes
       /\ Requires[r].evidence \subseteq Refs
       /\ Requires[r].tcb \subseteq Tcbs
       /\ UNION Items[Requires[r].network] \subseteq Refs
  /\ \A e \in Evidence :
       /\ Profile[e].dependencies \subseteq Refs
       /\ Profile[e].external_refs \subseteq Refs
       /\ Profile[e].attests \subseteq Tcbs
<1>1. \A r \in Requests : Requires[r] \in RequestFields
  BY CatalogAssumption
<1>2. \A e \in Evidence : Profile[e] \in Profiles
  BY CatalogAssumption
<1>3. \A n \in Networks : UNION Items[n] \subseteq Refs
  BY CatalogAssumption
<1> QED BY <1>1, <1>2, <1>3 DEF RequestFields, Profiles

\* The second reading of the clock is a time, and not before the first.
LEMMA LaterIsTime ==
  ASSUME now \in Nat, NEW t \in Later
  PROVE  t \in Nat /\ now <= t
BY DEF Later

\* A compilation keeps the types of its variables and of the claims.
LEMMA CompileKeepsTypes ==
  ASSUME TypeOK, NEW c \in Compilers, Compile(c)
  PROVE  TypeOK'
<1> USE DEF TypeOK, store
<1>1. CASE NetworkMissing(c)
  <2>1. Because("network not found", Requires[request[c]].network) \in Reasons
    BY ReasonsType, CatalogType DEF ReasonKinds
  <2> QED BY <1>1, <2>1 DEF NetworkMissing
<1>2. CASE NetworkFound(c)
  <2> DEFINE n == Requires[request[c]].network
  <2>1. n \in Networks /\ Because("no evidence", n) \in Reasons
    BY ReasonsType, CatalogType DEF ReasonKinds
  <2>2. (UNION Items[n]) \cup Requires[request[c]].evidence \in SUBSET Refs
    BY CatalogType
  <2>3. Requires[request[c]].scopes \in SUBSET Scopes
    BY CatalogType
  <2>4. (IF {} \in Items[n] THEN {Because("no evidence", n)} ELSE {}) \in SUBSET Reasons
    BY <2>1
  <2>5. reasons' \in [Compilers -> SUBSET Reasons]
    BY <1>2, <2>4 DEF NetworkFound
  <2>6. idsLeft' \in [Compilers -> SUBSET Refs]
    BY <1>2, <2>2 DEF NetworkFound
  <2>7. scopesLeft' \in [Compilers -> SUBSET Scopes]
    BY <1>2, <2>3 DEF NetworkFound
  <2>8. pc' = [pc EXCEPT ![c] = "gather"]
    BY <1>2 DEF NetworkFound
  <2> QED BY <1>2, <2>5, <2>6, <2>7, <2>8 DEF NetworkFound
<1>3. CASE ListScope(c)
  <2>1. PICK s \in scopesLeft[c] :
          /\ scopesLeft' = [scopesLeft EXCEPT ![c] = @ \ {s}]
          /\ idsLeft' = [idsLeft EXCEPT ![c] = @ \cup InScope(s)]
    BY <1>3 DEF ListScope
  <2>2. InScope(s) \subseteq Refs
    BY CatalogAssumption DEF InScope, Stored
  <2> QED BY <1>3, <2>1, <2>2 DEF ListScope
<1>4. CASE FetchPresent(c)
  <2>1. PICK e \in idsLeft[c] \cap Stored : \E then \in Later :
          /\ now' = then
          /\ idsLeft' = [idsLeft EXCEPT ![c] = @ \ {e}]
          /\ found' = [found EXCEPT ![c] = @ \cup {e}]
          /\ reasons' = [reasons EXCEPT ![c] = @ \cup Doubts(e, then)]
    BY <1>4 DEF FetchPresent
  <2> PICK then \in Later :
          /\ now' = then
          /\ idsLeft' = [idsLeft EXCEPT ![c] = @ \ {e}]
          /\ found' = [found EXCEPT ![c] = @ \cup {e}]
          /\ reasons' = [reasons EXCEPT ![c] = @ \cup Doubts(e, then)]
    BY <2>1
  <2>2. e \in Evidence /\ Doubts(e, then) \in SUBSET Reasons /\ then \in Nat
    BY ReasonsType, LaterIsTime DEF Stored
  <2> QED BY <1>4, <2>2 DEF FetchPresent
<1>5. CASE FetchMissing(c)
  <2>1. PICK x \in idsLeft[c] :
          /\ idsLeft' = [idsLeft EXCEPT ![c] = @ \ {x}]
          /\ reasons' = [reasons EXCEPT ![c] = @ \cup {Because("missing evidence", x)}]
    BY <1>5 DEF FetchMissing
  <2>2. Because("missing evidence", x) \in Reasons
    BY ReasonsType DEF ReasonKinds
  <2> QED BY <1>5, <2>1, <2>2, ZenonT(60) DEF FetchMissing
<1>6. CASE StartRound(c)
  <2>1. OpenDeps(found[c]) \in SUBSET (Evidence \X Refs)
    BY DEF OpenDeps
  <2> QED BY <1>6, <2>1 DEF StartRound
<1>7. CASE ResolveById(c)
  <2>1. PICK p \in depsLeft[c] :
          /\ depsLeft' = [depsLeft EXCEPT ![c] = @ \ {p}]
          /\ IF p[2] \in Stored
             THEN Adopt(c, p[2]) /\ UNCHANGED dep
             ELSE /\ pc' = [pc EXCEPT ![c] = "scan"]
                  /\ dep' = [dep EXCEPT ![c] = p[2]]
                  /\ UNCHANGED <<found, reasons, changed, now>>
    BY <1>7 DEF ResolveById
  <2>2. p[2] \in Refs /\ p[2] \in Names
    BY DEF Names
  <2>3. CASE p[2] \in Stored
    <3>1. p[2] \in Evidence
      BY <2>3 DEF Stored
    <3>2. Adopt(c, p[2]) /\ UNCHANGED dep
      BY <2>1, <2>3
    <3> DEFINE e == p[2]
    <3> HIDE DEF e
    <3>3. e \in Evidence /\ Adopt(c, e)
      BY <3>1, <3>2 DEF e
    <3>4. PICK then \in Later :
            now' = then /\ reasons' = [reasons EXCEPT ![c] = @ \cup Doubts(e, then)]
      BY <3>3 DEF Adopt
    <3>5. Doubts(e, then) \in SUBSET Reasons /\ then \in Nat
      BY <3>3, ReasonsType, LaterIsTime
    <3> QED BY <1>7, <2>1, <3>2, <3>3, <3>4, <3>5 DEF ResolveById, Adopt
  <2>4. CASE p[2] \notin Stored
    <3>1. /\ pc' = [pc EXCEPT ![c] = "scan"]
          /\ dep' = [dep EXCEPT ![c] = p[2]]
          /\ UNCHANGED <<found, reasons, changed, now>>
      BY <2>1, <2>4
    <3>2. \A d \in Compilers : pc'[d] = "scan" => dep'[d] \in Refs
      BY <2>2, <3>1
    <3>3. dep' \in [Compilers -> Names]
      BY <2>2, <3>1
    <3> QED BY <1>7, <2>1, <3>1, <3>2, <3>3 DEF ResolveById
  <2> QED BY <2>3, <2>4
<1>8. CASE ResolveByRef(c)
  <2>1. pc[c] = "scan" /\ dep[c] \in Refs
    BY <1>8 DEF ResolveByRef
  <2>2. CASE Carriers(dep[c]) # {}
    <3> DEFINE e == FirstObserved(Carriers(dep[c]))
    <3>1. e \in Evidence
      <4>1. Carriers(dep[c]) \in SUBSET Evidence
        BY DEF Carriers, Stored
      <4> QED BY <2>2, <4>1, FirstObservedIsMember
    <3>2. Adopt(c, e)
      BY <1>8, <2>2 DEF ResolveByRef
    <3> HIDE DEF e
    <3>3. PICK then \in Later :
            now' = then /\ reasons' = [reasons EXCEPT ![c] = @ \cup Doubts(e, then)]
      BY <3>2 DEF Adopt
    <3>4. Doubts(e, then) \in SUBSET Reasons /\ then \in Nat
      BY <3>1, ReasonsType, LaterIsTime
    <3> QED BY <1>8, <3>1, <3>2, <3>3, <3>4 DEF ResolveByRef, Adopt
  <2>3. CASE Carriers(dep[c]) = {}
    <3>1. Because("missing dependency", dep[c]) \in Reasons
      BY <2>1, ReasonsType DEF ReasonKinds
    <3>2. /\ reasons' = [reasons EXCEPT ![c] =
                            @ \cup {Because("missing dependency", dep[c])}]
          /\ pc' = [pc EXCEPT ![c] = "close"]
          /\ UNCHANGED <<found, changed, now>>
      BY <1>8, <2>3 DEF ResolveByRef
    <3>3. reasons' \in [Compilers -> SUBSET Reasons]
      BY <3>1, <3>2
    <3> QED BY <1>8, <3>2, <3>3 DEF ResolveByRef
  <2> QED BY <2>2, <2>3
<1>9. CASE EndClosure(c)
  <2>1. Requires[request[c]].scopes \in SUBSET Scopes
    BY CatalogType
  <2> QED BY <1>9, <2>1 DEF EndClosure
<1>10. CASE CheckScope(c)
  <2>1. PICK s \in scopesLeft[c] :
          /\ scopesLeft' = [scopesLeft EXCEPT ![c] = @ \ {s}]
          /\ reasons' = [reasons EXCEPT ![c] = @ \cup
                IF \E e \in found[c] : Profile[e].scope = s /\ CanSupport(e, now)
                THEN {} ELSE {Because("unsupported scope", s)}]
    BY <1>10 DEF CheckScope
  <2>2. Because("unsupported scope", s) \in Reasons
    BY ReasonsType DEF ReasonKinds
  <2>3. reasons' \in [Compilers -> SUBSET Reasons]
    <3>1. PICK W \in SUBSET Reasons : reasons' = [reasons EXCEPT ![c] = @ \cup W]
      BY <2>1, <2>2
    <3> QED BY <3>1
  <2>4. scopesLeft' \in [Compilers -> SUBSET Scopes]
    BY <2>1
  <2> QED BY <1>10, <2>3, <2>4 DEF CheckScope
<1>11. ASSUME NEW why \in SUBSET Reasons, AppendClaim(c, why)
       PROVE  TypeOK'
  <2>1. Compiled(c, why) \in CompiledClaims
    BY DEF Compiled, CompiledClaims, Moments
  <2>2. claims' \in Seq(CompiledClaims)
    BY <1>11, <2>1 DEF AppendClaim
  <2> QED BY <1>11, <2>2 DEF AppendClaim, Names
<1>12. CASE AppendChecked(c)
  <2> DEFINE lacking == {t \in Requires[request[c]].tcb :
                           \A e \in found[c] : t \notin Profile[e].attests}
             why == reasons[c] \cup {Because("missing TCB", t) : t \in lacking}
  <2>1. \A t \in lacking : Because("missing TCB", t) \in Reasons
    BY CatalogType, ReasonsType DEF ReasonKinds
  <2>2. why \in SUBSET Reasons
    BY <2>1
  <2>3. AppendClaim(c, why)
    BY <1>12 DEF AppendChecked
  <2> QED BY <1>11, <2>2, <2>3
<1>13. CASE AppendRejected(c)
  BY <1>11, <1>13 DEF AppendRejected
<1> QED
  BY <1>1, <1>2, <1>3, <1>4, <1>5, <1>6, <1>7, <1>8, <1>9, <1>10, <1>12, <1>13 DEF Compile

\* So does every step.
LEMMA NextKeepsTypes == TypeOK /\ [Next]_vars => TypeOK'
<1> SUFFICES ASSUME TypeOK, [Next]_vars PROVE TypeOK'
  OBVIOUS
<1> USE DEF TypeOK, store, job
<1>1. ASSUME NEW e \in Evidence, AddEvidence(e) PROVE TypeOK'
  BY <1>1 DEF AddEvidence
<1>2. ASSUME NEW n \in Networks, RegisterNetwork(n) PROVE TypeOK'
  BY <1>2 DEF RegisterNetwork
<1>3. CASE Tick
  BY <1>3 DEF Tick
<1>4. ASSUME NEW c \in Compilers, NEW r \in Requests, Begin(c, r) PROVE TypeOK'
  <2>1. [seq |-> lastSeq, time |-> now] \in Moments
    BY DEF Moments
  <2>2. began' \in [Compilers -> Moments]
    BY <1>4, <2>1 DEF Begin
  <2> QED BY <1>4, <2>2 DEF Begin
<1>5. ASSUME NEW c \in Compilers, Compile(c) PROVE TypeOK'
  BY <1>5, CompileKeepsTypes
<1>6. CASE UNCHANGED vars
  BY <1>6 DEF vars
<1> QED BY <1>1, <1>2, <1>3, <1>4, <1>5, <1>6 DEF Next, Environment

\* The initial state has its types.
LEMMA InitHasTypes == Init => TypeOK
<1> SUFFICES ASSUME Init PROVE TypeOK
  OBVIOUS
<1>1. (CHOOSE r \in Requests : TRUE) \in Requests
  BY CatalogAssumption
<1>2. <<>> \in Seq(CompiledClaims)
  OBVIOUS
<1>3. [seq |-> 0, time |-> 0] \in Moments
  BY DEF Moments
<1> QED BY <1>1, <1>2, <1>3 DEF Init, TypeOK, Names

\* The state of compile_claim keeps its types, for every catalog and however
\* long the clock and the ledger run.
THEOREM TypeCorrectness == Spec => []TypeOK
BY InitHasTypes, NextKeepsTypes, PTL DEF Spec

----------------------------------------------------------------------------
(* Soundness of support                                                    *)

\* What could support a claim at t could support it at any earlier time.
LEMMA SupportIsAntitone ==
  ASSUME NEW e \in Evidence, NEW t \in Nat, NEW u \in Nat, u <= t, CanSupport(e, t)
  PROVE  CanSupport(e, u)
<1>1. Profile[e].expiry \in Nat \cup {Never}
  BY CatalogAssumption DEF Profiles
<1> QED BY <1>1 DEF CanSupport, Expired

\* Evidence about which there is no doubt supports claims at the second reading
\* of the clock, and so did when the compilation began.
LEMMA NoDoubtIsFit ==
  ASSUME TypeOK, NEW c \in Compilers, began[c].time <= now,
         NEW e \in Evidence, NEW then \in Later, Doubts(e, then) = {}
  PROVE  CanSupport(e, began[c].time)
<1>1. CanSupport(e, then)
  BY DEF Doubts
<1>2. now \in Nat /\ began[c].time \in Nat
  BY DEF TypeOK, Moments
<1>3. then \in Nat /\ began[c].time <= then
  BY <1>2, LaterIsTime
<1> QED BY <1>1, <1>2, <1>3, SupportIsAntitone

\* Evidence is never removed and time does not go back.
LEMMA LedgerGrows ==
  ASSUME TypeOK, [Next]_vars
  PROVE  Stored \subseteq Stored' /\ now <= now'
<1> USE DEF TypeOK, Stored, store, job
<1>1. ASSUME NEW e \in Evidence, AddEvidence(e) PROVE Stored \subseteq Stored' /\ now <= now'
  BY <1>1 DEF AddEvidence
<1>2. CASE Tick
  BY <1>2 DEF Tick
<1>3. CASE UNCHANGED <<obs, now>>
  BY <1>3
<1>4. ASSUME NEW c \in Compilers, Compile(c) PROVE obs' = obs /\ now <= now'
  <2>1. now \in Nat /\ \A t \in Later : now <= t
    BY LaterIsTime
  <2>2. ASSUME NEW e, Adopt(c, e) PROVE now <= now'
    BY <2>1, <2>2 DEF Adopt
  <2>3. CASE FetchPresent(c) \/ ResolveById(c) \/ ResolveByRef(c)
    <3>1. CASE FetchPresent(c)
      BY <2>1, <3>1 DEF FetchPresent
    <3>2. CASE ResolveById(c)
      <4>1. (\E e : Adopt(c, e)) \/ now' = now
        BY <3>2 DEF ResolveById
      <4>2. obs' = obs
        BY <3>2 DEF ResolveById
      <4> QED BY <2>1, <2>2, <4>1, <4>2
    <3>3. CASE ResolveByRef(c)
      <4>1. (\E e : Adopt(c, e)) \/ now' = now
        BY <3>3 DEF ResolveByRef
      <4>2. obs' = obs
        BY <3>3 DEF ResolveByRef
      <4> QED BY <2>1, <2>2, <4>1, <4>2
    <3> QED BY <2>3, <3>1, <3>2, <3>3
  <2>4. CASE UNCHANGED <<obs, now>>
    BY <2>1, <2>4
  <2>5. ASSUME ~FetchPresent(c), ~ResolveById(c), ~ResolveByRef(c) PROVE UNCHANGED <<obs, now>>
    BY <1>4, <2>5 DEF Compile, NetworkMissing, NetworkFound, ListScope, FetchMissing,
       StartRound, EndClosure, CheckScope, AppendChecked, AppendRejected, AppendClaim
  <2> QED BY <2>3, <2>4, <2>5
<1> QED BY <1>1, <1>2, <1>3, <1>4 DEF Next, Environment, RegisterNetwork, Begin, vars

JobOf(c) ==
  <<pc[c], request[c], began[c], scopesLeft[c], idsLeft[c], found[c], reasons[c],
    depsLeft[c], dep[c], changed[c]>>

\* A compiler that does not move keeps track of what it had kept track of.
LEMMA UnmovedKeeps ==
  ASSUME TypeOK, NEW c \in Compilers, Kept(c), JobOf(c)' = JobOf(c),
         Stored \subseteq Stored', now <= now', now' \in Nat
  PROVE  Kept(c)'
<1> USE DEF JobOf
<1>1. FoundIsFit(c)'
  <2>1. began[c].time <= now'
    BY DEF Kept, FoundIsFit, TypeOK, Moments
  <2> QED BY <2>1 DEF Kept, FoundIsFit, CanSupport, Expired
<1>2. AskedIsKept(c)'
  BY DEF Kept, AskedIsKept, Asked
<1>3. DependenciesAreKept(c)'
  BY DEF Kept, DependenciesAreKept, DependencyIsKept, KnownRefs
<1>4. ScopesAreKept(c)'
  BY DEF Kept, ScopesAreKept
<1> QED BY <1>1, <1>2, <1>3, <1>4 DEF Kept

\* Adopting a dependency keeps track: the evidence is doubted or fit, and
\* there will be another round.
LEMMA AdoptKeeps ==
  ASSUME TypeOK, NEW c \in Compilers, Kept(c), pc[c] \in {"close", "scan"},
         NEW e \in Stored, Adopt(c, e),
         UNCHANGED <<obs, request, began, scopesLeft>>
  PROVE  Kept(c)'
<1> USE DEF TypeOK
<1> PICK then \in Later :
      now' = then /\ reasons' = [reasons EXCEPT ![c] = @ \cup Doubts(e, then)]
  BY DEF Adopt
<1>1. /\ e \in Evidence
      /\ found'[c] = found[c] \cup {e}
      /\ reasons'[c] = reasons[c] \cup Doubts(e, then)
      /\ pc'[c] = "close" /\ changed'[c]
  BY DEF Adopt, Stored
<1>2. FoundIsFit(c)'
  <2>1. reasons'[c] = {} => reasons[c] = {} /\ CanSupport(e, began[c].time)
    BY <1>1, NoDoubtIsFit DEF Kept, FoundIsFit
  <2>2. began[c].time <= now'
    BY LaterIsTime DEF Kept, FoundIsFit, Moments
  <2> QED BY <1>1, <2>1, <2>2 DEF Kept, FoundIsFit, Stored, CanSupport, Expired
<1>3. AskedIsKept(c)'
  BY <1>1 DEF Kept, AskedIsKept, Asked
<1>4. DependenciesAreKept(c)' /\ ScopesAreKept(c)'
  BY <1>1 DEF DependenciesAreKept, DependencyIsKept, ScopesAreKept
<1> QED BY <1>2, <1>3, <1>4 DEF Kept

\* No step of a compilation loses track of an obligation.
LEMMA CompileKeepsTrack ==
  ASSUME TypeOK, NEW c \in Compilers, Kept(c), Compile(c)
  PROVE  Kept(c)'
<1> USE DEF TypeOK, store
<1>1. CASE NetworkMissing(c)
  BY <1>1 DEF NetworkMissing, Kept, FoundIsFit, AskedIsKept, DependenciesAreKept,
              ScopesAreKept, Stored
<1>2. CASE NetworkFound(c)
  <2>1. /\ pc[c] = "network" /\ pc'[c] = "gather"
        /\ UNCHANGED <<obs, now, request, began, found>>
        /\ idsLeft'[c] = Asked(c)
        /\ reasons'[c] = {} => {} \notin Items[Requires[request[c]].network]
    BY <1>2 DEF NetworkFound, Asked
  <2> QED BY <2>1 DEF Kept, FoundIsFit, AskedIsKept, Asked, DependenciesAreKept,
                      ScopesAreKept, Stored
<1>3. CASE ListScope(c)
  <2>1. /\ pc[c] = "gather" /\ idsLeft[c] \subseteq idsLeft'[c]
        /\ UNCHANGED <<obs, now, pc, request, began, found, reasons>>
    BY <1>3 DEF ListScope
  <2> QED BY <2>1 DEF Kept, FoundIsFit, AskedIsKept, Asked, DependenciesAreKept,
                      ScopesAreKept, Stored, CanSupport, Expired
<1>4. CASE FetchPresent(c)
  <2>1. PICK e \in idsLeft[c] \cap Stored, then \in Later :
          /\ now' = then
          /\ idsLeft'[c] = idsLeft[c] \ {e}
          /\ found'[c] = found[c] \cup {e}
          /\ reasons'[c] = reasons[c] \cup Doubts(e, then)
    BY <1>4 DEF FetchPresent
  <2>2. /\ pc[c] = "gather"
        /\ UNCHANGED <<obs, pc, request, began>>
    BY <1>4 DEF FetchPresent
  <2>3. reasons'[c] = {} => reasons[c] = {} /\ CanSupport(e, began[c].time)
    BY <2>1, NoDoubtIsFit, SMTT(30) DEF Kept, FoundIsFit, Stored
  <2>6. began[c].time <= now'
    BY <2>1, LaterIsTime DEF Kept, FoundIsFit, Moments
  <2>4. FoundIsFit(c)'
    BY <2>1, <2>2, <2>3, <2>6 DEF Kept, FoundIsFit, Stored, CanSupport, Expired
  <2>5. AskedIsKept(c)'
    BY <2>1, <2>2, <2>3 DEF Kept, AskedIsKept, Asked
  <2> QED BY <2>2, <2>4, <2>5 DEF Kept, DependenciesAreKept, ScopesAreKept
<1>5. CASE FetchMissing(c)
  <2>1. /\ pc[c] = "gather" /\ reasons'[c] # {}
        /\ UNCHANGED <<obs, now, pc, request, began, found>>
    BY <1>5, ZenonT(60) DEF FetchMissing
  <2> QED BY <2>1 DEF Kept, FoundIsFit, AskedIsKept, DependenciesAreKept,
                      ScopesAreKept, Stored
<1>6. CASE StartRound(c)
  <2>1. /\ pc'[c] = "close" /\ depsLeft'[c] = OpenDeps(found[c])
        /\ (pc[c] = "gather" /\ idsLeft[c] = {}) \/ pc[c] = "close"
        /\ UNCHANGED <<obs, now, request, began, found, reasons>>
    BY <1>6 DEF StartRound
  <2>2. FoundIsFit(c)' /\ AskedIsKept(c)'
    BY <2>1 DEF Kept, FoundIsFit, AskedIsKept, Asked, Stored, CanSupport, Expired
  <2>3. DependenciesAreKept(c)'
    <3> SUFFICES ASSUME NEW e \in found[c], NEW d \in Profile[e].dependencies
                 PROVE  DependencyIsKept(c, e, d)'
      BY <2>1 DEF DependenciesAreKept
    <3>1. d \in Refs
      BY CatalogType
    <3>2. d \in KnownRefs(found[c]) \/ <<e, d>> \in OpenDeps(found[c])
      BY <3>1 DEF OpenDeps
    <3>3. KnownRefs(found[c])' = KnownRefs(found[c])
      BY <2>1 DEF KnownRefs
    <3>4. pc'[c] # "check"
      BY <2>1
    <3> QED BY <2>1, <3>2, <3>3, <3>4 DEF DependencyIsKept
  <2> QED BY <2>1, <2>2, <2>3 DEF Kept, ScopesAreKept
<1>7. CASE ResolveById(c)
  <2>1. PICK p \in depsLeft[c] :
          /\ depsLeft' = [depsLeft EXCEPT ![c] = @ \ {p}]
          /\ IF p[2] \in Stored
             THEN Adopt(c, p[2]) /\ UNCHANGED dep
             ELSE /\ pc' = [pc EXCEPT ![c] = "scan"]
                  /\ dep' = [dep EXCEPT ![c] = p[2]]
                  /\ UNCHANGED <<found, reasons, changed, now>>
    BY <1>7 DEF ResolveById
  <2>2. pc[c] = "close" /\ UNCHANGED <<obs, request, began, scopesLeft>>
    BY <1>7 DEF ResolveById
  <2>3. CASE p[2] \in Stored
    BY <2>1, <2>2, <2>3, AdoptKeeps
  <2>4. CASE p[2] \notin Stored
    <3>1. /\ depsLeft'[c] = depsLeft[c] \ {p} /\ pc'[c] = "scan" /\ dep'[c] = p[2]
          /\ UNCHANGED <<found, reasons, changed, now>>
      BY <2>1, <2>4
    <3>2. FoundIsFit(c)' /\ AskedIsKept(c)' /\ ScopesAreKept(c)'
      BY <2>2, <3>1 DEF Kept, FoundIsFit, AskedIsKept, Asked, ScopesAreKept, Stored,
                        CanSupport, Expired
    <3>3. DependenciesAreKept(c)'
      <4> SUFFICES ASSUME reasons[c] = {},
                          NEW e \in found[c], NEW d \in Profile[e].dependencies
                   PROVE  DependencyIsKept(c, e, d)'
        BY <3>1 DEF DependenciesAreKept
      <4>1. DependencyIsKept(c, e, d)
        BY <2>2 DEF Kept, DependenciesAreKept
      <4>2. <<e, d>> = p => d = p[2]
        OBVIOUS
      <4> QED BY <2>2, <3>1, <4>1, <4>2 DEF DependencyIsKept, KnownRefs
    <3> QED BY <3>2, <3>3 DEF Kept
  <2> QED BY <2>3, <2>4
<1>8. CASE ResolveByRef(c)
  <2>1. /\ pc[c] = "scan"
        /\ UNCHANGED <<obs, request, began, scopesLeft>>
    BY <1>8 DEF ResolveByRef
  <2>2. CASE Carriers(dep[c]) # {}
    <3>1. Carriers(dep[c]) \in SUBSET Evidence /\ Carriers(dep[c]) \subseteq Stored
      BY DEF Carriers, Stored
    <3>2. FirstObserved(Carriers(dep[c])) \in Stored
      BY <2>2, <3>1, FirstObservedIsMember
    <3>3. Adopt(c, FirstObserved(Carriers(dep[c])))
      BY <1>8, <2>2 DEF ResolveByRef
    <3> QED BY <2>1, <3>2, <3>3, AdoptKeeps
  <2>3. CASE Carriers(dep[c]) = {}
    <3>1. pc'[c] = "close" /\ UNCHANGED <<found, now>>
      BY <1>8, <2>3 DEF ResolveByRef
    <3>2. reasons'[c] = reasons[c] \cup {Because("missing dependency", dep[c])}
      BY <1>8, <2>3 DEF ResolveByRef
    <3>3. reasons'[c] # {}
      BY <3>2
    <3> QED BY <2>1, <3>1, <3>3 DEF Kept, FoundIsFit, AskedIsKept, DependenciesAreKept,
                                    ScopesAreKept, Stored
  <2> QED BY <2>2, <2>3
<1>9. CASE EndClosure(c)
  <2>1. /\ pc[c] = "close" /\ pc'[c] = "check" /\ depsLeft[c] = {} /\ ~changed[c]
        /\ scopesLeft'[c] = Requires[request[c]].scopes
        /\ UNCHANGED <<obs, now, request, began, found, reasons>>
    BY <1>9 DEF EndClosure
  <2>2. FoundIsFit(c)' /\ AskedIsKept(c)' /\ ScopesAreKept(c)'
    BY <2>1 DEF Kept, FoundIsFit, AskedIsKept, Asked, ScopesAreKept, Stored,
                CanSupport, Expired
  <2>3. DependenciesAreKept(c)'
    BY <2>1 DEF Kept, DependenciesAreKept, DependencyIsKept, KnownRefs
  <2> QED BY <2>2, <2>3 DEF Kept
<1>10. CASE CheckScope(c)
  <2>1. PICK s \in scopesLeft[c] :
          /\ scopesLeft' = [scopesLeft EXCEPT ![c] = @ \ {s}]
          /\ reasons' = [reasons EXCEPT ![c] = @ \cup
                IF \E e \in found[c] : Profile[e].scope = s /\ CanSupport(e, now)
                THEN {} ELSE {Because("unsupported scope", s)}]
    BY <1>10 DEF CheckScope
  <2>2. /\ pc[c] = "check"
        /\ UNCHANGED <<obs, now, pc, request, began, found, depsLeft, dep, changed>>
    BY <1>10 DEF CheckScope
  <2>3. reasons'[c] = {} => reasons[c] = {} /\ \E e \in found[c] : Profile[e].scope = s
    BY <2>1
  <2>4. FoundIsFit(c)' /\ AskedIsKept(c)' /\ DependenciesAreKept(c)'
    BY <2>2, <2>3 DEF Kept, FoundIsFit, AskedIsKept, Asked, DependenciesAreKept,
         DependencyIsKept, KnownRefs, Stored, CanSupport, Expired
  <2>5. ScopesAreKept(c)'
    BY <2>1, <2>2, <2>3 DEF Kept, ScopesAreKept
  <2> QED BY <2>4, <2>5 DEF Kept
<1>11. ASSUME NEW why, AppendClaim(c, why) PROVE Kept(c)'
  BY <1>11 DEF AppendClaim, Kept, FoundIsFit, AskedIsKept, DependenciesAreKept,
               ScopesAreKept, Stored
<1>12. CASE AppendChecked(c) \/ AppendRejected(c)
  BY <1>11, <1>12 DEF AppendChecked, AppendRejected
<1> QED
  BY <1>1, <1>2, <1>3, <1>4, <1>5, <1>6, <1>7, <1>8, <1>9, <1>10, <1>12 DEF Compile

\* The compiler that runs does not touch the others.
LEMMA OthersDoNotMove ==
  ASSUME TypeOK, NEW c \in Compilers, NEW d \in Compilers \ {c}, Compile(d)
  PROVE  JobOf(c)' = JobOf(c)
<1> USE DEF JobOf, TypeOK
<1>1. ASSUME NEW why, AppendClaim(d, why) PROVE JobOf(c)' = JobOf(c)
  BY <1>1 DEF AppendClaim
<1>2. ASSUME NEW e, Adopt(d, e)
      PROVE  UNCHANGED <<pc[c], found[c], reasons[c], changed[c]>>
  BY <1>2 DEF Adopt
<1>3. CASE NetworkMissing(d) \/ NetworkFound(d) \/ ListScope(d)
  BY <1>3 DEF NetworkMissing, NetworkFound, ListScope
<1>4. CASE FetchPresent(d) \/ FetchMissing(d) \/ StartRound(d)
  BY <1>4 DEF FetchPresent, FetchMissing, StartRound
<1>5. CASE ResolveById(d)
  BY <1>2, <1>5 DEF ResolveById
<1>6. CASE ResolveByRef(d)
  BY <1>2, <1>6 DEF ResolveByRef
<1>7. CASE EndClosure(d) \/ CheckScope(d)
  BY <1>7 DEF EndClosure, CheckScope
<1>8. CASE AppendChecked(d) \/ AppendRejected(d)
  BY <1>1, <1>8 DEF AppendChecked, AppendRejected
<1> QED BY <1>3, <1>4, <1>5, <1>6, <1>7, <1>8 DEF Compile

\* Nor does any step of anybody.
LEMMA StepKeepsTrack ==
  TypeOK /\ ObligationsAreKept /\ [Next]_vars => ObligationsAreKept'
<1> SUFFICES ASSUME TypeOK, ObligationsAreKept, [Next]_vars, NEW c \in Compilers
             PROVE  Kept(c)'
  BY DEF ObligationsAreKept
<1>1. Kept(c)
  BY DEF ObligationsAreKept
<1>2. Stored \subseteq Stored' /\ now <= now' /\ TypeOK'
  BY LedgerGrows, NextKeepsTypes
<1>3. now' \in Nat
  BY <1>2 DEF TypeOK
<1>4. CASE Compile(c)
  BY <1>1, <1>4, CompileKeepsTrack
<1>5. ASSUME NEW r \in Requests, Begin(c, r) PROVE Kept(c)'
  <2>1. /\ pc'[c] = "network" /\ found'[c] = {} /\ now' = now
        /\ began'[c] = [seq |-> lastSeq, time |-> now]
    BY <1>5 DEF Begin, TypeOK
  <2> QED BY <1>3, <2>1 DEF Kept, FoundIsFit, AskedIsKept, DependenciesAreKept, ScopesAreKept
<1>6. CASE JobOf(c)' = JobOf(c)
  BY <1>1, <1>2, <1>3, <1>6, UnmovedKeeps
<1>7. ASSUME NEW d \in Compilers \ {c}, NEW r \in Requests, Begin(d, r)
      PROVE  JobOf(c)' = JobOf(c)
  BY <1>7 DEF Begin, JobOf, TypeOK
<1>8. ASSUME NEW d \in Compilers \ {c}, Compile(d)
      PROVE  JobOf(c)' = JobOf(c)
  BY <1>8, OthersDoNotMove
<1>9. Environment \/ UNCHANGED vars => JobOf(c)' = JobOf(c)
  BY DEF Environment, AddEvidence, RegisterNetwork, Tick, JobOf, job, vars
<1> QED BY <1>4, <1>5, <1>6, <1>7, <1>8, <1>9 DEF Next

\* The claim appended by a compiler that has nothing to say against it is sound.
LEMMA AppendedIsSound ==
  ASSUME TypeOK, NEW c \in Compilers, Kept(c), AppendChecked(c),
         NEW why, why = {},
         reasons[c] = {},
         \A t \in Requires[request[c]].tcb : \E e \in found[c] : t \in Profile[e].attests
  PROVE  found[c] \subseteq Stored /\ Sound(Compiled(c, why))
<1> DEFINE k == Compiled(c, why)
<1>1. /\ k.request = request[c] /\ k.evidence_ids = found[c] /\ k.began = began[c]
  BY DEF Compiled
<1>2. pc[c] = "check" /\ scopesLeft[c] = {}
  BY DEF AppendChecked
<1>3. Covers(found[c], request[c])
  <2>1. Asked(c) \subseteq found[c]
    BY <1>2 DEF Kept, AskedIsKept
  <2>2. \A e \in found[c] : \A d \in Profile[e].dependencies : DependencyIsKept(c, e, d)
    BY <1>2 DEF Kept, DependenciesAreKept
  <2>3. \A e \in found[c] : \A d \in Profile[e].dependencies : d \in KnownRefs(found[c])
    BY <1>2, <2>2 DEF DependencyIsKept
  <2> QED BY <2>1, <2>3 DEF Asked, Covers
<1> HIDE DEF k
<1>4. Sound(k)
  BY <1>1, <1>2, <1>3 DEF Kept, FoundIsFit, ScopesAreKept, Sound
<1>5. found[c] \subseteq Stored
  BY DEF Kept, FoundIsFit
<1> QED BY <1>4, <1>5 DEF k

\* Soundness of all stored claims is preserved: a step that appends a
\* supported claim appends a sound one.
LEMMA StepKeepsSound ==
  TypeOK /\ ObligationsAreKept /\ SupportIsSound /\ [Next]_vars => SupportIsSound'
<1> SUFFICES ASSUME TypeOK, ObligationsAreKept, SupportIsSound, [Next]_vars
             PROVE  SupportIsSound'
  OBVIOUS
<1>1. Stored \subseteq Stored'
  BY LedgerGrows
<1>2. CASE UNCHANGED claims
  BY <1>1, <1>2 DEF SupportIsSound
<1>3. ASSUME NEW c \in Compilers, NEW why, AppendClaim(c, why),
             why = {} => found[c] \subseteq Stored /\ Sound(Compiled(c, why))
      PROVE  SupportIsSound'
  <2> SUFFICES ASSUME NEW i \in DOMAIN claims', claims'[i].supported
               PROVE  claims'[i].evidence_ids \subseteq Stored' /\ Sound(claims'[i])
    BY DEF SupportIsSound
  <2>1. claims' = Append(claims, Compiled(c, why)) /\ claims \in Seq(CompiledClaims)
    BY <1>3 DEF AppendClaim, TypeOK
  <2>2. CASE i \in DOMAIN claims
    <3>1. claims'[i] = claims[i]
      BY <2>1, <2>2
    <3> QED BY <1>1, <2>2, <3>1 DEF SupportIsSound
  <2>3. CASE i \notin DOMAIN claims
    <3>1. claims'[i] = Compiled(c, why)
      <4>1. DOMAIN claims = 1..Len(claims) /\ Len(claims) \in Nat
        BY <2>1
      <4>2. i = Len(claims) + 1
        BY <2>1, <2>3, <4>1
      <4> QED BY <2>1, <4>1, <4>2
    <3>2. why = {} /\ claims'[i].evidence_ids = found[c]
      <4>1. Compiled(c, why).supported <=> why = {}
        BY Zenon DEF Compiled
      <4>2. Compiled(c, why).evidence_ids = found[c]
        BY DEF Compiled
      <4>3. Compiled(c, why).supported
        BY <3>1
      <4> QED BY <3>1, <4>1, <4>2, <4>3
    <3> QED BY <1>1, <1>3, <3>1, <3>2
  <2> QED BY <2>2, <2>3
<1>4. ASSUME NEW c \in Compilers, AppendChecked(c) PROVE SupportIsSound'
  <2> DEFINE lacking == {t \in Requires[request[c]].tcb :
                           \A e \in found[c] : t \notin Profile[e].attests}
             why == reasons[c] \cup {Because("missing TCB", t) : t \in lacking}
  <2>1. AppendClaim(c, why)
    BY <1>4 DEF AppendChecked
  <2>2. why = {} => reasons[c] = {} /\ lacking = {}
    OBVIOUS
  <2>3. why = {} => found[c] \subseteq Stored /\ Sound(Compiled(c, why))
    <3> SUFFICES ASSUME why = {} PROVE found[c] \subseteq Stored /\ Sound(Compiled(c, why))
      OBVIOUS
    <3>1. \A t \in Requires[request[c]].tcb : \E e \in found[c] : t \in Profile[e].attests
      BY <2>2
    <3>2. Kept(c)
      BY DEF ObligationsAreKept
    <3> HIDE DEF why
    <3> QED BY <1>4, <2>2, <3>1, <3>2, AppendedIsSound
  <2> HIDE DEF why
  <2> QED BY <1>3, <2>1, <2>3
<1>5. ASSUME NEW c \in Compilers, AppendRejected(c) PROVE SupportIsSound'
  <2>1. reasons[c] # {} /\ AppendClaim(c, reasons[c])
    BY <1>5 DEF ObligationsAreKept, Kept, FoundIsFit, AppendRejected
  <2> QED BY <1>3, <2>1
<1>6. ASSUME NEW c \in Compilers, Compile(c), ~AppendChecked(c), ~AppendRejected(c)
      PROVE  UNCHANGED claims
  BY <1>6 DEF Compile, NetworkMissing, NetworkFound, ListScope, FetchPresent,
     FetchMissing, StartRound, ResolveById, ResolveByRef, EndClosure, CheckScope
<1>7. Environment \/ UNCHANGED vars \/ (\E c \in Compilers, r \in Requests : Begin(c, r))
        => UNCHANGED claims
  BY DEF Environment, AddEvidence, RegisterNetwork, Tick, Begin, vars
<1> QED BY <1>2, <1>4, <1>5, <1>6, <1>7 DEF Next

\* Nothing is tracked and nothing is stored in the beginning.
LEMMA InitKeepsTrack == Init => ObligationsAreKept /\ SupportIsSound
<1> SUFFICES ASSUME Init PROVE ObligationsAreKept /\ SupportIsSound
  OBVIOUS
<1>1. ASSUME NEW c \in Compilers PROVE Kept(c)
  <2>1. pc[c] = "idle" /\ found[c] = {} /\ began[c].time = 0 /\ now = 0
    BY DEF Init
  <2> QED BY <2>1 DEF Kept, FoundIsFit, AskedIsKept, DependenciesAreKept, ScopesAreKept
<1>2. SupportIsSound
  BY DEF Init, SupportIsSound
<1> QED BY <1>1, <1>2 DEF ObligationsAreKept

\* Both together are inductive, given the types.
LEMMA SupportInvariance == Spec => [](ObligationsAreKept /\ SupportIsSound)
<1>1. Init => ObligationsAreKept /\ SupportIsSound
  BY InitKeepsTrack
<1>2. TypeOK /\ ObligationsAreKept /\ SupportIsSound /\ [Next]_vars
        => ObligationsAreKept' /\ SupportIsSound'
  BY StepKeepsTrack, StepKeepsSound
<1> QED BY <1>1, <1>2, TypeCorrectness, PTL DEF Spec

\* For every catalog, request, ledger and interleaving a compiler that has found
\* nothing wrong so far has found, or will still look up, all that it must: its
\* reads are not one snapshot, and no obligation is lost between two of them.
THEOREM ObligationsStay == Spec => []ObligationsAreKept
BY SupportInvariance, PTL

\* No support, no certification: for every catalog, ledger and interleaving, a
\* claim stored as supported rests on stored evidence that covers its network,
\* its request and all dependencies and was fit when the compilation began.
THEOREM SupportSoundness == Spec => []SupportIsSound
BY SupportInvariance, PTL

----------------------------------------------------------------------------
(* Why RefusalIsJustified holds: what was stored when a compilation began   *)
(* stays what it was, and the compiler does not lose sight of it.           *)

\* Numbers are given out in order: what is added later has a larger one.
NumbersGrow ==
  /\ \A e \in Evidence : obs[e] <= lastSeq
  /\ \A c \in Compilers : began[c].seq <= lastSeq /\ began[c].time <= now
  /\ \A i \in DOMAIN claims : claims[i].began.seq <= lastSeq

\* Evidence of a required scope that was there is gathered; a dependency is
\* looked up by reference only if it was not there.
ScopesAreGathered(c) ==
  LET before == StoredAt(began[c].seq)
      scopes == Requires[request[c]].scopes
      Members(s) == {e \in before : Profile[e].scope = s} IN
  /\ pc[c] \in {"gather", "check"} => scopesLeft[c] \subseteq scopes
  /\ pc[c] = "gather" =>
       \A s \in scopes \ scopesLeft[c] : Members(s) \subseteq found[c] \cup idsLeft[c]
  /\ pc[c] \in {"close", "scan", "check"} => \A s \in scopes : Members(s) \subseteq found[c]
  /\ pc[c] = "scan" => dep[c] \notin before

\* Every reason written down so far is true.
ReasonsAreTrue(c) ==
  /\ pc[c] \in {"idle", "network"} => reasons[c] = {}
  /\ \A why \in reasons[c] :
       /\ why.kind # "missing TCB"
       /\ Justified(Compiled(c, reasons[c]), why, StoredAt(began[c].seq))

RefusalInv ==
  /\ NumbersGrow
  /\ \A c \in Compilers : ScopesAreGathered(c) /\ ReasonsAreTrue(c)
  /\ RefusalIsJustified

----------------------------------------------------------------------------
(* Refusals                                                                *)

\* What an append leaves at each place of a sequence.
LEMMA AppendedAtEnd ==
  ASSUME NEW S, NEW s \in Seq(S), NEW x
  PROVE  \A i \in DOMAIN Append(s, x) :
           \/ i \in DOMAIN s /\ Append(s, x)[i] = s[i]
           \/ Append(s, x)[i] = x
<1> SUFFICES ASSUME NEW i \in DOMAIN Append(s, x)
             PROVE  \/ i \in DOMAIN s /\ Append(s, x)[i] = s[i]
                    \/ Append(s, x)[i] = x
  OBVIOUS
<1>1. DOMAIN s = 1..Len(s) /\ Len(s) \in Nat /\ DOMAIN Append(s, x) = 1..(Len(s) + 1)
  OBVIOUS
<1>2. CASE i \in DOMAIN s
  BY <1>2
<1>3. CASE i = Len(s) + 1
  BY <1>3
<1> QED BY <1>1, <1>2, <1>3

\* Claims are only ever appended, each by the compiler that made it.
LEMMA ClaimsAreAppended ==
  ASSUME TypeOK, [Next]_vars
  PROVE  \/ UNCHANGED claims
         \/ \E c \in Compilers : AppendChecked(c) \/ AppendRejected(c)
<1>1. ASSUME NEW c \in Compilers, Compile(c), ~AppendChecked(c), ~AppendRejected(c)
      PROVE  UNCHANGED claims
  BY <1>1 DEF Compile, NetworkMissing, NetworkFound, ListScope, FetchPresent,
     FetchMissing, StartRound, ResolveById, ResolveByRef, EndClosure, CheckScope
<1>2. Environment \/ UNCHANGED vars \/ (\E c \in Compilers, r \in Requests : Begin(c, r))
        => UNCHANGED claims
  BY DEF Environment, AddEvidence, RegisterNetwork, Tick, Begin, vars
<1> QED BY <1>1, <1>2 DEF Next

\* An append adds the compiled claim, with the request, the evidence and the
\* beginning of its compilation.
LEMMA AppendedClaim ==
  ASSUME TypeOK, NEW c \in Compilers, NEW why, AppendClaim(c, why),
         NEW i \in DOMAIN claims'
  PROVE  \/ i \in DOMAIN claims /\ claims'[i] = claims[i]
         \/ claims'[i] = Compiled(c, why)
<1>1. claims' = Append(claims, Compiled(c, why)) /\ claims \in Seq(CompiledClaims)
  BY DEF AppendClaim, TypeOK
<1> QED BY <1>1, AppendedAtEnd

\* Only AddEvidence changes the ledger; Tick and a look at an object the clock.
LEMMA LedgerSteps ==
  ASSUME TypeOK, [Next]_vars
  PROVE  \/ \E e \in Evidence : AddEvidence(e)
         \/ Tick
         \/ UNCHANGED <<obs, lastSeq>> /\ now' \in {now, now + 1}
<1>1. ASSUME NEW c \in Compilers, Compile(c)
      PROVE  UNCHANGED <<obs, lastSeq>> /\ now' \in {now, now + 1}
  BY <1>1 DEF Compile, NetworkMissing, NetworkFound, ListScope, FetchPresent,
              FetchMissing, StartRound, ResolveById, ResolveByRef, Adopt, Later,
              EndClosure, CheckScope, AppendChecked, AppendRejected, AppendClaim, store
<1> QED BY <1>1 DEF Next, Environment, RegisterNetwork, Begin, vars, store

\* A compilation begins with the number and the time of that moment, which do
\* not change until the next one.
LEMMA BeginningStays ==
  ASSUME TypeOK, [Next]_vars, NEW c \in Compilers
  PROVE  \/ began'[c] = began[c]
         \/ began'[c] = [seq |-> lastSeq, time |-> now] /\ UNCHANGED <<lastSeq, now>>
<1>1. ASSUME NEW d \in Compilers, Compile(d) PROVE began' = began
  BY <1>1 DEF Compile, NetworkMissing, NetworkFound, ListScope, FetchPresent,
              FetchMissing, StartRound, ResolveById, ResolveByRef, EndClosure,
              CheckScope, AppendChecked, AppendRejected, AppendClaim
<1>2. ASSUME NEW d \in Compilers, NEW r \in Requests, Begin(d, r)
      PROVE  \/ began'[c] = began[c]
             \/ began'[c] = [seq |-> lastSeq, time |-> now] /\ UNCHANGED <<lastSeq, now>>
  BY <1>2 DEF Begin, TypeOK, store
<1>3. Environment \/ UNCHANGED vars => began' = began
  BY DEF Environment, AddEvidence, RegisterNetwork, Tick, job, vars
<1> QED BY <1>1, <1>2, <1>3 DEF Next

\* Numbers are given out in order, so what was stored up to a number stays that.
LEMMA BeforeIsFixed ==
  ASSUME TypeOK, NumbersGrow, [Next]_vars
  PROVE  /\ NumbersGrow'
         /\ \A n \in Nat : n <= lastSeq => StoredAt(n)' = StoredAt(n)
<1> USE DEF TypeOK
<1>1. /\ lastSeq' \in Nat /\ lastSeq <= lastSeq' /\ now' \in Nat /\ now <= now'
      /\ \A e \in Evidence : obs'[e] = obs[e] \/ (obs[e] = 0 /\ obs'[e] = lastSeq + 1 /\ lastSeq' = lastSeq + 1)
  <2>1. ASSUME NEW e \in Evidence, AddEvidence(e)
        PROVE  /\ lastSeq' = lastSeq + 1 /\ now' = now
               /\ \A f \in Evidence : obs'[f] = obs[f] \/ (obs[f] = 0 /\ obs'[f] = lastSeq + 1 /\ lastSeq' = lastSeq + 1)
    BY <2>1 DEF AddEvidence
  <2>2. Tick => UNCHANGED <<obs, lastSeq>> /\ now' = now + 1
    BY DEF Tick, store
  <2> QED BY <2>1, <2>2, LedgerSteps
<1>2. \A e \in Evidence : obs[e] \in Nat /\ obs[e] <= lastSeq
  BY DEF NumbersGrow
<1>3. \A e \in Evidence : obs'[e] <= lastSeq'
  BY <1>1, <1>2
<1>4. ASSUME NEW c \in Compilers PROVE began'[c].seq <= lastSeq' /\ began'[c].time <= now'
  <2>1. began[c].seq <= lastSeq /\ began[c].time <= now
    BY DEF NumbersGrow
  <2>2. began[c].seq \in Nat /\ began[c].time \in Nat
    BY DEF Moments
  <2>3. CASE began'[c] = began[c]
    BY <1>1, <2>1, <2>2, <2>3
  <2>4. CASE began'[c] = [seq |-> lastSeq, time |-> now] /\ UNCHANGED <<lastSeq, now>>
    BY <1>1, <2>4
  <2> QED BY <2>3, <2>4, BeginningStays
<1>5. ASSUME NEW i \in DOMAIN claims' PROVE claims'[i].began.seq <= lastSeq'
  <2>1. ASSUME i \in DOMAIN claims, claims'[i] = claims[i]
        PROVE  claims'[i].began.seq <= lastSeq'
    <3>1. claims[i] \in CompiledClaims
      BY <2>1, ElementOfSeq
    <3>2. claims[i].began.seq \in Nat
      BY <3>1 DEF CompiledClaims, Moments
    <3>3. claims[i].began.seq <= lastSeq
      BY <2>1 DEF NumbersGrow
    <3> QED BY <1>1, <2>1, <3>2, <3>3
  <2>2. ASSUME NEW c \in Compilers, NEW why, AppendClaim(c, why)
        PROVE  claims'[i].began.seq <= lastSeq'
    <3>1. CASE claims'[i] = Compiled(c, why)
      <4>1. claims'[i].began = began[c]
        BY <3>1 DEF Compiled
      <4>2. began[c].seq \in Nat /\ began[c].seq <= lastSeq
        BY DEF NumbersGrow, Moments
      <4> QED BY <1>1, <4>1, <4>2
    <3> QED BY <2>1, <2>2, <3>1, AppendedClaim
  <2> QED BY <2>1, <2>2, ClaimsAreAppended DEF AppendChecked, AppendRejected
<1>6. ASSUME NEW n \in Nat, n <= lastSeq PROVE StoredAt(n)' = StoredAt(n)
  BY <1>1, <1>2, <1>6 DEF StoredAt, Stored
<1> QED BY <1>3, <1>4, <1>5, <1>6 DEF NumbersGrow

\* A reason that is true of a compilation stays true of it: it is answered later,
\* and has more evidence.
LEMMA ReasonsStayTrue ==
  ASSUME NEW k, NEW m, NEW why, NEW before, Justified(k, why, before),
         why.kind \in ReasonKinds,
         k.request = m.request, k.began = m.began, k.evidence_ids \subseteq m.evidence_ids,
         m.evidence_ids \subseteq Evidence, before \subseteq Evidence,
         k.appended.time \in Nat, m.appended.time \in Nat,
         k.appended.time <= m.appended.time,
         why.kind # "missing TCB" \/ k.evidence_ids = m.evidence_ids
  PROVE  Justified(m, why, before)
<1>1. \A e \in Evidence : Profile[e].expiry \in Nat \cup {Never}
  BY CatalogAssumption DEF Profiles
<1>2. CASE why.kind = "expired"
  BY <1>1, <1>2 DEF Justified, Expired
<1>3. CASE why.kind = "unsupported scope"
  <2>1. \A e \in before : ~CanSupport(e, k.appended.time) => ~CanSupport(e, m.appended.time)
    BY SupportIsAntitone
  <2> QED BY <1>3, <2>1 DEF Justified
<1>4. CASE why.kind \in {"network not found", "no evidence", "missing evidence", "missing dependency"}
  BY <1>4 DEF Justified
<1>5. CASE why.kind = "missing TCB"
  BY <1>5 DEF Justified
<1>6. CASE why.kind = "inactive"
  <2>1. /\ why.about \in k.evidence_ids /\ ~Expired(why.about, k.began.time)
        /\ ~CanSupport(why.about, k.appended.time)
    BY <1>6 DEF Justified
  <2>2. why.about \in Evidence /\ ~CanSupport(why.about, m.appended.time)
    BY <2>1, SupportIsAntitone
  <2> QED BY <1>6, <2>1, <2>2 DEF Justified
<1> QED BY <1>2, <1>3, <1>4, <1>5, <1>6 DEF ReasonKinds

\* A compiler whose new reasons are true and whose evidence grows keeps to true
\* reasons, whatever else happened in the step.
LEMMA ReasonsGrow ==
  ASSUME TypeOK, TypeOK', NumbersGrow, [Next]_vars, NEW c \in Compilers, ReasonsAreTrue(c),
         request'[c] = request[c], began'[c] = began[c], found[c] \subseteq found'[c],
         \A why \in reasons'[c] \ reasons[c] :
           /\ why.kind # "missing TCB"
           /\ Justified(Compiled(c, reasons[c])', why, StoredAt(began[c].seq)),
         pc'[c] \in {"idle", "network"} => reasons'[c] = {}
  PROVE  ReasonsAreTrue(c)'
<1>1. StoredAt(began[c].seq)' = StoredAt(began[c].seq)
  <2>1. began[c].seq \in Nat /\ began[c].seq <= lastSeq
    BY DEF NumbersGrow, TypeOK, Moments
  <2>2. PICK n \in Nat : n = began[c].seq /\ n = began'[c].seq
    BY <2>1
  <2>3. StoredAt(n)' = StoredAt(n)
    BY <2>1, <2>2, BeforeIsFixed
  <2> QED BY <2>2, <2>3 DEF StoredAt
<1> DEFINE before == StoredAt(began[c].seq)
           k == Compiled(c, reasons[c])
           m == Compiled(c, reasons[c])'
<1>2. now \in Nat /\ now' \in Nat /\ now <= now'
  BY LedgerGrows DEF TypeOK
<1>3. /\ k.request = m.request /\ k.began = m.began /\ k.evidence_ids \subseteq m.evidence_ids
      /\ m.evidence_ids \subseteq Evidence
      /\ k.appended.time \in Nat /\ m.appended.time \in Nat /\ k.appended.time <= m.appended.time
  BY <1>2 DEF Compiled, TypeOK
<1>4. before \subseteq Evidence
  BY DEF StoredAt, Stored
<1>5. ASSUME NEW why \in reasons[c] PROVE why.kind # "missing TCB" /\ Justified(m, why, before)
  <2>1. why.kind # "missing TCB" /\ Justified(k, why, before)
    BY DEF ReasonsAreTrue
  <2>2. why \in Reasons
    BY DEF TypeOK
  <2>3. why.kind \in ReasonKinds
    BY <2>2 DEF Reasons
  <2> HIDE DEF k, m, before
  <2> QED BY <1>3, <1>4, <2>1, <2>3, ReasonsStayTrue
<1>6. \A why \in reasons'[c] : why.kind # "missing TCB" /\ Justified(m, why, before)
  BY <1>5
<1> QED BY <1>1, <1>6 DEF ReasonsAreTrue

\* Doubts about evidence that is adopted are true reasons.
LEMMA DoubtsAreTrue ==
  ASSUME TypeOK, NumbersGrow, NEW c \in Compilers, NEW e \in Evidence, e \in found'[c],
         began'[c] = began[c], NEW then \in Later, now' = then,
         NEW why \in Doubts(e, then), NEW before
  PROVE  why.kind # "missing TCB" /\ Justified(Compiled(c, reasons[c])', why, before)
<1> DEFINE m == Compiled(c, reasons[c])'
<1>1. m.evidence_ids = found'[c] /\ m.appended.time = then /\ m.began = began[c]
  BY DEF Compiled
<1> HIDE DEF m
<1>2. /\ Profile[e].expiry \in Nat \cup {Never}
      /\ began[c].time \in Nat /\ now \in Nat /\ then \in Nat
      /\ began[c].time <= now /\ now <= then
  BY CatalogAssumption, LaterIsTime DEF Profiles, TypeOK, Moments, NumbersGrow
<1>3. CASE Expired(e, now)
  <2>1. why = Because("expired", e)
    BY <1>3 DEF Doubts
  <2>2. why.kind = "expired" /\ why.about = e
    BY <2>1 DEF Because
  <2>3. Expired(e, then)
    BY <1>2, <1>3 DEF Expired
  <2> QED BY <1>1, <2>2, <2>3 DEF m, Justified
<1>4. CASE ~Expired(e, now)
  <2>1. why = Because("inactive", e) /\ ~CanSupport(e, then)
    BY <1>4 DEF Doubts
  <2>2. why.kind = "inactive" /\ why.about = e
    BY <2>1 DEF Because
  <2>3. ~Expired(e, began[c].time)
    BY <1>2, <1>4 DEF Expired
  <2> QED BY <1>1, <2>1, <2>2, <2>3 DEF m, Justified
<1> QED BY <1>3, <1>4

\* A compiler that does not move, or begins anew, keeps to true reasons.
LEMMA UnmovedReasons ==
  ASSUME TypeOK, TypeOK', NumbersGrow, [Next]_vars, NEW c \in Compilers,
         ReasonsAreTrue(c), JobOf(c)' = JobOf(c)
  PROVE  ReasonsAreTrue(c)'
<1>1. pc'[c] \in {"idle", "network"} => reasons'[c] = {}
  BY DEF ReasonsAreTrue, JobOf
<1>2. /\ request'[c] = request[c] /\ began'[c] = began[c] /\ found[c] \subseteq found'[c]
      /\ reasons'[c] = reasons[c]
  BY DEF JobOf
<1> QED BY <1>1, <1>2, ReasonsGrow

\* Each step of a compilation that does not append writes down true reasons only,
\* and keeps sight of the evidence that was there when it began.
LEMMA CompileKeepsReasons ==
  ASSUME TypeOK, TypeOK', NumbersGrow, [Next]_vars, NEW c \in Compilers, Compile(c),
         ScopesAreGathered(c), ReasonsAreTrue(c), Kept(c)
  PROVE  ReasonsAreTrue(c)'
<1> USE DEF TypeOK, store
<1> DEFINE m == Compiled(c, reasons[c])'
           before == StoredAt(began[c].seq)
           True(why) == why.kind # "missing TCB" /\ Justified(m, why, before)
<1>1. /\ m.request = request'[c] /\ m.evidence_ids = found'[c] /\ m.appended.time = now'
  BY DEF Compiled
<1>2. ASSUME \A why \in reasons'[c] \ reasons[c] : True(why),
             request'[c] = request[c], began'[c] = began[c], found[c] \subseteq found'[c],
             pc'[c] \notin {"idle", "network"}
      PROVE  ReasonsAreTrue(c)'
  BY <1>2, ReasonsGrow
<1>3. before \subseteq Stored
  BY DEF StoredAt
<1> HIDE DEF m, before
<1> HIDE DEF True
<1>4. CASE NetworkMissing(c)
  <2> DEFINE w == Because("network not found", Requires[request[c]].network)
  <2>1. /\ reasons'[c] = {w} /\ pc'[c] = "reject"
        /\ UNCHANGED <<request, began, found>>
    BY <1>4 DEF NetworkMissing
  <2>2. True(w)
    BY <1>1, <2>1 DEF Because, Justified, True
  <2> HIDE DEF w
  <2> QED BY <1>2, <2>1, <2>2
<1>5. CASE NetworkFound(c)
  <2> DEFINE n == Requires[request[c]].network
             w == Because("no evidence", n)
  <2>1. /\ reasons'[c] = IF {} \in Items[n] THEN {w} ELSE {}
        /\ pc'[c] = "gather"
        /\ UNCHANGED <<request, began, found>>
    BY <1>5 DEF NetworkFound
  <2>2. {} \in Items[n] => True(w)
    BY <1>1, <2>1 DEF Because, Justified, True
  <2> HIDE DEF n, w
  <2> QED BY <1>2, <2>1, <2>2
<1>6. CASE ListScope(c) \/ StartRound(c) \/ EndClosure(c)
  <2>1. /\ reasons'[c] = reasons[c] /\ pc'[c] \in {"gather", "close", "check"}
        /\ UNCHANGED <<request, began, found>>
    BY <1>6 DEF ListScope, StartRound, EndClosure
  <2> QED BY <1>2, <2>1
<1>7. ASSUME NEW e \in Evidence, NEW then \in Later, now' = then,
             reasons'[c] = reasons[c] \cup Doubts(e, then),
             found'[c] = found[c] \cup {e}, pc'[c] \in {"gather", "close"},
             UNCHANGED <<request, began>>
      PROVE  ReasonsAreTrue(c)'
  <2>1. \A why \in Doubts(e, then) : True(why)
    BY <1>7, DoubtsAreTrue DEF m, True
  <2> QED BY <1>2, <1>7, <2>1
<1>8. CASE FetchPresent(c)
  <2>1. PICK e \in idsLeft[c] \cap Stored, then \in Later :
          /\ now' = then
          /\ found'[c] = found[c] \cup {e}
          /\ reasons'[c] = reasons[c] \cup Doubts(e, then)
    BY <1>8 DEF FetchPresent
  <2>2. pc'[c] = "gather" /\ UNCHANGED <<request, began>>
    BY <1>8 DEF FetchPresent
  <2> QED BY <1>7, <2>1, <2>2 DEF Stored
<1>9. CASE FetchMissing(c)
  <2>1. PICK x \in idsLeft[c] \ Stored :
          reasons'[c] = reasons[c] \cup {Because("missing evidence", x)}
    BY <1>9 DEF FetchMissing
  <2>2. pc'[c] = "gather" /\ UNCHANGED <<request, began, found>>
    BY <1>9 DEF FetchMissing
  <2>3. True(Because("missing evidence", x))
    BY <1>3, <2>1 DEF Because, Justified, True
  <2> QED BY <1>2, <2>1, <2>2, <2>3
<1>10. ASSUME NEW e \in Stored, Adopt(c, e), UNCHANGED <<request, began>>
       PROVE  ReasonsAreTrue(c)'
  <2>1. PICK then \in Later :
          now' = then /\ reasons' = [reasons EXCEPT ![c] = @ \cup Doubts(e, then)]
    BY <1>10 DEF Adopt
  <2> QED BY <1>7, <1>10, <2>1 DEF Adopt, Stored
<1>11. CASE ResolveById(c)
  <2>1. PICK p \in depsLeft[c] :
          IF p[2] \in Stored
          THEN Adopt(c, p[2]) /\ UNCHANGED dep
          ELSE /\ pc' = [pc EXCEPT ![c] = "scan"]
               /\ UNCHANGED <<found, reasons, changed, now>>
    BY <1>11 DEF ResolveById
  <2>2. UNCHANGED <<request, began>>
    BY <1>11 DEF ResolveById
  <2>3. CASE p[2] \in Stored
    BY <1>10, <2>1, <2>2, <2>3
  <2>4. CASE p[2] \notin Stored
    BY <1>2, <2>1, <2>2, <2>4
  <2> QED BY <2>3, <2>4
<1>12. CASE ResolveByRef(c)
  <2>1. pc[c] = "scan" /\ UNCHANGED <<request, began>>
    BY <1>12 DEF ResolveByRef
  <2>2. CASE Carriers(dep[c]) # {}
    <3>1. Carriers(dep[c]) \in SUBSET Evidence /\ Carriers(dep[c]) \subseteq Stored
      BY DEF Carriers, Stored
    <3>2. FirstObserved(Carriers(dep[c])) \in Stored
      BY <2>2, <3>1, FirstObservedIsMember
    <3>3. Adopt(c, FirstObserved(Carriers(dep[c])))
      BY <1>12, <2>2 DEF ResolveByRef
    <3> QED BY <1>10, <2>1, <3>2, <3>3
  <2>3. CASE Carriers(dep[c]) = {}
    <3> DEFINE why == Because("missing dependency", dep[c])
    <3>0. reasons' = [reasons EXCEPT ![c] = @ \cup {why}]
      BY <1>12, <2>3 DEF ResolveByRef
    <3>1. reasons'[c] = reasons[c] \cup {Because("missing dependency", dep[c])}
      <4>1. c \in DOMAIN reasons
        BY DEF TypeOK
      <4> HIDE DEF why
      <4>2. reasons'[c] = reasons[c] \cup {why}
        BY <3>0, <4>1
      <4> QED BY <4>2 DEF why
    <3>2. pc'[c] = "close" /\ UNCHANGED found
      BY <1>12, <2>3 DEF ResolveByRef
    <3>3. True(Because("missing dependency", dep[c]))
      <4>1. dep[c] \notin before
        BY <2>1 DEF ScopesAreGathered, before
      <4>2. \A e \in before : dep[c] \notin Profile[e].external_refs
        BY <1>3, <2>3 DEF Carriers
      <4> QED BY <4>1, <4>2 DEF Because, Justified, True
    <3> QED BY <1>2, <2>1, <3>1, <3>2, <3>3
  <2> QED BY <2>2, <2>3
<1>13. CASE CheckScope(c)
  <2>1. PICK s \in scopesLeft[c] :
          reasons'[c] = reasons[c] \cup
            IF \E e \in found[c] : Profile[e].scope = s /\ CanSupport(e, now)
            THEN {} ELSE {Because("unsupported scope", s)}
    BY <1>13 DEF CheckScope
  <2>2. pc[c] = "check" /\ pc'[c] = "check" /\ UNCHANGED <<now, request, began, found>>
    BY <1>13 DEF CheckScope
  <2>3. ASSUME \A e \in found[c] : Profile[e].scope = s => ~CanSupport(e, now)
        PROVE  True(Because("unsupported scope", s))
    <3>1. s \in Requires[request[c]].scopes /\ \A e \in before : Profile[e].scope = s => e \in found[c]
      BY <2>1, <2>2 DEF ScopesAreGathered, before
    <3> QED BY <1>1, <2>2, <2>3, <3>1 DEF Because, Justified, True
  <2> QED BY <1>2, <2>1, <2>2, <2>3
<1>14. CASE AppendChecked(c) \/ AppendRejected(c)
  <2>1. reasons'[c] = {}
    BY <1>14 DEF AppendChecked, AppendRejected, AppendClaim
  <2> QED BY <2>1 DEF ReasonsAreTrue
<1> QED
  BY <1>4, <1>5, <1>6, <1>8, <1>9, <1>11, <1>12, <1>13, <1>14 DEF Compile

\* Evidence of a required scope that was stored before a compilation began is
\* not lost between the listing of the scopes and the checks.
LEMMA CompileKeepsSight ==
  ASSUME TypeOK, NumbersGrow, [Next]_vars, NEW c \in Compilers, Compile(c),
         ScopesAreGathered(c)
  PROVE  ScopesAreGathered(c)'
<1> USE DEF TypeOK, store
<1>1. PICK n \in Nat : n = began[c].seq /\ n <= lastSeq
  BY DEF NumbersGrow, Moments
<1>2. StoredAt(n)' = StoredAt(n)
  BY <1>1, BeforeIsFixed
<1> DEFINE before == StoredAt(n)
           scopes == Requires[request[c]].scopes
           Members(s) == {e \in before : Profile[e].scope = s}
<1>3. before \subseteq Stored /\ \A s : Members(s) \subseteq InScope(s)
  BY DEF StoredAt, InScope
<1>4. /\ pc[c] \in {"gather", "check"} => scopesLeft[c] \subseteq scopes
      /\ pc[c] = "gather" =>
           \A s \in scopes \ scopesLeft[c] : Members(s) \subseteq found[c] \cup idsLeft[c]
      /\ pc[c] \in {"close", "scan", "check"} => \A s \in scopes : Members(s) \subseteq found[c]
      /\ pc[c] = "scan" => dep[c] \notin before
  BY <1>1 DEF ScopesAreGathered
<1>5. ASSUME began'[c] = began[c], request'[c] = request[c],
             pc'[c] \in {"gather", "check"} => scopesLeft'[c] \subseteq scopes,
             pc'[c] = "gather" =>
               \A s \in scopes \ scopesLeft'[c] : Members(s) \subseteq found'[c] \cup idsLeft'[c],
             pc'[c] \in {"close", "scan", "check"} => \A s \in scopes : Members(s) \subseteq found'[c],
             pc'[c] = "scan" => dep'[c] \notin before
      PROVE  ScopesAreGathered(c)'
  BY <1>1, <1>2, <1>5 DEF ScopesAreGathered
<1>6. ASSUME NEW why, AppendClaim(c, why) PROVE pc'[c] = "idle" /\ began' = began /\ request' = request
  BY <1>6 DEF AppendClaim
<1> HIDE DEF before, scopes, Members
<1>7. CASE NetworkMissing(c) \/ AppendChecked(c) \/ AppendRejected(c)
  <2>1. pc'[c] \in {"reject", "idle"} /\ began' = began /\ request' = request
    BY <1>6, <1>7 DEF NetworkMissing, AppendChecked, AppendRejected
  <2> QED BY <1>5, <2>1
<1>8. CASE NetworkFound(c)
  <2>1. pc'[c] = "gather" /\ began' = began /\ request' = request /\ scopesLeft'[c] = scopes
    BY <1>8 DEF NetworkFound, scopes
  <2> QED BY <1>5, <2>1
<1>9. CASE ListScope(c)
  <2>1. PICK s \in scopesLeft[c] :
          /\ scopesLeft'[c] = scopesLeft[c] \ {s}
          /\ idsLeft'[c] = idsLeft[c] \cup InScope(s)
    BY <1>9 DEF ListScope
  <2>2. pc[c] = "gather" /\ UNCHANGED <<pc, began, request, found>>
    BY <1>9 DEF ListScope
  <2>3. \A q \in scopes \ scopesLeft'[c] : Members(q) \subseteq found'[c] \cup idsLeft'[c]
    BY <1>3, <1>4, <2>1, <2>2
  <2> QED BY <1>4, <1>5, <2>1, <2>2, <2>3
<1>10. CASE FetchPresent(c) \/ FetchMissing(c)
  <2>1. \/ \E e \in idsLeft[c] : /\ idsLeft'[c] = idsLeft[c] \ {e}
                                 /\ found'[c] = found[c] \cup {e}
        \/ \E x \in idsLeft[c] \ Stored : /\ idsLeft'[c] = idsLeft[c] \ {x}
                                          /\ found'[c] = found[c]
    BY <1>10 DEF FetchPresent, FetchMissing
  <2>2. pc[c] = "gather" /\ UNCHANGED <<pc, began, request, scopesLeft>>
    BY <1>10 DEF FetchPresent, FetchMissing
  <2>3. \A q \in scopes : Members(q) \subseteq Stored
    BY <1>3 DEF Members
  <2>4. \A q \in scopes \ scopesLeft'[c] : Members(q) \subseteq found'[c] \cup idsLeft'[c]
    BY <1>4, <2>1, <2>2, <2>3
  <2> QED BY <1>4, <1>5, <2>2, <2>4
<1>11. CASE StartRound(c)
  <2>1. /\ pc'[c] = "close" /\ UNCHANGED <<began, request, found>>
        /\ \/ pc[c] = "gather" /\ scopesLeft[c] = {} /\ idsLeft[c] = {}
           \/ pc[c] = "close"
    BY <1>11 DEF StartRound
  <2> QED BY <1>4, <1>5, <2>1
<1>12. ASSUME NEW e, Adopt(c, e), pc[c] \in {"close", "scan"}, UNCHANGED <<began, request>>
       PROVE  ScopesAreGathered(c)'
  BY <1>4, <1>5, <1>12 DEF Adopt
<1>13. CASE ResolveById(c)
  <2>1. PICK p \in depsLeft[c] :
          IF p[2] \in Stored
          THEN Adopt(c, p[2]) /\ UNCHANGED dep
          ELSE /\ pc' = [pc EXCEPT ![c] = "scan"]
               /\ dep' = [dep EXCEPT ![c] = p[2]]
               /\ UNCHANGED <<found, reasons, changed, now>>
    BY <1>13 DEF ResolveById
  <2>2. pc[c] = "close" /\ UNCHANGED <<began, request>>
    BY <1>13 DEF ResolveById
  <2>3. CASE p[2] \in Stored
    BY <1>12, <2>1, <2>2, <2>3
  <2>4. CASE p[2] \notin Stored
    <3>1. pc'[c] = "scan" /\ dep'[c] = p[2] /\ found'[c] = found[c]
      BY <2>1, <2>4
    <3>2. dep'[c] \notin before
      BY <1>3, <2>4, <3>1
    <3> QED BY <1>4, <1>5, <2>2, <3>1, <3>2
  <2> QED BY <2>3, <2>4
<1>14. CASE ResolveByRef(c)
  <2>1. pc[c] = "scan" /\ UNCHANGED <<began, request>>
    BY <1>14 DEF ResolveByRef
  <2>2. CASE Carriers(dep[c]) # {}
    BY <1>12, <1>14, <2>1, <2>2 DEF ResolveByRef
  <2>3. CASE Carriers(dep[c]) = {}
    <3>1. pc'[c] = "close" /\ UNCHANGED found
      BY <1>14, <2>3 DEF ResolveByRef
    <3> QED BY <1>4, <1>5, <2>1, <3>1
  <2> QED BY <2>2, <2>3
<1>15. CASE EndClosure(c)
  <2>1. /\ pc[c] = "close" /\ pc'[c] = "check" /\ scopesLeft'[c] = scopes
        /\ UNCHANGED <<began, request, found>>
    BY <1>15 DEF EndClosure, scopes
  <2> QED BY <1>4, <1>5, <2>1
<1>16. CASE CheckScope(c)
  <2>1. PICK s \in scopesLeft[c] : scopesLeft'[c] = scopesLeft[c] \ {s}
    BY <1>16 DEF CheckScope
  <2>2. pc[c] = "check" /\ UNCHANGED <<pc, began, request, found>>
    BY <1>16 DEF CheckScope
  <2> QED BY <1>4, <1>5, <2>1, <2>2
<1> QED
  BY <1>7, <1>8, <1>9, <1>10, <1>11, <1>13, <1>14, <1>15, <1>16 DEF Compile

\* A compiler that does not move keeps sight of it too, since numbers only grow.
LEMMA UnmovedSight ==
  ASSUME TypeOK, NumbersGrow, [Next]_vars, NEW c \in Compilers,
         ScopesAreGathered(c), JobOf(c)' = JobOf(c)
  PROVE  ScopesAreGathered(c)'
<1>1. PICK n \in Nat : n = began[c].seq /\ n <= lastSeq
  BY DEF NumbersGrow, Moments, TypeOK
<1>2. StoredAt(n)' = StoredAt(n)
  BY <1>1, BeforeIsFixed
<1> QED BY <1>1, <1>2 DEF ScopesAreGathered, JobOf

\* Every stored reason stays true, and an appended claim states true ones.
LEMMA StepKeepsRefusals ==
  ASSUME TypeOK, NumbersGrow, RefusalIsJustified, [Next]_vars,
         \A c \in Compilers : ReasonsAreTrue(c)
  PROVE  RefusalIsJustified'
<1> SUFFICES ASSUME NEW i \in DOMAIN claims', NEW why \in claims'[i].reasons
             PROVE  Justified(claims'[i], why, StoredAt(claims[i].began.seq)')
  BY DEF RefusalIsJustified
<1>1. ASSUME NEW n \in Nat, n <= lastSeq, claims'[i].began.seq = n
      PROVE  StoredAt(claims[i].began.seq)' = StoredAt(n)
  <2>1. StoredAt(n)' = StoredAt(n)
    BY <1>1, BeforeIsFixed
  <2> QED BY <1>1, <2>1 DEF StoredAt
<1>2. ASSUME i \in DOMAIN claims, claims'[i] = claims[i]
      PROVE  Justified(claims'[i], why, StoredAt(claims[i].began.seq)')
  <2>1. claims[i] \in CompiledClaims
    BY <1>2, ElementOfSeq DEF TypeOK
  <2>2. PICK n \in Nat : n = claims[i].began.seq /\ n <= lastSeq
    BY <1>2, <2>1 DEF CompiledClaims, Moments, NumbersGrow
  <2>3. Justified(claims[i], why, StoredAt(n))
    BY <1>2, <2>2 DEF RefusalIsJustified
  <2> QED BY <1>1, <1>2, <2>2, <2>3
<1>3. ASSUME NEW c \in Compilers, NEW said, AppendClaim(c, said), claims'[i] = Compiled(c, said),
             \A w \in said : Justified(Compiled(c, said), w, StoredAt(began[c].seq))
      PROVE  Justified(claims'[i], why, StoredAt(claims[i].began.seq)')
  <2>1. claims'[i].reasons = said /\ claims'[i].began = began[c]
    BY <1>3 DEF Compiled
  <2>2. PICK n \in Nat : n = began[c].seq /\ n <= lastSeq
    BY DEF NumbersGrow, Moments, TypeOK
  <2> QED BY <1>1, <1>3, <2>1, <2>2
<1>4. ASSUME NEW c \in Compilers, NEW said, AppendClaim(c, said),
             \A w \in said : Justified(Compiled(c, said), w, StoredAt(began[c].seq))
      PROVE  Justified(claims'[i], why, StoredAt(claims[i].began.seq)')
  BY <1>2, <1>3, <1>4, AppendedClaim
<1>5. ASSUME NEW c \in Compilers, NEW w \in reasons[c], NEW said
      PROVE  Justified(Compiled(c, said), w, StoredAt(began[c].seq))
  <2>1. w.kind # "missing TCB" /\ Justified(Compiled(c, reasons[c]), w, StoredAt(began[c].seq))
    BY DEF ReasonsAreTrue
  <2>2. w \in Reasons
    BY DEF TypeOK
  <2>3. w.kind \in ReasonKinds
    BY <2>2 DEF Reasons
  <2> DEFINE k == Compiled(c, reasons[c])
             m == Compiled(c, said)
             before == StoredAt(began[c].seq)
  <2>4. /\ k.request = m.request /\ k.began = m.began /\ k.evidence_ids = m.evidence_ids
        /\ k.evidence_ids \subseteq m.evidence_ids /\ m.evidence_ids \subseteq Evidence
        /\ k.appended.time \in Nat /\ m.appended.time \in Nat /\ k.appended.time <= m.appended.time
    BY DEF Compiled, TypeOK
  <2>5. before \subseteq Evidence
    BY DEF StoredAt, Stored
  <2> HIDE DEF k, m, before
  <2>6. Justified(k, w, before)
    BY <2>1 DEF k, before
  <2>7. Justified(m, w, before)
    BY <2>1, <2>3, <2>4, <2>5, <2>6, ReasonsStayTrue
  <2> QED BY <2>7 DEF m, before
<1>6. ASSUME NEW c \in Compilers, AppendChecked(c)
      PROVE  Justified(claims'[i], why, StoredAt(claims[i].began.seq)')
  <2> DEFINE lacking == {t \in Requires[request[c]].tcb :
                           \A e \in found[c] : t \notin Profile[e].attests}
             said == reasons[c] \cup {Because("missing TCB", t) : t \in lacking}
  <2>1. AppendClaim(c, said)
    BY <1>6 DEF AppendChecked
  <2>2. ASSUME NEW t \in lacking, NEW s
        PROVE  Justified(Compiled(c, s), Because("missing TCB", t), StoredAt(began[c].seq))
    <3>1. Compiled(c, s).request = request[c] /\ Compiled(c, s).evidence_ids = found[c]
      BY DEF Compiled
    <3> QED BY <3>1 DEF Justified, Because
  <2>3. \A w \in said : w \in reasons[c] \/ \E t \in lacking : w = Because("missing TCB", t)
    OBVIOUS
  <2> HIDE DEF said, lacking
  <2>4. \A w \in said : Justified(Compiled(c, said), w, StoredAt(began[c].seq))
    BY <1>5, <2>2, <2>3
  <2> QED BY <1>4, <2>1, <2>4
<1>7. ASSUME NEW c \in Compilers, AppendRejected(c)
      PROVE  Justified(claims'[i], why, StoredAt(claims[i].began.seq)')
  BY <1>4, <1>5, <1>7 DEF AppendRejected
<1>8. CASE UNCHANGED claims
  BY <1>2, <1>8
<1> QED BY <1>6, <1>7, <1>8, ClaimsAreAppended

\* The invariant behind RefusalIsJustified is kept by every step of anybody.
LEMMA StepKeepsRefusalInv ==
  ASSUME TypeOK, ObligationsAreKept, RefusalInv, [Next]_vars
  PROVE  RefusalInv'
<1> USE DEF RefusalInv
<1>1. TypeOK' /\ NumbersGrow'
  BY NextKeepsTypes, BeforeIsFixed
<1>2. RefusalIsJustified'
  BY StepKeepsRefusals
<1> SUFFICES ASSUME NEW c \in Compilers PROVE ScopesAreGathered(c)' /\ ReasonsAreTrue(c)'
  BY <1>1, <1>2
<1>3. ScopesAreGathered(c) /\ ReasonsAreTrue(c) /\ Kept(c)
  BY DEF ObligationsAreKept
<1>4. CASE Compile(c)
  BY <1>1, <1>3, <1>4, CompileKeepsReasons, CompileKeepsSight
<1>5. ASSUME NEW r \in Requests, Begin(c, r) PROVE ScopesAreGathered(c)' /\ ReasonsAreTrue(c)'
  <2>1. pc[c] = "idle" /\ pc'[c] = "network" /\ reasons' = reasons
    BY <1>5 DEF Begin, TypeOK
  <2> QED BY <1>3, <2>1 DEF ScopesAreGathered, ReasonsAreTrue
<1>6. CASE JobOf(c)' = JobOf(c)
  BY <1>1, <1>3, <1>6, UnmovedSight, UnmovedReasons
<1>7. ASSUME NEW d \in Compilers \ {c}, NEW r \in Requests, Begin(d, r)
      PROVE  JobOf(c)' = JobOf(c)
  BY <1>7 DEF Begin, JobOf, TypeOK
<1>8. ASSUME NEW d \in Compilers \ {c}, Compile(d)
      PROVE  JobOf(c)' = JobOf(c)
  BY <1>8, OthersDoNotMove
<1>9. Environment \/ UNCHANGED vars => JobOf(c)' = JobOf(c)
  BY DEF Environment, AddEvidence, RegisterNetwork, Tick, JobOf, job, vars
<1> QED BY <1>4, <1>5, <1>6, <1>7, <1>8, <1>9 DEF Next

\* Nothing is known and nothing is refused in the beginning.
LEMMA InitRefusalInv == Init => RefusalInv
<1> SUFFICES ASSUME Init PROVE RefusalInv
  OBVIOUS
<1>1. NumbersGrow /\ RefusalIsJustified
  BY DEF Init, NumbersGrow, RefusalIsJustified
<1>2. ASSUME NEW c \in Compilers PROVE pc[c] = "idle" /\ reasons[c] = {}
  BY DEF Init
<1> QED BY <1>1, <1>2 DEF RefusalInv, ScopesAreGathered, ReasonsAreTrue

\* For every ledger, catalog and interleaving a claim is refused only for what is
\* really wrong with it: what was stored before the compilation began is never
\* reported missing, nor its scope unsupported while it is fit, and only evidence
\* that the claim names is reported expired or inactive, when it is.
THEOREM RefusalSoundness == Spec => []RefusalIsJustified
<1>1. TypeOK /\ ObligationsAreKept /\ RefusalInv /\ [Next]_vars => RefusalInv'
  BY StepKeepsRefusalInv
<1>2. RefusalInv => RefusalIsJustified
  BY DEF RefusalInv
<1> QED BY <1>1, <1>2, InitRefusalInv, TypeCorrectness, SupportInvariance, PTL DEF Spec

----------------------------------------------------------------------------
(* Why QuietCompileIsExact holds: as long as nothing was added and no       *)
(* second passed, the compiler is at a definite point of its definition.    *)

Quiet(c) == began[c] = [seq |-> lastSeq, time |-> now]

\* No two objects have the same number, so one of each set comes first.
NumbersDiffer == \A e, f \in Stored : obs[e] = obs[f] => e = f

NamedSoFar(c) ==
  Asked(c) \cup {e \in Stored : Profile[e].scope \in Requires[request[c]].scopes \ scopesLeft[c]}

GatherIsExact(c) ==
  LET seen == NamedSoFar(c) \ idsLeft[c] IN
  /\ scopesLeft[c] \subseteq Requires[request[c]].scopes
  /\ scopesLeft[c] # {} => idsLeft[c] = NamedSoFar(c)
  /\ idsLeft[c] \subseteq NamedSoFar(c)
  /\ found[c] = seen \cap Stored
  /\ reasons[c] = NamingReasons(request[c], seen, Stored) \cup Flaws(found[c], now)

\* In the round that started with S, the dependencies in done were looked up;
\* those in dead led nowhere, in this round or an earlier one.
RoundIsExact(c, S, done, dead) ==
  LET r == request[c]
      meaning == Meanings(Stored) IN
  /\ depsLeft[c] \subseteq OpenDeps(S)
  /\ pc[c] = "close" => OpenDeps(S) \subseteq depsLeft[c] \cup done
  /\ pc[c] = "scan" =>
       /\ dep[c] \notin Stored
       /\ \E p \in OpenDeps(S) : p[2] = dep[c] /\ OpenDeps(S) \subseteq depsLeft[c] \cup done \cup {p}
  /\ found[c] = S \cup Brought(done, meaning)
  /\ changed[c] <=> \E p \in done : meaning[p[2]] # {}
  /\ Unresolved(done, meaning) \subseteq dead
  /\ dead \subseteq Unresolved(OpenDeps(S), meaning)
  /\ reasons[c] = NamingReasons(r, Named(r, Stored), Stored) \cup Flaws(found[c], now)
                    \cup DependencyReasons(dead)

ClosureIsExact(c) ==
  LET after == AfterRound(request[c], Stored) IN
  \E n \in 0..Cardinality(Evidence) :
    \E done \in SUBSET OpenDeps(after[n]), dead \in SUBSET OpenRefs(after[n]) :
      RoundIsExact(c, after[n], done, dead)

CheckIsExact(c) ==
  LET r == request[c] IN
  /\ scopesLeft[c] \subseteq Requires[r].scopes
  /\ found[c] = Closure(r, Stored)
  /\ reasons[c] = NamingReasons(r, Named(r, Stored), Stored) \cup Flaws(found[c], now)
                    \cup DependencyReasons(OpenRefs(found[c]))
                    \cup ScopeReasons(Requires[r].scopes \ scopesLeft[c], found[c], now)

QuietIsExact(c) ==
  /\ pc[c] = "reject" => \E w \in reasons[c] : w.kind = "network not found"
  /\ Quiet(c) =>
       /\ pc[c] = "gather" => GatherIsExact(c)
       /\ pc[c] \in {"close", "scan"} => ClosureIsExact(c)
       /\ pc[c] = "check" => CheckIsExact(c)

QuietInv ==
  /\ NumbersDiffer
  /\ \A c \in Compilers : QuietIsExact(c)
  /\ QuietCompileIsExact

----------------------------------------------------------------------------
(* Quiet compilations: rounds of the closure                               *)

\* A reference means only evidence that answers to it.
Answers(meaning) == \A d \in Refs : \A e \in meaning[d] : d \in KnownRefs({e})

\* Rounds follow each other as defined.
LEMMA RoundsUnfold ==
  ASSUME IsFiniteSet(Evidence), NEW S \in SUBSET Evidence,
         NEW meaning \in [Refs -> SUBSET Evidence]
  PROVE  /\ Rounds(S, meaning) \in [0..Cardinality(Evidence) -> SUBSET Evidence]
         /\ Rounds(S, meaning)[0] = S
         /\ \A n \in 1..Cardinality(Evidence) :
              Rounds(S, meaning)[n] = Round(Rounds(S, meaning)[n - 1], meaning)
<1> DEFINE N == Cardinality(Evidence)
           D == SUBSET Evidence
           F == [T \in D |-> Round(T, meaning)]
           Unfolds(g) == g = [n \in 0..N |-> IF n = 0 THEN S ELSE Round(g[n - 1], meaning)]
<1>1. N \in Nat
  BY FS_CardinalityType
<1>2. F \in [D -> D]
  <2> SUFFICES ASSUME NEW T \in D PROVE Round(T, meaning) \in D
    OBVIOUS
  <2>1. \A p \in OpenDeps(T) : p[2] \in Refs
    BY DEF OpenDeps
  <2> QED BY <2>1 DEF Round, Brought
<1>3. PICK g : Steps(N, D, S, F, g)
  <2> HIDE DEF N, D, F
  <2>1. S \in D
    BY DEF D
  <2>2. \A T \in D : F[T] \in D
    BY <1>2
  <2> QED BY <1>1, <2>1, <2>2, StepsExist
<1>12. g \in [0..N -> D] /\ g[0] = S /\ \A n \in 1..N : g[n] = F[g[n - 1]]
  BY <1>3 DEF Steps
<1> HIDE DEF N
<1>4. ASSUME NEW n \in 0..N
      PROVE  g[n] = IF n = 0 THEN S ELSE Round(g[n - 1], meaning)
  <2>1. CASE n = 0
    BY <1>12, <2>1
  <2>2. CASE n # 0
    <3>1. n \in 1..N /\ n - 1 \in 0..N
      BY <1>1, <2>2
    <3>2. g[n - 1] \in D
      BY <1>12, <3>1
    <3>3. F[g[n - 1]] = Round(g[n - 1], meaning)
      BY <3>2
    <3> QED BY <1>12, <2>2, <3>1, <3>3
  <2> QED BY <2>1, <2>2
<1>5. Unfolds(g)
  <2> DEFINE h == [n \in 0..N |-> IF n = 0 THEN S ELSE Round(g[n - 1], meaning)]
  <2>1. \A n \in 0..N : h[n] = g[n]
    BY <1>4
  <2>2. DOMAIN g = 0..N /\ DOMAIN h = 0..N /\ g = [n \in 0..N |-> g[n]]
    BY <1>12
  <2>3. h = [n \in 0..N |-> h[n]]
    OBVIOUS
  <2> HIDE DEF h
  <2>4. g = h
    BY <2>1, <2>2, <2>3, Zenon
  <2> QED BY <2>4 DEF h
<1> DEFINE R == Rounds(S, meaning)
<1>6. R = CHOOSE f : Unfolds(f)
  BY DEF Rounds, N
<1>7. Unfolds(R)
  <2> HIDE DEF Unfolds, R
  <2> QED BY <1>5, <1>6
<1> HIDE DEF R
<1>8. DOMAIN R = 0..N /\ \A n \in 0..N : R[n] = IF n = 0 THEN S ELSE Round(R[n - 1], meaning)
  <2> DEFINE h == [n \in 0..N |-> IF n = 0 THEN S ELSE Round(R[n - 1], meaning)]
  <2>1. DOMAIN h = 0..N /\ \A n \in 0..N : h[n] = IF n = 0 THEN S ELSE Round(R[n - 1], meaning)
    OBVIOUS
  <2>2. R = h
    BY <1>7
  <2> HIDE DEF h
  <2> QED BY <2>1, <2>2
<1>9. R[0] = S /\ \A n \in 1..N : R[n] = Round(R[n - 1], meaning)
  BY <1>1, <1>8
<1>10. \A n \in Nat : n \in {m \in Nat : m <= N => R[m] \in D}
  <2> DEFINE P == {m \in Nat : m <= N => R[m] \in D}
  <2>1. 0 \in P
    BY <1>9
  <2>2. ASSUME NEW n \in Nat, n \in P PROVE n + 1 \in P
    <3> SUFFICES ASSUME n + 1 <= N PROVE R[n + 1] \in D
      OBVIOUS
    <3>1. R[n] \in D
      BY <1>1, <2>2
    <3>2. n + 1 \in 1..N /\ (n + 1) - 1 = n
      BY <1>1
    <3>3. R[n + 1] = Round(R[n], meaning)
      BY <1>9, <3>2
    <3>4. R[n + 1] = F[R[n]]
      BY <3>1, <3>3
    <3> HIDE DEF F, D
    <3> QED BY <1>2, <3>1, <3>4
  <2> HIDE DEF P
  <2>3. \A n \in Nat : n \in P
    BY <2>1, <2>2, NumberInduction
  <2> QED BY <2>3 DEF P
<1>11. R \in [0..N -> D]
  <2>1. \A n \in 0..N : R[n] \in D
    BY <1>1, <1>10
  <2>2. R = [n \in 0..N |-> R[n]]
    BY <1>7
  <2> QED BY <2>1, <2>2
<1> QED BY <1>9, <1>11 DEF R, N

\* A round that adds anything adds something new: what an open dependency means is
\* not there yet.
LEMMA OpenMeansNew ==
  ASSUME NEW S \in SUBSET Evidence, NEW meaning \in [Refs -> SUBSET Evidence],
         Answers(meaning), NEW p \in OpenDeps(S)
  PROVE  meaning[p[2]] \cap S = {}
<1>1. p[2] \in Refs /\ p[2] \notin KnownRefs(S)
  BY DEF OpenDeps
<1>2. ASSUME NEW e \in meaning[p[2]], e \in S PROVE FALSE
  <2>1. p[2] \in KnownRefs({e})
    BY <1>1 DEF Answers
  <2>2. KnownRefs({e}) \subseteq KnownRefs(S)
    BY <1>2 DEF KnownRefs
  <2> QED BY <1>1, <2>1, <2>2
<1> QED BY <1>2

\* After as many rounds as there is evidence nothing is left to add.
LEMMA RoundsEnd ==
  ASSUME IsFiniteSet(Evidence), NEW S \in SUBSET Evidence,
         NEW meaning \in [Refs -> SUBSET Evidence]
  PROVE  LET R == Rounds(S, meaning)
             N == Cardinality(Evidence) IN
         /\ Round(R[N], meaning) = R[N]
         /\ \A n \in 0..N : Round(R[n], meaning) = R[n] => R[N] = R[n]
<1> DEFINE R == Rounds(S, meaning)
           N == Cardinality(Evidence)
           Fixed(n) == Round(R[n], meaning) = R[n]
<1>1. N \in Nat
  BY FS_CardinalityType
<1>2. /\ R \in [0..N -> SUBSET Evidence] /\ R[0] = S
      /\ \A n \in 1..N : R[n] = Round(R[n - 1], meaning)
  BY RoundsUnfold
<1>3. \A T : T \subseteq Round(T, meaning)
  BY DEF Round, Brought
<1> HIDE DEF R, N
<1>4. ASSUME NEW n \in Nat, n + 1 <= N
      PROVE  /\ R[n] \subseteq Evidence /\ R[n + 1] \subseteq Evidence
             /\ R[n + 1] = Round(R[n], meaning)
  <2>1. n \in 0..N /\ n + 1 \in 1..N /\ n + 1 \in 0..N /\ (n + 1) - 1 = n
    BY <1>1, <1>4
  <2> QED BY <1>2, <2>1
<1> DEFINE P == {n \in Nat : n <= N => Fixed(n) \/ Cardinality(R[n]) >= n}
<1>5. 0 \in P
  <2>1. IsFiniteSet(R[0])
    BY <1>2, FS_Subset
  <2>2. Cardinality(R[0]) \in Nat
    BY <2>1, FS_CardinalityType
  <2> QED BY <2>2
<1>6. ASSUME NEW n \in Nat, n \in P PROVE n + 1 \in P
  <2> SUFFICES ASSUME n + 1 <= N PROVE Fixed(n + 1) \/ Cardinality(R[n + 1]) >= n + 1
    OBVIOUS
  <2>1. n <= N
    BY <1>1
  <2>2. CASE Fixed(n)
    BY <1>4, <2>2
  <2>3. CASE ~Fixed(n)
    <3>1. Cardinality(R[n]) >= n
      BY <1>6, <2>1, <2>3
    <3>2. R[n] \subseteq R[n + 1] /\ R[n] # R[n + 1] /\ R[n + 1] \subseteq Evidence
      BY <1>3, <1>4, <2>3
    <3>3. IsFiniteSet(R[n + 1]) /\ IsFiniteSet(R[n])
      BY <3>2, FS_Subset
    <3>4. Cardinality(R[n]) < Cardinality(R[n + 1])
      BY <3>2, <3>3, FS_Subset, FS_CardinalityType
    <3>5. Cardinality(R[n]) \in Nat /\ Cardinality(R[n + 1]) \in Nat
      BY <3>3, FS_CardinalityType
    <3> QED BY <3>1, <3>4, <3>5
  <2> QED BY <2>2, <2>3
<1> HIDE DEF P
<1>7. \A n \in Nat : n \in P
  BY <1>5, <1>6, NumberInduction
<1>8. Fixed(N)
  <2>1. Fixed(N) \/ Cardinality(R[N]) >= N
    BY <1>1, <1>7 DEF P
  <2>2. R[N] \subseteq Evidence
    BY <1>1, <1>2
  <2>3. CASE Cardinality(R[N]) >= N
    <3>1. IsFiniteSet(R[N]) /\ Cardinality(R[N]) <= N /\ (Cardinality(R[N]) = N => R[N] = Evidence)
      BY <2>2, FS_Subset, FS_CardinalityType DEF N
    <3>2. Cardinality(R[N]) \in Nat
      BY <3>1, FS_CardinalityType
    <3>3. R[N] = Evidence
      BY <1>1, <2>3, <3>1, <3>2
    <3>4. \A q \in OpenDeps(R[N]) : q[2] \in Refs
      BY DEF OpenDeps
    <3>5. Round(R[N], meaning) \subseteq Evidence
      BY <2>2, <3>4 DEF Round, Brought
    <3> QED BY <1>3, <3>3, <3>5
  <2> QED BY <2>1, <2>3
<1>9. ASSUME NEW n \in 0..N, Fixed(n) PROVE R[N] = R[n]
  <2> DEFINE Q == {k \in Nat : n + k <= N => R[n + k] = R[n]}
  <2>0. n \in Nat /\ n <= N
    BY <1>1
  <2>1. 0 \in Q
    BY <2>0
  <2>2. ASSUME NEW k \in Nat, k \in Q PROVE k + 1 \in Q
    <3> SUFFICES ASSUME n + (k + 1) <= N PROVE R[n + (k + 1)] = R[n]
      OBVIOUS
    <3>1. n + k \in Nat /\ (n + k) + 1 <= N /\ n + k <= N /\ (n + k) + 1 = n + (k + 1)
      BY <1>1, <2>0
    <3>2. R[n + k] = R[n]
      BY <2>2, <3>1
    <3>3. R[(n + k) + 1] = Round(R[n + k], meaning)
      BY <1>4, <3>1
    <3> QED BY <1>9, <3>1, <3>2, <3>3
  <2> HIDE DEF Q
  <2>3. \A k \in Nat : k \in Q
    BY <2>1, <2>2, NumberInduction
  <2>4. N - n \in Nat /\ n + (N - n) = N
    BY <1>1, <2>0
  <2>5. N - n \in Q
    BY <2>3, <2>4
  <2> QED BY <1>1, <2>4, <2>5 DEF Q
<1> QED BY <1>8, <1>9 DEF R, N

----------------------------------------------------------------------------
(* Quiet compilations: what references mean                                *)

First(o, S) == CHOOSE e \in S : \A f \in S : o[e] <= o[f]

\* Where numbers differ only one element comes first.
LEMMA FirstIsUnique ==
  ASSUME NEW o, NEW S, NEW e \in S, \A f \in S : o[f] \in Nat,
         \A f \in S : o[e] <= o[f], \A f, g \in S : o[f] = o[g] => f = g
  PROVE  First(o, S) = e
<1>1. First(o, S) \in S /\ \A f \in S : o[First(o, S)] <= o[f]
  <2> HIDE DEF First
  <2> QED BY DEF First
<1>2. o[First(o, S)] <= o[e] /\ o[e] <= o[First(o, S)]
  BY <1>1
<1>3. o[First(o, S)] = o[e]
  BY <1>1, <1>2
<1> QED BY <1>1, <1>3

\* What is observed later does not come first.
LEMMA FirstStays ==
  ASSUME TypeOK, TypeOK', NumbersDiffer, NEW S \in SUBSET Stored,
         \A e \in S : obs'[e] = obs[e]
  PROVE  FirstObserved(S)' = FirstObserved(S)
<1>1. FirstObserved(S) = First(obs, S) /\ FirstObserved(S)' = First(obs', S)
  BY DEF FirstObserved, First
<1>2. CASE S = {}
  <2>1. ASSUME NEW o, NEW q PROVE First(o, {}) = First(q, {})
    BY DEF First
  <2> QED BY <1>1, <1>2, <2>1
<1>3. CASE S # {}
  <2>1. \A f \in S : obs[f] \in Nat /\ obs'[f] \in Nat
    BY DEF TypeOK, Stored
  <2>2. PICK e \in S : \A f \in S : obs[e] <= obs[f]
    <3> DEFINE T == {obs[f] : f \in S}
    <3>1. T \in SUBSET Nat /\ T # {}
      BY <1>3, <2>1
    <3>2. PICK n \in T : \A m \in T : n <= m
      <4> HIDE DEF T
      <4> QED BY <3>1, LeastNatural
    <3> QED BY <3>2
  <2>3. \A f, g \in S : obs[f] = obs[g] => f = g
    BY DEF NumbersDiffer
  <2>4. First(obs, S) = e
    BY <2>1, <2>2, <2>3, FirstIsUnique
  <2>5. First(obs', S) = e
    BY <2>1, <2>2, <2>3, FirstIsUnique
  <2> QED BY <1>1, <2>4, <2>5
<1> QED BY <1>2, <1>3

\* A reference means at most one object, which answers to it; one that answers to
\* no stored object means nothing.
LEMMA MeaningsType ==
  ASSUME TypeOK, NEW L \in SUBSET Evidence
  PROVE  /\ Meanings(L) \in [Refs -> SUBSET Evidence]
         /\ \A d \in Refs : Meanings(L)[d] \subseteq L
         /\ Answers(Meanings(L))
         /\ \A d \in Refs : Meanings(L)[d] = {} => d \notin KnownRefs(L)
<1>1. ASSUME NEW d \in Refs
      PROVE  /\ Meaning(d, L) \subseteq L
             /\ \A e \in Meaning(d, L) : d \in KnownRefs({e})
             /\ Meaning(d, L) = {} => d \notin KnownRefs(L)
  <2> DEFINE carriers == {e \in L : d \in Profile[e].external_refs}
  <2>1. CASE d \in L
    <3>1. Meaning(d, L) = {d}
      BY <2>1 DEF Meaning
    <3> QED BY <2>1, <3>1 DEF KnownRefs
  <2>2. CASE d \notin L /\ carriers = {}
    <3>1. Meaning(d, L) = {}
      BY <2>2 DEF Meaning
    <3>2. d \notin KnownRefs(L)
      BY <2>2 DEF KnownRefs
    <3> QED BY <3>1, <3>2
  <2>3. CASE d \notin L /\ carriers # {}
    <3> DEFINE e == FirstObserved(carriers)
    <3>1. Meaning(d, L) = {e}
      BY <2>3 DEF Meaning
    <3>2. carriers \in SUBSET Evidence
      OBVIOUS
    <3>3. e \in carriers
      <4> HIDE DEF carriers
      <4> QED BY <2>3, <3>2, FirstObservedIsMember DEF TypeOK
    <3> HIDE DEF e
    <3> QED BY <3>1, <3>3 DEF KnownRefs
  <2> QED BY <2>1, <2>2, <2>3
<1>2. DOMAIN Meanings(L) = Refs /\ \A d \in Refs : Meanings(L)[d] = Meaning(d, L)
  BY DEF Meanings
<1>3. Meanings(L) = [d \in Refs |-> Meanings(L)[d]]
  BY DEF Meanings
<1> HIDE DEF Meanings
<1>4. \A d \in Refs : Meanings(L)[d] \in SUBSET Evidence
  BY <1>1, <1>2
<1> QED BY <1>1, <1>2, <1>3, <1>4 DEF Answers

\* What was stored keeps its meaning, whatever is added.
LEMMA MeaningsStay ==
  ASSUME TypeOK, TypeOK', NumbersDiffer, NEW L \in SUBSET Stored,
         \A e \in L : obs'[e] = obs[e]
  PROVE  Meanings(L)' = Meanings(L)
<1>1. ASSUME NEW d \in Refs PROVE Meaning(d, L)' = Meaning(d, L)
  <2> DEFINE carriers == {e \in L : d \in Profile[e].external_refs}
  <2>1. FirstObserved(carriers)' = FirstObserved(carriers)
    <3>1. carriers \in SUBSET Stored /\ \A e \in carriers : obs'[e] = obs[e]
      OBVIOUS
    <3> HIDE DEF carriers
    <3> QED BY <3>1, FirstStays
  <2> QED BY <2>1 DEF Meaning
<1>2. /\ Meanings(L) = [d \in Refs |-> Meaning(d, L)]
      /\ Meanings(L)' = [d \in Refs |-> Meaning(d, L)']
  BY DEF Meanings
<1> QED BY <1>1, <1>2

----------------------------------------------------------------------------
(* Quiet compilations: reasons are collected one by one                    *)

\* Reasons of one kind.
LEMMA EachGrows ==
  /\ \A k, X, Y : Each(k, X \cup Y) = Each(k, X) \cup Each(k, Y)
  /\ \A k, x : Each(k, {x}) = {Because(k, x)}
  /\ \A k : Each(k, {}) = {}
<1>1. \A k, X, Y : Each(k, X \cup Y) = Each(k, X) \cup Each(k, Y)
  BY DEF Each
<1>2. \A k, x : Each(k, {x}) = {Because(k, x)}
  BY DEF Each
<1>3. \A k : Each(k, {}) = {}
  BY DEF Each
<1> QED BY <1>1, <1>2, <1>3

\* Of what is found next, its doubts are added, if no second passes at the look.
LEMMA FlawsGrow ==
  ASSUME NEW E, NEW e
  PROVE  /\ Flaws(E \cup {e}, now) = Flaws(E, now) \cup Doubts(e, now)
         /\ Flaws({}, now) = {}
<1> DEFINE Old(X) == {f \in X : Expired(f, now)}
           Off(X) == {f \in X : ~Expired(f, now) /\ ~CanSupport(f, now)}
           fresh == ~Expired(e, now)
           fit == Expired(e, now) \/ CanSupport(e, now)
<1>1. /\ Flaws(E \cup {e}, now) = Each("expired", Old(E \cup {e})) \cup Each("inactive", Off(E \cup {e}))
      /\ Flaws(E, now) = Each("expired", Old(E)) \cup Each("inactive", Off(E))
      /\ Flaws({}, now) = Each("expired", Old({})) \cup Each("inactive", Off({}))
  BY DEF Flaws
<1>2. Old({}) = {} /\ Off({}) = {}
  OBVIOUS
<1>3. Old(E \cup {e}) = Old(E) \cup (IF fresh THEN {} ELSE {e})
  <2>1. fresh => Old(E \cup {e}) = Old(E)
    OBVIOUS
  <2>2. ~fresh => Old(E \cup {e}) = Old(E) \cup {e}
    OBVIOUS
  <2> QED BY <2>1, <2>2
<1>4. Off(E \cup {e}) = Off(E) \cup (IF fit THEN {} ELSE {e})
  <2>1. fit => Off(E \cup {e}) = Off(E)
    OBVIOUS
  <2>2. ~fit => Off(E \cup {e}) = Off(E) \cup {e}
    OBVIOUS
  <2> QED BY <2>1, <2>2
<1>5. Doubts(e, now) = (IF fresh THEN {} ELSE {Because("expired", e)})
                    \cup (IF fit THEN {} ELSE {Because("inactive", e)})
  BY DEF Doubts
<1> HIDE DEF Old, Off, fresh, fit
<1>7. Each("expired", Old(E \cup {e})) =
        Each("expired", Old(E)) \cup (IF fresh THEN {} ELSE {Because("expired", e)})
  <2>1. CASE fresh
    BY <1>3, <2>1
  <2>2. CASE ~fresh
    <3>1. Old(E \cup {e}) = Old(E) \cup {e}
      BY <1>3, <2>2
    <3>2. Each("expired", Old(E) \cup {e}) = Each("expired", Old(E)) \cup Each("expired", {e})
      BY EachGrows
    <3>3. Each("expired", {e}) = {Because("expired", e)}
      BY EachGrows
    <3> QED BY <2>2, <3>1, <3>2, <3>3
  <2> QED BY <2>1, <2>2
<1>8. Each("inactive", Off(E \cup {e})) =
        Each("inactive", Off(E)) \cup (IF fit THEN {} ELSE {Because("inactive", e)})
  <2>1. CASE fit
    BY <1>4, <2>1
  <2>2. CASE ~fit
    <3>1. Off(E \cup {e}) = Off(E) \cup {e}
      BY <1>4, <2>2
    <3>2. Each("inactive", Off(E) \cup {e}) = Each("inactive", Off(E)) \cup Each("inactive", {e})
      BY EachGrows
    <3>3. Each("inactive", {e}) = {Because("inactive", e)}
      BY EachGrows
    <3> QED BY <2>2, <3>1, <3>2, <3>3
  <2> QED BY <2>1, <2>2
<1>9. Flaws(E \cup {e}, now) = Flaws(E, now) \cup Doubts(e, now)
  BY <1>1, <1>5, <1>7, <1>8
<1> QED BY <1>1, <1>2, <1>9, EachGrows

\* What is named and not stored is missing.
Missing(x) == {Because("missing evidence", x)}

\* What is named next adds at most that it is missing.
LEMMA NamingGrows ==
  ASSUME NEW r, NEW X, NEW x, NEW L
  PROVE  NamingReasons(r, X \cup {x}, L) =
           NamingReasons(r, X, L) \cup (IF x \in L THEN {} ELSE Missing(x))
<1>1. (X \cup {x}) \ L = (X \ L) \cup (IF x \in L THEN {} ELSE {x})
  <2>1. x \in L => (X \cup {x}) \ L = X \ L
    OBVIOUS
  <2>2. x \notin L => (X \cup {x}) \ L = (X \ L) \cup {x}
    OBVIOUS
  <2> QED BY <2>1, <2>2
<1>3. Each("missing evidence", (X \cup {x}) \ L) =
        Each("missing evidence", X \ L)
          \cup (IF x \in L THEN {} ELSE Missing(x))
  <2>1. CASE x \in L
    BY <1>1, <2>1
  <2>2. CASE x \notin L
    <3>1. (X \cup {x}) \ L = (X \ L) \cup {x}
      BY <1>1, <2>2
    <3>2. Each("missing evidence", (X \ L) \cup {x}) = Each("missing evidence", X \ L) \cup Each("missing evidence", {x})
      <4> DEFINE k == "missing evidence"
                 Y == X \ L
      <4> HIDE DEF k, Y
      <4>1. Each(k, Y \cup {x}) = Each(k, Y) \cup Each(k, {x})
        BY EachGrows
      <4> QED BY <4>1 DEF k, Y
    <3>3. Each("missing evidence", {x}) = Missing(x)
      BY EachGrows DEF Missing
    <3> QED BY <2>2, <3>1, <3>2, <3>3
  <2> QED BY <2>1, <2>2
<1> QED BY <1>3 DEF NamingReasons

\* A scope that nothing supports is a reason.
Unsupported(s) == {Because("unsupported scope", s)}

\* A scope that is checked next adds at most that nothing supports it.
LEMMA ScopesGrow ==
  ASSUME NEW A, NEW s, NEW E, NEW t
  PROVE  /\ (\E e \in E : Profile[e].scope = s /\ CanSupport(e, t)) =>
              ScopeReasons(A \cup {s}, E, t) = ScopeReasons(A, E, t)
         /\ ~(\E e \in E : Profile[e].scope = s /\ CanSupport(e, t)) =>
              ScopeReasons(A \cup {s}, E, t) = ScopeReasons(A, E, t) \cup Unsupported(s)
         /\ ScopeReasons({}, E, t) = {}
<1> DEFINE Bad(X) == {q \in X : \A e \in E : Profile[e].scope = q => ~CanSupport(e, t)}
           good == \E e \in E : Profile[e].scope = s /\ CanSupport(e, t)
<1>1. /\ ScopeReasons(A \cup {s}, E, t) = Each("unsupported scope", Bad(A \cup {s}))
      /\ ScopeReasons(A, E, t) = Each("unsupported scope", Bad(A))
      /\ ScopeReasons({}, E, t) = Each("unsupported scope", Bad({}))
  BY DEF ScopeReasons
<1>2. Bad({}) = {}
  OBVIOUS
<1>3. Bad(A \cup {s}) = Bad(A) \cup (IF good THEN {} ELSE {s})
  <2>1. good => Bad(A \cup {s}) = Bad(A)
    OBVIOUS
  <2>2. ~good => Bad(A \cup {s}) = Bad(A) \cup {s}
    OBVIOUS
  <2> QED BY <2>1, <2>2
<1> HIDE DEF Bad, good
<1>4. Each("unsupported scope", Bad(A \cup {s})) =
        Each("unsupported scope", Bad(A)) \cup (IF good THEN {} ELSE Unsupported(s))
  <2>1. CASE good
    BY <1>3, <2>1
  <2>2. CASE ~good
    <3>1. Bad(A \cup {s}) = Bad(A) \cup {s}
      BY <1>3, <2>2
    <3>2. Each("unsupported scope", Bad(A) \cup {s}) = Each("unsupported scope", Bad(A)) \cup Each("unsupported scope", {s})
      <4> DEFINE k == "unsupported scope"
                 Y == Bad(A)
      <4> HIDE DEF k, Y
      <4>1. Each(k, Y \cup {s}) = Each(k, Y) \cup Each(k, {s})
        BY EachGrows
      <4> QED BY <4>1 DEF k, Y
    <3>3. Each("unsupported scope", {s}) = Unsupported(s)
      BY EachGrows DEF Unsupported
    <3> QED BY <2>2, <3>1, <3>2, <3>3
  <2> QED BY <2>1, <2>2
<1> QED BY <1>1, <1>2, <1>4, EachGrows DEF good

\* A dependency that leads nowhere is a reason.
LEMMA DependencyReasonsGrow ==
  /\ \A X, d : DependencyReasons(X \cup {d}) =
                 DependencyReasons(X) \cup {Because("missing dependency", d)}
  /\ DependencyReasons({}) = {}
<1>1. ASSUME NEW X, NEW d
      PROVE  DependencyReasons(X \cup {d}) =
               DependencyReasons(X) \cup {Because("missing dependency", d)}
  <2> DEFINE k == "missing dependency"
  <2> HIDE DEF k
  <2>1. Each(k, X \cup {d}) = Each(k, X) \cup Each(k, {d}) /\ Each(k, {d}) = {Because(k, d)}
    BY EachGrows
  <2>2. Each(k, X \cup {d}) = Each(k, X) \cup {Because(k, d)}
    BY <2>1
  <2> QED BY <2>2 DEF k, DependencyReasons
<1>2. DependencyReasons({}) = {}
  BY DEF DependencyReasons, Each
<1> QED BY <1>1, <1>2

----------------------------------------------------------------------------
(* Quiet compilations: each step                                           *)

\* As long as nothing is added, references mean the same.
LEMMA SameStoreSameMeaning ==
  ASSUME obs' = obs
  PROVE  Stored' = Stored /\ Meanings(Stored)' = Meanings(Stored)
<1>1. Stored' = Stored
  BY DEF Stored
<1>2. ASSUME NEW d \in Refs PROVE Meaning(d, Stored)' = Meaning(d, Stored)
  <2> DEFINE carriers == {e \in Stored : d \in Profile[e].external_refs}
             carriersNext == {e \in Stored' : d \in Profile[e].external_refs}
  <2>1. /\ FirstObserved(carriers) = First(obs, carriers)
        /\ FirstObserved(carriers)' = First(obs', carriersNext)
    BY DEF FirstObserved, First
  <2>2. carriersNext = carriers
    BY <1>1
  <2>3. FirstObserved(carriers)' = FirstObserved(carriers)
    <3> HIDE DEF carriers, carriersNext
    <3> QED BY <2>1, <2>2
  <2> QED BY <1>1, <2>2, <2>3 DEF Meaning
<1>3. /\ Meanings(Stored) = [d \in Refs |-> Meaning(d, Stored)]
      /\ Meanings(Stored)' = [d \in Refs |-> Meaning(d, Stored)']
  BY DEF Meanings
<1> QED BY <1>1, <1>2, <1>3

\* What a compiler has named so far.
LEMMA GatherStaysExact ==
  ASSUME TypeOK, NEW c \in Compilers, Kept(c), obs' = obs, now' = now,
         request'[c] = request[c], pc[c] = "gather" => GatherIsExact(c),
         NetworkFound(c) \/ ListScope(c) \/ FetchPresent(c) \/ FetchMissing(c)
  PROVE  GatherIsExact(c)'
<1> USE DEF TypeOK
<1> DEFINE r == request[c]
           L == Stored
           want == Requires[r]
           SoFar(X) == Asked(c) \cup {e \in L : Profile[e].scope \in want.scopes \ X}
<1>1. L' = L
  BY SameStoreSameMeaning
<1>2. NamedSoFar(c) = SoFar(scopesLeft[c]) /\ NamedSoFar(c)' = SoFar(scopesLeft'[c])
  BY <1>1 DEF NamedSoFar, Asked
<1>3. pc[c] = "gather" =>
        /\ scopesLeft[c] \subseteq want.scopes
        /\ scopesLeft[c] # {} => idsLeft[c] = SoFar(scopesLeft[c])
        /\ idsLeft[c] \subseteq SoFar(scopesLeft[c])
        /\ found[c] = (SoFar(scopesLeft[c]) \ idsLeft[c]) \cap L
        /\ reasons[c] = NamingReasons(r, SoFar(scopesLeft[c]) \ idsLeft[c], L) \cup Flaws(found[c], now)
  BY <1>2 DEF GatherIsExact
<1>4. ASSUME scopesLeft'[c] \subseteq want.scopes,
             scopesLeft'[c] # {} => idsLeft'[c] = SoFar(scopesLeft'[c]),
             idsLeft'[c] \subseteq SoFar(scopesLeft'[c]),
             found'[c] = (SoFar(scopesLeft'[c]) \ idsLeft'[c]) \cap L,
             reasons'[c] = NamingReasons(r, SoFar(scopesLeft'[c]) \ idsLeft'[c], L)
                             \cup Flaws(found'[c], now)
      PROVE  GatherIsExact(c)'
  BY <1>1, <1>2, <1>4 DEF GatherIsExact
<1> HIDE DEF L, SoFar
<1>5. CASE NetworkFound(c)
  <2>1. /\ scopesLeft'[c] = want.scopes /\ idsLeft'[c] = Asked(c) /\ found'[c] = found[c]
        /\ reasons'[c] = IF {} \in Items[want.network] THEN {Because("no evidence", want.network)} ELSE {}
        /\ pc[c] = "network"
    BY <1>5 DEF NetworkFound, Asked
  <2>2. found[c] = {}
    BY <2>1 DEF Kept, FoundIsFit
  <2>3. SoFar(want.scopes) = Asked(c)
    BY DEF SoFar
  <2>4. NamingReasons(r, {}, L) =
          IF {} \in Items[want.network] THEN {Because("no evidence", want.network)} ELSE {}
    <3> DEFINE bad == {n \in {want.network} : {} \in Items[n]}
               k == "no evidence"
               m == "missing evidence"
    <3>1. NamingReasons(r, {}, L) = Each(k, bad) \cup Each(m, {} \ L)
      BY DEF NamingReasons
    <3> HIDE DEF k, m
    <3>2. Each(m, {} \ L) = {}
      BY DEF Each
    <3>3. CASE {} \in Items[want.network]
      <4>1. bad = {want.network}
        BY <3>3
      <4>2. Each(k, {want.network}) = {Because(k, want.network)}
        BY EachGrows
      <4>3. NamingReasons(r, {}, L) = {Because(k, want.network)}
        BY <3>1, <3>2, <4>1, <4>2
      <4> QED BY <3>3, <4>3 DEF k
    <3>4. CASE {} \notin Items[want.network]
      <4>1. bad = {}
        BY <3>4
      <4>2. Each(k, {}) = {}
        BY EachGrows
      <4>3. NamingReasons(r, {}, L) = {}
        BY <3>1, <3>2, <4>1, <4>2
      <4> QED BY <3>4, <4>3
    <3> QED BY <3>3, <3>4
  <2>5. Flaws({}, now) = {}
    BY FlawsGrow
  <2>6. SoFar(scopesLeft'[c]) \ idsLeft'[c] = {}
    BY <2>1, <2>3
  <2>7. reasons'[c] = NamingReasons(r, SoFar(scopesLeft'[c]) \ idsLeft'[c], L) \cup Flaws(found'[c], now)
    BY <2>1, <2>2, <2>4, <2>5, <2>6
  <2> QED BY <1>4, <2>1, <2>2, <2>3, <2>6, <2>7
<1>6. CASE ListScope(c)
  <2>1. PICK s \in scopesLeft[c] : /\ scopesLeft'[c] = scopesLeft[c] \ {s}
                                   /\ idsLeft'[c] = idsLeft[c] \cup InScope(s)
    BY <1>6 DEF ListScope
  <2>2. pc[c] = "gather" /\ UNCHANGED <<found, reasons>>
    BY <1>6 DEF ListScope
  <2>3. SoFar(scopesLeft[c] \ {s}) = SoFar(scopesLeft[c]) \cup InScope(s)
    <3> DEFINE Of(X) == {e \in L : Profile[e].scope \in X}
    <3>1. SoFar(scopesLeft[c] \ {s}) = Asked(c) \cup Of(want.scopes \ (scopesLeft[c] \ {s}))
      BY DEF SoFar
    <3>2. SoFar(scopesLeft[c]) = Asked(c) \cup Of(want.scopes \ scopesLeft[c])
      BY DEF SoFar
    <3>3. want.scopes \ (scopesLeft[c] \ {s}) = (want.scopes \ scopesLeft[c]) \cup {s}
      BY <1>3, <2>1, <2>2
    <3>4. InScope(s) = {e \in L : Profile[e].scope = s}
      BY DEF InScope, L
    <3>5. ASSUME NEW A PROVE Of(A \cup {s}) = Of(A) \cup InScope(s)
      BY <3>4
    <3> HIDE DEF Of, want
    <3>6. Of(want.scopes \ (scopesLeft[c] \ {s})) = Of(want.scopes \ scopesLeft[c]) \cup InScope(s)
      BY <3>3, <3>5
    <3> QED BY <3>1, <3>2, <3>6
  <2>4. idsLeft[c] = SoFar(scopesLeft[c]) /\ idsLeft'[c] = SoFar(scopesLeft'[c])
    BY <1>3, <2>1, <2>2, <2>3
  <2>5. SoFar(scopesLeft[c]) \ idsLeft[c] = SoFar(scopesLeft'[c]) \ idsLeft'[c]
    BY <2>4
  <2> QED BY <1>3, <1>4, <2>1, <2>2, <2>4, <2>5
<1>7. CASE FetchPresent(c)
  <2>1. PICK e \in idsLeft[c] \cap L : /\ idsLeft'[c] = idsLeft[c] \ {e}
                                       /\ found'[c] = found[c] \cup {e}
                                       /\ reasons'[c] = reasons[c] \cup Doubts(e, now)
    BY <1>7 DEF FetchPresent, L
  <2>2. pc[c] = "gather" /\ scopesLeft[c] = {} /\ scopesLeft' = scopesLeft
    BY <1>7 DEF FetchPresent
  <2> DEFINE seen == SoFar(scopesLeft[c]) \ idsLeft[c]
  <2>3. SoFar(scopesLeft'[c]) \ idsLeft'[c] = seen \cup {e}
    BY <1>3, <2>1, <2>2
  <2>4. NamingReasons(r, seen \cup {e}, L) = NamingReasons(r, seen, L)
    <3> HIDE DEF seen, r
    <3>1. NamingReasons(r, seen \cup {e}, L) =
            NamingReasons(r, seen, L) \cup (IF e \in L THEN {} ELSE Missing(e))
      BY NamingGrows
    <3> QED BY <2>1, <3>1
  <2>5. Flaws(found'[c], now) = Flaws(found[c], now) \cup Doubts(e, now)
    BY <2>1, FlawsGrow
  <2>6. reasons'[c] = NamingReasons(r, SoFar(scopesLeft'[c]) \ idsLeft'[c], L) \cup Flaws(found'[c], now)
    BY <1>3, <2>1, <2>2, <2>3, <2>4, <2>5
  <2>7. found'[c] = (SoFar(scopesLeft'[c]) \ idsLeft'[c]) \cap L
    BY <1>3, <2>1, <2>2, <2>3
  <2> QED BY <1>3, <1>4, <2>1, <2>2, <2>6, <2>7
<1>8. CASE FetchMissing(c)
  <2>1. PICK y \in idsLeft[c] \ L :
          /\ idsLeft'[c] = idsLeft[c] \ {y}
          /\ reasons'[c] = reasons[c] \cup {Because("missing evidence", y)}
    BY <1>8 DEF FetchMissing, L
  <2>2. pc[c] = "gather" /\ scopesLeft[c] = {} /\ scopesLeft' = scopesLeft /\ found' = found
    BY <1>8 DEF FetchMissing
  <2> DEFINE seen == SoFar(scopesLeft[c]) \ idsLeft[c]
  <2>3. SoFar(scopesLeft'[c]) \ idsLeft'[c] = seen \cup {y}
    BY <1>3, <2>1, <2>2
  <2>4. NamingReasons(r, seen \cup {y}, L) =
          NamingReasons(r, seen, L) \cup {Because("missing evidence", y)}
    <3> HIDE DEF seen, r
    <3>1. NamingReasons(r, seen \cup {y}, L) =
            NamingReasons(r, seen, L) \cup (IF y \in L THEN {} ELSE Missing(y))
      BY NamingGrows
    <3>2. NamingReasons(r, seen \cup {y}, L) = NamingReasons(r, seen, L) \cup Missing(y)
      BY <2>1, <3>1
    <3> QED BY <3>2 DEF Missing
  <2>5. reasons'[c] = NamingReasons(r, SoFar(scopesLeft'[c]) \ idsLeft'[c], L) \cup Flaws(found'[c], now)
    BY <1>3, <2>1, <2>2, <2>3, <2>4
  <2>6. found'[c] = (SoFar(scopesLeft'[c]) \ idsLeft'[c]) \cap L
    BY <1>3, <2>1, <2>2, <2>3
  <2> QED BY <1>3, <1>4, <2>1, <2>2, <2>5, <2>6
<1> QED BY <1>5, <1>6, <1>7, <1>8

\* What holds of any round that starts from what is stored.
LEMMA RoundsInLedger ==
  ASSUME TypeOK, IsFiniteSet(Evidence), NEW c \in Compilers
  PROVE  LET after == AfterRound(request[c], Stored)
             meaning == Meanings(Stored)
             N == Cardinality(Evidence) IN
         /\ N \in Nat
         /\ meaning \in [Refs -> SUBSET Evidence] /\ Answers(meaning)
         /\ \A d \in Refs : meaning[d] = {} => d \notin KnownRefs(Stored)
         /\ after[0] = Named(request[c], Stored) \cap Stored
         /\ \A n \in 0..N : after[n] \in SUBSET Evidence
         /\ \A n \in 1..N : after[n] = Round(after[n - 1], meaning)
         /\ Round(after[N], meaning) = after[N]
         /\ \A n \in 0..N : Round(after[n], meaning) = after[n] => Closure(request[c], Stored) = after[n]
<1> DEFINE S == Named(request[c], Stored) \cap Stored
           meaning == Meanings(Stored)
           R == Rounds(S, meaning)
           N == Cardinality(Evidence)
<1>1. Stored \in SUBSET Evidence /\ S \in SUBSET Evidence
  BY DEF Stored
<1>2. /\ meaning \in [Refs -> SUBSET Evidence] /\ Answers(meaning)
      /\ \A d \in Refs : meaning[d] = {} => d \notin KnownRefs(Stored)
  BY <1>1, MeaningsType
<1>3. N \in Nat
  BY FS_CardinalityType
<1>4. AfterRound(request[c], Stored) = R /\ Closure(request[c], Stored) = R[N]
  BY DEF AfterRound, Closure
<1> HIDE DEF meaning, S
<1>5. R \in [0..N -> SUBSET Evidence] /\ R[0] = S /\ \A n \in 1..N : R[n] = Round(R[n - 1], meaning)
  BY <1>1, <1>2, RoundsUnfold
<1>6. Round(R[N], meaning) = R[N] /\ \A n \in 0..N : Round(R[n], meaning) = R[n] => R[N] = R[n]
  BY <1>1, <1>2, RoundsEnd
<1> HIDE DEF R, N
<1> QED BY <1>2, <1>3, <1>4, <1>5, <1>6 DEF meaning, S, N

\* A point of the definition that is reached by a step that adds nothing.
LEMMA RoundReached ==
  ASSUME NEW c \in Compilers, obs' = obs, now' = now, request'[c] = request[c],
         NEW n \in 0..Cardinality(Evidence), NEW S, S = AfterRound(request[c], Stored)[n],
         NEW done \in SUBSET OpenDeps(S), NEW dead \in SUBSET OpenRefs(S),
         depsLeft'[c] \subseteq OpenDeps(S),
         pc'[c] = "close" => OpenDeps(S) \subseteq depsLeft'[c] \cup done,
         pc'[c] = "scan" =>
           /\ dep'[c] \notin Stored
           /\ \E p \in OpenDeps(S) : p[2] = dep'[c] /\ OpenDeps(S) \subseteq depsLeft'[c] \cup done \cup {p},
         found'[c] = S \cup Brought(done, Meanings(Stored)),
         changed'[c] <=> \E p \in done : Meanings(Stored)[p[2]] # {},
         Unresolved(done, Meanings(Stored)) \subseteq dead,
         dead \subseteq Unresolved(OpenDeps(S), Meanings(Stored)),
         reasons'[c] = NamingReasons(request[c], Named(request[c], Stored), Stored)
                         \cup Flaws(found'[c], now) \cup DependencyReasons(dead)
  PROVE  ClosureIsExact(c)'
<1> DEFINE after == AfterRound(request[c], Stored)
<1>1. Stored' = Stored /\ Meanings(Stored)' = Meanings(Stored)
  BY SameStoreSameMeaning
<1>2. Named(request[c], Stored)' = Named(request[c], Stored)
  BY <1>1 DEF Named
<1>3. AfterRound(request[c], Stored)' = after
  BY <1>1, <1>2 DEF AfterRound
<1>4. Flaws(found[c], now)' = Flaws(found'[c], now)
  BY DEF Flaws, Each, Expired, CanSupport
<1>5. after[n]' = S
  BY <1>3
<1>6. RoundIsExact(c, after[n], done, dead)'
  <2> HIDE DEF after
  <2> QED BY <1>1, <1>2, <1>4, <1>5 DEF RoundIsExact
<1>7. /\ done \in SUBSET OpenDeps(after[n]')
      /\ dead \in SUBSET OpenRefs(after[n]')
  BY <1>5
<1> QED BY <1>6, <1>7 DEF ClosureIsExact

\* A round starts with what the definition has at that point.
LEMMA StartRoundIsExact ==
  ASSUME TypeOK, IsFiniteSet(Evidence), NEW c \in Compilers, Kept(c),
         obs' = obs, now' = now, StartRound(c),
         pc[c] = "gather" => GatherIsExact(c),
         pc[c] \in {"close", "scan"} => ClosureIsExact(c)
  PROVE  ClosureIsExact(c)'
<1> DEFINE r == request[c]
           L == Stored
           meaning == Meanings(L)
           after == AfterRound(r, L)
           N == Cardinality(Evidence)
<1>1. /\ pc'[c] = "close" /\ depsLeft'[c] = OpenDeps(found[c]) /\ changed'[c] = FALSE
      /\ found' = found /\ reasons' = reasons /\ request' = request
      /\ \/ pc[c] = "gather" /\ scopesLeft[c] = {} /\ idsLeft[c] = {}
         \/ pc[c] = "close" /\ depsLeft[c] = {} /\ changed[c]
  BY DEF StartRound, TypeOK
<1>2. /\ N \in Nat
      /\ meaning \in [Refs -> SUBSET Evidence] /\ Answers(meaning)
      /\ \A d \in Refs : meaning[d] = {} => d \notin KnownRefs(L)
      /\ after[0] = Named(r, L) \cap L
      /\ \A n \in 0..N : after[n] \in SUBSET Evidence
      /\ \A n \in 1..N : after[n] = Round(after[n - 1], meaning)
      /\ Round(after[N], meaning) = after[N]
  BY RoundsInLedger
<1> HIDE DEF meaning, after, N, L, r
<1>3. ASSUME NEW n \in 0..N, found[c] = after[n],
             NEW dead \in SUBSET OpenRefs(found[c]),
             dead \subseteq Unresolved(OpenDeps(found[c]), meaning),
             reasons[c] = NamingReasons(r, Named(r, L), L) \cup Flaws(found[c], now)
                            \cup DependencyReasons(dead)
      PROVE  ClosureIsExact(c)'
  <2> DEFINE S == found[c]
             done == {}
  <2>1. done \in SUBSET OpenDeps(S) /\ Brought(done, meaning) = {} /\ Unresolved(done, meaning) = {}
    BY DEF Brought, Unresolved
  <2>2. found'[c] = S \cup Brought(done, meaning)
    BY <1>1, <2>1
  <2>3. changed'[c] <=> \E p \in done : meaning[p[2]] # {}
    BY <1>1
  <2>4. /\ depsLeft'[c] \subseteq OpenDeps(S)
        /\ pc'[c] = "close" => OpenDeps(S) \subseteq depsLeft'[c] \cup done
        /\ pc'[c] # "scan"
    BY <1>1
  <2>5. reasons'[c] = NamingReasons(r, Named(r, L), L) \cup Flaws(found'[c], now)
                        \cup DependencyReasons(dead)
    BY <1>1, <1>3
  <2>6. request'[c] = request[c] /\ Unresolved(done, meaning) \subseteq dead
    BY <1>1, <2>1
  <2>7. S = after[n] /\ dead \subseteq Unresolved(OpenDeps(S), meaning) /\ dead \in SUBSET OpenRefs(S)
    BY <1>3
  <2> HIDE DEF S, done
  <2> QED BY <2>1, <2>2, <2>3, <2>4, <2>5, <2>6, <2>7, RoundReached DEF meaning, after, N, L, r
<1>4. CASE pc[c] = "gather"
  <2>1. scopesLeft[c] = {} /\ idsLeft[c] = {} /\ GatherIsExact(c)
    BY <1>1, <1>4
  <2>2. NamedSoFar(c) = Named(r, L)
    BY <2>1 DEF NamedSoFar, Named, Asked, L, r
  <2>3. /\ found[c] = Named(r, L) \cap L
        /\ reasons[c] = NamingReasons(r, Named(r, L), L) \cup Flaws(found[c], now)
    BY <2>1, <2>2 DEF GatherIsExact, L, r
  <2>4. DependencyReasons({}) = {}
    BY DependencyReasonsGrow
  <2>5. found[c] = after[0] /\ 0 \in 0..N
    BY <1>2, <2>3
  <2>6. reasons[c] = NamingReasons(r, Named(r, L), L) \cup Flaws(found[c], now) \cup DependencyReasons({})
    BY <2>3, <2>4
  <2> DEFINE none == {}
  <2>7. none \in SUBSET OpenRefs(found[c]) /\ none \subseteq Unresolved(OpenDeps(found[c]), meaning)
    OBVIOUS
  <2> QED BY <1>3, <2>5, <2>6, <2>7
<1>5. CASE pc[c] # "gather"
  <2>1. pc[c] = "close" /\ depsLeft[c] = {} /\ changed[c]
    BY <1>1, <1>5
  <2>2. PICK n \in 0..N : \E done \in SUBSET OpenDeps(after[n]), dead \in SUBSET OpenRefs(after[n]) :
                            RoundIsExact(c, after[n], done, dead)
    BY <2>1 DEF ClosureIsExact, after, N, L, r
  <2>3. PICK done \in SUBSET OpenDeps(after[n]), dead \in SUBSET OpenRefs(after[n]) :
          RoundIsExact(c, after[n], done, dead)
    BY <2>2
  <2> DEFINE S == after[n]
  <2>4. /\ OpenDeps(S) \subseteq depsLeft[c] \cup done
        /\ found[c] = S \cup Brought(done, meaning)
        /\ \E p \in done : meaning[p[2]] # {}
        /\ dead \subseteq Unresolved(OpenDeps(S), meaning)
        /\ reasons[c] = NamingReasons(r, Named(r, L), L) \cup Flaws(found[c], now)
                          \cup DependencyReasons(dead)
    BY <2>1, <2>3 DEF RoundIsExact, meaning, L, r
  <2>5. done = OpenDeps(S) /\ found[c] = Round(S, meaning)
    <3>1. done \subseteq OpenDeps(S)
      OBVIOUS
    <3> HIDE DEF S
    <3>2. OpenDeps(S) \subseteq {} \cup done
      BY <2>1, <2>4, Zenon
    <3>3. done = OpenDeps(S)
      BY <3>1, <3>2
    <3> QED BY <2>4, <3>3, Zenon DEF Round
  <2>6. S \in SUBSET Evidence
    BY <1>2
  <2>7. Round(S, meaning) # S
    <3> HIDE DEF S
    <3>1. PICK p \in OpenDeps(S) : meaning[p[2]] # {}
      BY <2>4, <2>5
    <3>2. meaning[p[2]] \cap S = {}
      BY <1>2, <2>6, <3>1, OpenMeansNew
    <3>3. meaning[p[2]] \subseteq Round(S, meaning)
      BY <3>1 DEF Round, Brought
    <3> QED BY <3>1, <3>2, <3>3
  <2>8. n # N
    BY <1>2, <2>7
  <2>9. n + 1 \in 0..N /\ n + 1 \in 1..N /\ (n + 1) - 1 = n
    BY <1>2, <2>8
  <2>10. found[c] = after[n + 1]
    BY <1>2, <2>5, <2>9
  <2>11. dead \subseteq Unresolved(OpenDeps(found[c]), meaning) /\ dead \in SUBSET OpenRefs(found[c])
    <3> HIDE DEF S
    <3> SUFFICES ASSUME NEW d \in dead
                 PROVE  d \in Unresolved(OpenDeps(found[c]), meaning) /\ d \in OpenRefs(found[c])
      OBVIOUS
    <3>1. PICK p \in OpenDeps(S) : p[2] = d /\ meaning[p[2]] = {}
      BY <2>4 DEF Unresolved
    <3>2. p \in S \X Refs /\ p[2] \in Profile[p[1]].dependencies
      BY <3>1 DEF OpenDeps
    <3>3. p[2] \notin KnownRefs(L)
      BY <1>2, <3>1, <3>2
    <3>4. found[c] \subseteq L /\ S \subseteq found[c]
      BY <2>4 DEF Kept, FoundIsFit, L
    <3>5. p[2] \notin KnownRefs(found[c])
      BY <3>3, <3>4 DEF KnownRefs
    <3>6. p \in OpenDeps(found[c])
      BY <3>2, <3>4, <3>5 DEF OpenDeps
    <3> QED BY <3>1, <3>6 DEF Unresolved, OpenRefs
  <2> HIDE DEF S
  <2> QED BY <1>3, <2>4, <2>9, <2>10, <2>11
<1> QED BY <1>4, <1>5

\* What one more dependency leads to.
LEMMA LookupGrows ==
  \A D, p, m :
    /\ Brought(D \cup {p}, m) = Brought(D, m) \cup m[p[2]]
    /\ m[p[2]] # {} => Unresolved(D \cup {p}, m) = Unresolved(D, m)
<1>1. \A D, p, m : Brought(D \cup {p}, m) = Brought(D, m) \cup m[p[2]]
  BY DEF Brought
<1>2. \A D, p, m : m[p[2]] # {} => Unresolved(D \cup {p}, m) = Unresolved(D, m)
  BY DEF Unresolved
<1> QED BY <1>1, <1>2

\* A dependency that is looked up by id or by reference leads where the definition says.
LEMMA ResolveIsExact ==
  ASSUME TypeOK, NEW c \in Compilers, obs' = obs, now' = now,
         ResolveById(c) \/ ResolveByRef(c), ClosureIsExact(c)
  PROVE  ClosureIsExact(c)'
<1> DEFINE r == request[c]
           L == Stored
           meaning == Meanings(L)
           after == AfterRound(r, L)
           N == Cardinality(Evidence)
<1>1. PICK n \in 0..N : \E done \in SUBSET OpenDeps(after[n]), dead \in SUBSET OpenRefs(after[n]) :
                          RoundIsExact(c, after[n], done, dead)
  BY DEF ClosureIsExact
<1>2. PICK done \in SUBSET OpenDeps(after[n]), dead \in SUBSET OpenRefs(after[n]) :
        RoundIsExact(c, after[n], done, dead)
  BY <1>1
<1> DEFINE S == after[n]
           Naming == NamingReasons(r, Named(r, L), L)
<1>3. /\ depsLeft[c] \subseteq OpenDeps(S)
      /\ pc[c] = "close" => OpenDeps(S) \subseteq depsLeft[c] \cup done
      /\ pc[c] = "scan" =>
           /\ dep[c] \notin L
           /\ \E p \in OpenDeps(S) : p[2] = dep[c] /\ OpenDeps(S) \subseteq depsLeft[c] \cup done \cup {p}
      /\ found[c] = S \cup Brought(done, meaning)
      /\ changed[c] <=> \E p \in done : meaning[p[2]] # {}
      /\ Unresolved(done, meaning) \subseteq dead
      /\ dead \subseteq Unresolved(OpenDeps(S), meaning)
      /\ reasons[c] = Naming \cup Flaws(found[c], now) \cup DependencyReasons(dead)
  BY <1>2 DEF RoundIsExact
<1>4. request' = request
  BY DEF ResolveById, ResolveByRef
<1>5. \A d \in Refs :
        LET carriers == Carriers(d) IN
        meaning[d] = IF d \in L THEN {d} ELSE IF carriers = {} THEN {} ELSE {FirstObserved(carriers)}
  BY DEF Meanings, Meaning, Carriers
<1>6. \A p \in OpenDeps(S) : p[2] \in Refs
  BY DEF OpenDeps
<1>7. ASSUME NEW finished \in SUBSET OpenDeps(S), NEW lost \in SUBSET OpenRefs(S),
             depsLeft'[c] \subseteq OpenDeps(S),
             pc'[c] = "close" => OpenDeps(S) \subseteq depsLeft'[c] \cup finished,
             pc'[c] = "scan" =>
               /\ dep'[c] \notin L
               /\ \E p \in OpenDeps(S) : p[2] = dep'[c] /\ OpenDeps(S) \subseteq depsLeft'[c] \cup finished \cup {p},
             found'[c] = S \cup Brought(finished, meaning),
             changed'[c] <=> \E p \in finished : meaning[p[2]] # {},
             Unresolved(finished, meaning) \subseteq lost,
             lost \subseteq Unresolved(OpenDeps(S), meaning),
             reasons'[c] = Naming \cup Flaws(found'[c], now) \cup DependencyReasons(lost)
      PROVE  ClosureIsExact(c)'
  <2>1. S = AfterRound(request[c], Stored)[n] /\ n \in 0..Cardinality(Evidence)
    OBVIOUS
  <2> HIDE DEF S
  <2> QED BY <1>4, <1>7, <2>1, RoundReached
<1> HIDE DEF S, Naming, meaning, L, after, N, r
<1>11. ASSUME NEW q
       PROVE  /\ Brought(done \cup {q}, meaning) = Brought(done, meaning) \cup meaning[q[2]]
              /\ meaning[q[2]] # {} => Unresolved(done \cup {q}, meaning) = Unresolved(done, meaning)
              /\ meaning[q[2]] = {} => Unresolved(done \cup {q}, meaning) = Unresolved(done, meaning) \cup {q[2]}
  <2>1. Brought(done \cup {q}, meaning) = Brought(done, meaning) \cup meaning[q[2]]
    BY LookupGrows
  <2>2. meaning[q[2]] # {} => Unresolved(done \cup {q}, meaning) = Unresolved(done, meaning)
    BY LookupGrows
  <2>3. meaning[q[2]] = {} => Unresolved(done \cup {q}, meaning) = Unresolved(done, meaning) \cup {q[2]}
    BY DEF Unresolved
  <2> QED BY <2>1, <2>2, <2>3
\* Either way p is dealt with: it leads to e, which is adopted.
<1>8. ASSUME NEW p \in OpenDeps(S), NEW e, meaning[p[2]] = {e}, Adopt(c, e),
             depsLeft'[c] \subseteq depsLeft[c],
             OpenDeps(S) \subseteq depsLeft'[c] \cup done \cup {p}
      PROVE  ClosureIsExact(c)'
  <2> DEFINE finished == done \cup {p}
  <2>1. /\ found'[c] = found[c] \cup {e} /\ reasons'[c] = reasons[c] \cup Doubts(e, now)
        /\ changed'[c] = TRUE /\ pc'[c] = "close"
    BY <1>8 DEF Adopt, TypeOK
  <2>2. Brought(finished, meaning) = Brought(done, meaning) \cup {e}
    BY <1>8, <1>11
  <2>3. Unresolved(finished, meaning) = Unresolved(done, meaning)
    BY <1>8, <1>11
  <2>4. Flaws(found'[c], now) = Flaws(found[c], now) \cup Doubts(e, now)
    BY <2>1, FlawsGrow
  <2>5. reasons'[c] = Naming \cup Flaws(found'[c], now) \cup DependencyReasons(dead)
    BY <1>3, <2>1, <2>4
  <2>6. found'[c] = S \cup Brought(finished, meaning)
    BY <1>3, <2>1, <2>2
  <2>7. changed'[c] <=> \E q \in finished : meaning[q[2]] # {}
    BY <1>8, <2>1
  <2>8. finished \in SUBSET OpenDeps(S) /\ OpenDeps(S) \subseteq depsLeft'[c] \cup finished
    BY <1>2, <1>8 DEF S
  <2>9. dead \in SUBSET OpenRefs(S)
    BY <1>2 DEF S
  <2>10. pc'[c] = "close" /\ pc'[c] # "scan" /\ depsLeft'[c] \subseteq OpenDeps(S)
    BY <1>3, <1>8, <2>1
  <2>11. Unresolved(finished, meaning) \subseteq dead /\ dead \subseteq Unresolved(OpenDeps(S), meaning)
    BY <1>3, <2>3
  <2> HIDE DEF finished
  <2> QED BY <1>7, <2>5, <2>6, <2>7, <2>8, <2>9, <2>10, <2>11
<1>9. CASE ResolveById(c)
  <2>1. PICK p \in depsLeft[c] :
          /\ depsLeft' = [depsLeft EXCEPT ![c] = @ \ {p}]
          /\ IF p[2] \in Stored
             THEN Adopt(c, p[2]) /\ UNCHANGED dep
             ELSE /\ pc' = [pc EXCEPT ![c] = "scan"]
                  /\ dep' = [dep EXCEPT ![c] = p[2]]
                  /\ UNCHANGED <<found, reasons, changed, now>>
    BY <1>9 DEF ResolveById
  <2>2. pc[c] = "close" /\ depsLeft'[c] = depsLeft[c] \ {p} /\ p \in OpenDeps(S)
    BY <1>3, <1>9, <2>1 DEF ResolveById, TypeOK
  <2>3. OpenDeps(S) \subseteq depsLeft'[c] \cup done \cup {p}
    BY <1>3, <2>2
  <2>4. CASE p[2] \in L
    <3>1. meaning[p[2]] = {p[2]}
      BY <1>5, <1>6, <2>2, <2>4
    <3>2. Adopt(c, p[2])
      BY <2>1, <2>4 DEF L
    <3> QED BY <1>8, <2>2, <2>3, <3>1, <3>2
  <2>5. CASE p[2] \notin L
    <3>1. /\ pc'[c] = "scan" /\ dep'[c] = p[2]
          /\ found' = found /\ reasons' = reasons /\ changed' = changed
      BY <2>1, <2>5 DEF L, TypeOK
    <3>2. \E q \in OpenDeps(S) : q[2] = dep'[c] /\ OpenDeps(S) \subseteq depsLeft'[c] \cup done \cup {q}
      BY <2>2, <2>3, <3>1
    <3>3. pc'[c] # "close" /\ dep'[c] \notin L /\ depsLeft'[c] \subseteq OpenDeps(S)
      BY <1>3, <2>2, <2>5, <3>1
    <3>4. done \in SUBSET OpenDeps(S) /\ dead \in SUBSET OpenRefs(S)
      BY <1>2 DEF S
    <3> QED BY <1>3, <1>7, <3>1, <3>2, <3>3, <3>4
  <2> QED BY <2>4, <2>5
<1>10. CASE ResolveByRef(c)
  <2>1. pc[c] = "scan" /\ depsLeft' = depsLeft
    BY <1>10 DEF ResolveByRef
  <2>2. PICK p \in OpenDeps(S) : p[2] = dep[c] /\ OpenDeps(S) \subseteq depsLeft[c] \cup done \cup {p}
    BY <1>3, <2>1
  <2>3. p[2] \notin L /\ p[2] \in Refs
    BY <1>3, <1>6, <2>1, <2>2
  <2>4. CASE Carriers(dep[c]) # {}
    <3>1. Adopt(c, FirstObserved(Carriers(dep[c])))
      BY <1>10, <2>4 DEF ResolveByRef
    <3>2. meaning[p[2]] = {FirstObserved(Carriers(dep[c]))}
      BY <1>5, <2>2, <2>3, <2>4
    <3> QED BY <1>8, <2>1, <2>2, <3>1, <3>2
  <2>5. CASE Carriers(dep[c]) = {}
    <3> DEFINE finished == done \cup {p}
               lost == dead \cup {p[2]}
               why == {Because("missing dependency", dep[c])}
    <3>1. /\ pc'[c] = "close" /\ found' = found /\ changed' = changed
          /\ reasons'[c] = reasons[c] \cup why
      BY <1>10, <2>5, ZenonT(60) DEF ResolveByRef, TypeOK
    <3>2. meaning[p[2]] = {}
      BY <1>5, <2>2, <2>3, <2>5
    <3>3. Brought(finished, meaning) = Brought(done, meaning)
      BY <3>2, <1>11
    <3>4. Unresolved(finished, meaning) = Unresolved(done, meaning) \cup {p[2]}
      BY <3>2, <1>11
    <3>5. DependencyReasons(lost) = DependencyReasons(dead) \cup why
      BY <2>2, DependencyReasonsGrow
    <3> HIDE DEF why
    <3>6. reasons'[c] = Naming \cup Flaws(found'[c], now) \cup DependencyReasons(lost)
      BY <1>3, <3>1, <3>5
    <3>7. found'[c] = S \cup Brought(finished, meaning)
      BY <1>3, <3>1, <3>3
    <3>8. changed'[c] <=> \E q \in finished : meaning[q[2]] # {}
      BY <1>3, <3>1, <3>2
    <3>9. finished \in SUBSET OpenDeps(S) /\ OpenDeps(S) \subseteq depsLeft'[c] \cup finished
      BY <1>2, <2>1, <2>2 DEF S
    <3>10. lost \in SUBSET OpenRefs(S)
      BY <1>2, <2>2 DEF S, OpenRefs
    <3>11. pc'[c] # "scan" /\ depsLeft'[c] \subseteq OpenDeps(S)
      BY <1>3, <2>1, <3>1
    <3>12. Unresolved(finished, meaning) \subseteq lost
      BY <1>3, <3>4
    <3>13. lost \subseteq Unresolved(OpenDeps(S), meaning)
      BY <1>3, <2>2, <3>2 DEF Unresolved
    <3> HIDE DEF finished, lost
    <3> QED BY <1>7, <3>6, <3>7, <3>8, <3>9, <3>10, <3>11, <3>12, <3>13
  <2> QED BY <2>4, <2>5
<1> QED BY <1>9, <1>10

\* The checks begin with the closure, and go through the scopes one by one.
LEMMA CheckStaysExact ==
  ASSUME TypeOK, IsFiniteSet(Evidence), NEW c \in Compilers, obs' = obs, now' = now,
         EndClosure(c) \/ CheckScope(c),
         pc[c] = "close" => ClosureIsExact(c),
         pc[c] = "check" => CheckIsExact(c)
  PROVE  CheckIsExact(c)'
<1> DEFINE r == request[c]
           L == Stored
           meaning == Meanings(L)
           after == AfterRound(r, L)
           N == Cardinality(Evidence)
           scopes == Requires[r].scopes
           Naming == NamingReasons(r, Named(r, L), L)
           Failing(X) == ScopeReasons(X, found[c], now)
<1>1. request' = request /\ found' = found
  BY DEF EndClosure, CheckScope
<1>2. L' = L /\ Meanings(L)' = Meanings(L)
  BY SameStoreSameMeaning
<1>3. Named(r, L)' = Named(r, L) /\ AfterRound(r, L)' = AfterRound(r, L)
  BY <1>1, <1>2 DEF Named, AfterRound
<1>4. Closure(r, L)' = Closure(r, L)
  BY <1>3 DEF Closure
<1>5. /\ ScopeReasons(scopes \ scopesLeft[c], found[c], now)' = Failing(scopes \ scopesLeft'[c])
      /\ Flaws(found[c], now)' = Flaws(found[c], now)
      /\ NamingReasons(r, Named(r, L), L)' = Naming
  BY <1>1, <1>2, <1>3
<1>6. ASSUME scopesLeft'[c] \subseteq scopes, found[c] = Closure(r, L),
             reasons'[c] = Naming \cup Flaws(found[c], now) \cup DependencyReasons(OpenRefs(found[c]))
                             \cup Failing(scopes \ scopesLeft'[c])
      PROVE  CheckIsExact(c)'
  BY <1>1, <1>4, <1>5, <1>6 DEF CheckIsExact
<1> HIDE DEF Naming, Failing, L, meaning, after, N
<1>7. CASE EndClosure(c)
  <2>1. /\ pc[c] = "close" /\ depsLeft[c] = {} /\ ~changed[c]
        /\ scopesLeft'[c] = scopes /\ reasons' = reasons
    BY <1>7 DEF EndClosure, TypeOK
  <2>2. PICK n \in 0..N : \E done \in SUBSET OpenDeps(after[n]), dead \in SUBSET OpenRefs(after[n]) :
                            RoundIsExact(c, after[n], done, dead)
    BY <2>1 DEF ClosureIsExact, after, N, L
  <2>3. PICK done \in SUBSET OpenDeps(after[n]), dead \in SUBSET OpenRefs(after[n]) :
          RoundIsExact(c, after[n], done, dead)
    BY <2>2
  <2> DEFINE S == after[n]
  <2>4. /\ OpenDeps(S) \subseteq depsLeft[c] \cup done
        /\ found[c] = S \cup Brought(done, meaning)
        /\ ~ \E p \in done : meaning[p[2]] # {}
        /\ Unresolved(done, meaning) \subseteq dead
        /\ reasons[c] = Naming \cup Flaws(found[c], now) \cup DependencyReasons(dead)
    BY <2>1, <2>3 DEF RoundIsExact, meaning, L, Naming
  <2>5. done = OpenDeps(S) /\ dead \in SUBSET OpenRefs(S)
    BY <2>1, <2>3, <2>4
  <2> HIDE DEF S
  <2>6. Brought(done, meaning) = {}
    BY <2>4 DEF Brought
  <2>7. found[c] = S /\ Round(S, meaning) = S
    BY <2>4, <2>5, <2>6 DEF Round
  <2>8. \A m \in 0..N : Round(after[m], meaning) = after[m] => Closure(r, L) = after[m]
    BY RoundsInLedger DEF meaning, after, N, L
  <2>9. found[c] = Closure(r, L)
    BY <2>7, <2>8 DEF S
  <2>10. dead = OpenRefs(found[c])
    <3>1. OpenRefs(S) \subseteq dead
      BY <2>4, <2>5 DEF Unresolved, OpenRefs
    <3> QED BY <2>5, <2>7, <3>1
  <2>11. Failing(scopes \ scopesLeft'[c]) = {}
    <3>1. scopes \ scopesLeft'[c] = {}
      BY <2>1
    <3>2. ScopeReasons({}, found[c], now) = {}
      BY ScopesGrow
    <3> QED BY <3>1, <3>2 DEF Failing
  <2> QED BY <1>6, <2>1, <2>4, <2>9, <2>10, <2>11
<1>8. CASE CheckScope(c)
  <2>1. PICK s \in scopesLeft[c] :
          /\ scopesLeft' = [scopesLeft EXCEPT ![c] = @ \ {s}]
          /\ reasons' = [reasons EXCEPT ![c] = @ \cup
               IF \E e \in found[c] : Profile[e].scope = s /\ CanSupport(e, now)
               THEN {} ELSE {Because("unsupported scope", s)}]
    BY <1>8 DEF CheckScope
  <2> DEFINE why == IF \E e \in found[c] : Profile[e].scope = s /\ CanSupport(e, now)
                    THEN {} ELSE Unsupported(s)
  <2>2. scopesLeft'[c] = scopesLeft[c] \ {s} /\ reasons'[c] = reasons[c] \cup why
    BY <2>1 DEF TypeOK, Unsupported
  <2>3. /\ scopesLeft[c] \subseteq scopes /\ found[c] = Closure(r, L)
        /\ reasons[c] = Naming \cup Flaws(found[c], now) \cup DependencyReasons(OpenRefs(found[c]))
                          \cup Failing(scopes \ scopesLeft[c])
    BY <1>8 DEF CheckScope, CheckIsExact, L, Naming, Failing
  <2>4. scopes \ scopesLeft'[c] = (scopes \ scopesLeft[c]) \cup {s}
    BY <2>1, <2>2, <2>3
  <2>5. Failing((scopes \ scopesLeft[c]) \cup {s}) = Failing(scopes \ scopesLeft[c]) \cup why
    <3> DEFINE A == scopes \ scopesLeft[c]
               good == \E e \in found[c] : Profile[e].scope = s /\ CanSupport(e, now)
    <3> HIDE DEF A
    <3>1. /\ good => ScopeReasons(A \cup {s}, found[c], now) = ScopeReasons(A, found[c], now)
          /\ ~good => ScopeReasons(A \cup {s}, found[c], now) = ScopeReasons(A, found[c], now) \cup Unsupported(s)
      BY ScopesGrow
    <3>2. why = IF good THEN {} ELSE Unsupported(s)
      OBVIOUS
    <3> HIDE DEF good, why
    <3> QED BY <3>1, <3>2 DEF A, Failing
  <2> HIDE DEF why
  <2> QED BY <1>6, <2>2, <2>3, <2>4, <2>5
<1> QED BY <1>7, <1>8

\* A new number is none that was given out.
LEMMA NumbersStayDifferent ==
  ASSUME TypeOK, NumbersGrow, NumbersDiffer, [Next]_vars
  PROVE  NumbersDiffer'
<1>1. \A e \in Evidence : obs[e] \in Nat /\ obs[e] <= lastSeq /\ lastSeq \in Nat
  BY DEF TypeOK, NumbersGrow
<1>2. ASSUME NEW e \in Evidence, AddEvidence(e) PROVE NumbersDiffer'
  <2>1. obs'[e] = lastSeq + 1 /\ \A f \in Evidence \ {e} : obs'[f] = obs[f]
    BY <1>2 DEF AddEvidence, TypeOK
  <2>2. \A f \in Evidence \ {e} : obs'[f] # obs'[e]
    BY <1>1, <2>1
  <2>3. ASSUME NEW f \in Stored', NEW g \in Stored', obs'[f] = obs'[g] PROVE f = g
    <3>1. f \in Evidence /\ g \in Evidence /\ obs'[f] # 0 /\ obs'[g] # 0
      BY DEF Stored
    <3>2. CASE f = e \/ g = e
      BY <2>2, <2>3, <3>1, <3>2
    <3>3. CASE f # e /\ g # e
      <4>1. f \in Stored /\ g \in Stored /\ obs[f] = obs[g]
        BY <2>1, <2>3, <3>1, <3>3 DEF Stored
      <4> QED BY <4>1 DEF NumbersDiffer
    <3> QED BY <3>2, <3>3
  <2> QED BY <2>3 DEF NumbersDiffer
<1>3. CASE obs' = obs
  BY <1>3, SameStoreSameMeaning DEF NumbersDiffer
<1> QED BY <1>2, <1>3, LedgerSteps DEF Tick, store

\* A compiler that did not move is where it was, if nothing else happened either.
LEMMA UnmovedQuiet ==
  ASSUME NEW c \in Compilers, JobOf(c)' = JobOf(c), UNCHANGED <<obs, lastSeq, now>>,
         QuietIsExact(c)
  PROVE  QuietIsExact(c)'
<1>1. Stored' = Stored /\ Meanings(Stored)' = Meanings(Stored) /\ now' = now /\ lastSeq' = lastSeq
  BY SameStoreSameMeaning
<1>2. /\ pc'[c] = pc[c] /\ request'[c] = request[c] /\ began'[c] = began[c]
      /\ scopesLeft'[c] = scopesLeft[c] /\ idsLeft'[c] = idsLeft[c] /\ found'[c] = found[c]
      /\ reasons'[c] = reasons[c] /\ depsLeft'[c] = depsLeft[c] /\ dep'[c] = dep[c]
      /\ changed'[c] = changed[c]
  BY DEF JobOf
<1>3. Named(request[c], Stored)' = Named(request[c], Stored)
  BY <1>1, <1>2 DEF Named
<1>4. AfterRound(request[c], Stored)' = AfterRound(request[c], Stored)
  BY <1>1, <1>2, <1>3 DEF AfterRound
<1>5. NamedSoFar(c)' = NamedSoFar(c)
  BY <1>1, <1>2 DEF NamedSoFar, Asked
<1>6. Flaws(found[c], now)' = Flaws(found[c], now)
  BY <1>1, <1>2
<1>7. GatherIsExact(c) => GatherIsExact(c)'
  BY <1>1, <1>2, <1>5, <1>6 DEF GatherIsExact
<1>8. ClosureIsExact(c) => ClosureIsExact(c)'
  <2> SUFFICES ASSUME ClosureIsExact(c) PROVE ClosureIsExact(c)'
    OBVIOUS
  <2> DEFINE after == AfterRound(request[c], Stored)
  <2>1. PICK n \in 0..Cardinality(Evidence) :
          \E done \in SUBSET OpenDeps(after[n]), dead \in SUBSET OpenRefs(after[n]) :
            RoundIsExact(c, after[n], done, dead)
    BY DEF ClosureIsExact
  <2>2. PICK done \in SUBSET OpenDeps(after[n]), dead \in SUBSET OpenRefs(after[n]) :
          RoundIsExact(c, after[n], done, dead)
    BY <2>1
  <2>3. after[n]' = after[n]
    BY <1>4
  <2> DEFINE S == after[n]
  <2>4. RoundIsExact(c, S, done, dead)
    BY <2>2
  <2>5. S' = S
    BY <2>3
  <2>6. RoundIsExact(c, S, done, dead)'
    <3> HIDE DEF after, S
    <3> QED BY <1>1, <1>2, <1>3, <1>6, <2>4, <2>5 DEF RoundIsExact
  <2>7. done \in SUBSET OpenDeps(after[n]') /\ dead \in SUBSET OpenRefs(after[n]')
    BY <2>3
  <2> QED BY <2>6, <2>7 DEF ClosureIsExact
<1>9. CheckIsExact(c) => CheckIsExact(c)'
  <2>1. Closure(request[c], Stored)' = Closure(request[c], Stored)
    BY <1>4 DEF Closure
  <2> QED BY <1>1, <1>2, <1>3, <1>6, <2>1 DEF CheckIsExact
<1>10. Quiet(c)' => Quiet(c)
  BY <1>1, <1>2 DEF Quiet
<1> QED BY <1>2, <1>7, <1>8, <1>9, <1>10 DEF QuietIsExact

\* The compiler's own steps keep to the definition.
LEMMA CompileKeepsExact ==
  ASSUME TypeOK, IsFiniteSet(Evidence), NEW c \in Compilers, Kept(c), Compile(c),
         UNCHANGED <<obs, lastSeq, now>>, QuietIsExact(c)
  PROVE  QuietIsExact(c)'
<1> USE DEF TypeOK
<1>1. began' = began
  BY DEF Compile, NetworkMissing, NetworkFound, ListScope, FetchPresent,
         FetchMissing, StartRound, ResolveById, ResolveByRef, EndClosure,
         CheckScope, AppendChecked, AppendRejected, AppendClaim
<1>2. Quiet(c)' => Quiet(c)
  BY <1>1 DEF Quiet
<1>3. obs' = obs /\ now' = now
  OBVIOUS
<1>4. CASE NetworkMissing(c)
  <2> DEFINE w == Because("network not found", Requires[request[c]].network)
  <2>1. pc'[c] = "reject" /\ reasons'[c] = {w}
    BY <1>4 DEF NetworkMissing
  <2>2. w.kind = "network not found"
    BY DEF Because
  <2> HIDE DEF w
  <2> QED BY <2>1, <2>2 DEF QuietIsExact
<1>5. CASE NetworkFound(c) \/ ListScope(c) \/ FetchPresent(c) \/ FetchMissing(c)
  <2>1. pc'[c] = "gather" /\ request'[c] = request[c]
    BY <1>5 DEF NetworkFound, ListScope, FetchPresent, FetchMissing
  <2>2. ASSUME Quiet(c) PROVE GatherIsExact(c)'
    <3>1. pc[c] = "gather" => GatherIsExact(c)
      BY <2>2 DEF QuietIsExact
    <3> QED BY <1>3, <1>5, <2>1, <3>1, GatherStaysExact
  <2> QED BY <1>2, <2>1, <2>2 DEF QuietIsExact
<1>6. CASE StartRound(c)
  <2>1. pc'[c] = "close"
    BY <1>6 DEF StartRound
  <2>2. ASSUME Quiet(c) PROVE ClosureIsExact(c)'
    <3>1. /\ pc[c] = "gather" => GatherIsExact(c)
          /\ pc[c] \in {"close", "scan"} => ClosureIsExact(c)
      BY <2>2 DEF QuietIsExact
    <3> QED BY <1>3, <1>6, <3>1, StartRoundIsExact
  <2> QED BY <1>2, <2>1, <2>2 DEF QuietIsExact
<1>7. CASE ResolveById(c) \/ ResolveByRef(c)
  <2>1. pc[c] \in {"close", "scan"}
    BY <1>7 DEF ResolveById, ResolveByRef
  <2>2. pc'[c] \in {"close", "scan"}
    <3>1. ASSUME NEW e, Adopt(c, e) PROVE pc'[c] = "close"
      BY <3>1 DEF Adopt
    <3>2. CASE ResolveById(c)
      BY <3>1, <3>2 DEF ResolveById
    <3>3. CASE ResolveByRef(c)
      BY <3>1, <3>3 DEF ResolveByRef
    <3> QED BY <1>7, <3>2, <3>3
  <2>3. ASSUME Quiet(c) PROVE ClosureIsExact(c)'
    BY <1>3, <1>7, <2>1, <2>3, ResolveIsExact DEF QuietIsExact
  <2> QED BY <1>2, <2>2, <2>3 DEF QuietIsExact
<1>8. CASE EndClosure(c) \/ CheckScope(c)
  <2>1. pc'[c] = "check"
    BY <1>8 DEF EndClosure, CheckScope
  <2>2. ASSUME Quiet(c) PROVE CheckIsExact(c)'
    BY <1>3, <1>8, <2>2, CheckStaysExact DEF QuietIsExact
  <2> QED BY <1>2, <2>1, <2>2 DEF QuietIsExact
<1>9. ASSUME NEW why, AppendClaim(c, why) PROVE QuietIsExact(c)'
  <2>1. pc'[c] = "idle"
    BY <1>9 DEF AppendClaim
  <2> QED BY <2>1 DEF QuietIsExact
<1>10. CASE AppendChecked(c) \/ AppendRejected(c)
  BY <1>9, <1>10 DEF AppendChecked, AppendRejected
<1> QED BY <1>4, <1>5, <1>6, <1>7, <1>8, <1>10 DEF Compile

\* Nobody's step takes a compiler off its definition: where something is added or
\* a second passes, its compilation is not quiet any more.
LEMMA StepKeepsQuiet ==
  ASSUME TypeOK, IsFiniteSet(Evidence), NumbersGrow, ObligationsAreKept, [Next]_vars,
         NEW c \in Compilers, QuietIsExact(c)
  PROVE  QuietIsExact(c)'
<1>1. began[c].seq <= lastSeq /\ began[c].time <= now
  BY DEF NumbersGrow
<1>2. began[c].seq \in Nat /\ began[c].time \in Nat /\ lastSeq \in Nat /\ now \in Nat
  BY DEF TypeOK, Moments
<1>3. ASSUME JobOf(c)' = JobOf(c), lastSeq' = lastSeq + 1 \/ now' = now + 1
      PROVE  QuietIsExact(c)'
  <2>1. pc'[c] = pc[c] /\ reasons'[c] = reasons[c] /\ began'[c] = began[c]
    BY <1>3 DEF JobOf
  <2>2. ~Quiet(c)'
    BY <1>1, <1>2, <1>3, <2>1 DEF Quiet
  <2> QED BY <2>1, <2>2 DEF QuietIsExact
<1>4. (\E e \in Evidence : AddEvidence(e)) \/ Tick => QuietIsExact(c)'
  BY <1>3 DEF AddEvidence, Tick, job, JobOf
<1>5. CASE UNCHANGED <<obs, lastSeq>> /\ now' \in {now, now + 1}
  <2>1. CASE Compile(c)
    <3>1. CASE now' = now
      BY <1>5, <2>1, <3>1, CompileKeepsExact DEF ObligationsAreKept
    <3>2. CASE now' = now + 1
      <4>1. NetworkMissing(c) => now' = now
        BY DEF NetworkMissing
      <4>2. ASSUME NEW why, AppendClaim(c, why) PROVE now' = now
        BY <4>2 DEF AppendClaim
      <4>3. ASSUME NEW e, Adopt(c, e) PROVE pc'[c] = "close"
        BY <4>3 DEF Adopt, TypeOK
      <4>4. pc'[c] # "reject" /\ began' = began
        <5>1. now' # now
          BY <1>2, <3>2
        <5>2. ~NetworkMissing(c) /\ ~AppendChecked(c) /\ ~AppendRejected(c)
          BY <4>1, <4>2, <5>1 DEF AppendChecked, AppendRejected
        <5>3. ~NetworkFound(c) /\ ~ListScope(c) /\ ~FetchMissing(c) /\ ~StartRound(c)
                /\ ~EndClosure(c) /\ ~CheckScope(c)
          BY <5>1 DEF NetworkFound, ListScope, FetchMissing, StartRound, EndClosure, CheckScope
        <5>4. CASE FetchPresent(c)
          BY <5>4 DEF FetchPresent
        <5>5. CASE ResolveById(c)
          BY <4>3, <5>1, <5>5 DEF ResolveById, TypeOK
        <5>6. CASE ResolveByRef(c)
          BY <4>3, <5>6 DEF ResolveByRef, TypeOK
        <5> QED BY <2>1, <5>2, <5>3, <5>4, <5>5, <5>6 DEF Compile
      <4>5. ~Quiet(c)'
        BY <1>1, <1>2, <3>2, <4>4 DEF Quiet
      <4> QED BY <4>4, <4>5 DEF QuietIsExact
    <3> QED BY <1>5, <3>1, <3>2
  <2>2. ASSUME NEW r \in Requests, Begin(c, r) PROVE QuietIsExact(c)'
    BY <2>2 DEF Begin, TypeOK, QuietIsExact
  <2>3. CASE JobOf(c)' = JobOf(c)
    <3>1. CASE now' = now
      BY <1>5, <2>3, <3>1, UnmovedQuiet
    <3>2. CASE now' = now + 1
      BY <1>3, <2>3, <3>2
    <3> QED BY <1>5, <3>1, <3>2
  <2>4. ASSUME NEW d \in Compilers \ {c}, NEW r \in Requests, Begin(d, r)
        PROVE  JobOf(c)' = JobOf(c)
    BY <2>4 DEF Begin, JobOf, TypeOK
  <2>5. ASSUME NEW d \in Compilers \ {c}, Compile(d)
        PROVE  JobOf(c)' = JobOf(c)
    BY <2>5, OthersDoNotMove
  <2>6. Environment \/ UNCHANGED vars => JobOf(c)' = JobOf(c)
    BY DEF Environment, AddEvidence, RegisterNetwork, Tick, JobOf, job, vars
  <2> QED BY <2>1, <2>2, <2>3, <2>4, <2>5, <2>6 DEF Next
<1> QED BY <1>4, <1>5, LedgerSteps

\* What is stored up to the last number is what is stored.
LEMMA StoredAtEnd ==
  ASSUME TypeOK, NumbersGrow
  PROVE  StoredAt(lastSeq) = Stored
BY DEF StoredAt, NumbersGrow, Stored

\* A definition over what was stored does not change when more is stored.
LEMMA DefinitionIsFixed ==
  ASSUME TypeOK, TypeOK', NumbersGrow, NumbersDiffer, [Next]_vars, NEW k,
         NEW n \in Nat, n <= lastSeq
  PROVE  IsExact(k, StoredAt(n))' <=> IsExact(k, StoredAt(n))
<1>1. StoredAt(n)' = StoredAt(n)
  BY BeforeIsFixed
<1> DEFINE L == StoredAt(n)
<1>2. \A e \in L : obs'[e] = obs[e]
  BY LedgerSteps DEF AddEvidence, Tick, store, TypeOK, StoredAt, Stored
<1>3. L \in SUBSET Stored
  BY DEF StoredAt
<1>4. PICK M \in SUBSET Stored : M = L
  BY <1>3
<1> HIDE DEF L
<1>5. Meanings(M)' = Meanings(M)
  BY <1>2, <1>4, MeaningsStay
<1>6. Closure(k.request, M)' = Closure(k.request, M)
  BY <1>5 DEF Closure, AfterRound
<1>7. IsExact(k, M)' <=> IsExact(k, M)
  BY <1>6 DEF IsExact, RefReasons
<1> QED BY <1>1, <1>4, <1>7 DEF L

\* The claim of a quiet compilation is the one its definition gives.
LEMMA AppendedIsExact ==
  ASSUME TypeOK, NumbersGrow, NEW c \in Compilers, AppendChecked(c), QuietIsExact(c), Quiet(c)
  PROVE  \E said : AppendClaim(c, said) /\ IsExact(Compiled(c, said), Stored)
<1> DEFINE lacking == {t \in Requires[request[c]].tcb :
                         \A e \in found[c] : t \notin Profile[e].attests}
           r == request[c]
           scopes == Requires[r].scopes
           missing == {Because("missing TCB", t) : t \in lacking}
           said == reasons[c] \cup missing
<1>1. AppendClaim(c, said) /\ pc[c] = "check" /\ scopesLeft[c] = {}
  BY DEF AppendChecked
<1>2. CheckIsExact(c)
  BY <1>1 DEF QuietIsExact
<1>3. missing = TcbReasons(Requires[r].tcb, found[c])
  BY DEF TcbReasons, Each
<1> HIDE DEF missing, lacking
<1>4. scopes \ scopesLeft[c] = scopes
  BY <1>1
<1>5. found[c] = Closure(r, Stored)
  BY <1>2 DEF CheckIsExact
<1>6. reasons[c] = NamingReasons(r, Named(r, Stored), Stored) \cup Flaws(found[c], now)
                     \cup DependencyReasons(OpenRefs(found[c])) \cup ScopeReasons(scopes, found[c], now)
  BY <1>2, <1>4 DEF CheckIsExact
<1>7. said = RefReasons(r, Stored, now)
  BY <1>3, <1>5, <1>6 DEF RefReasons
<1> HIDE DEF said
<1> DEFINE k == Compiled(c, said)
<1>8. k.evidence_ids = found[c] /\ k.request = r /\ k.reasons = said /\ k.began.time = now
  BY DEF Compiled, Quiet
<1> HIDE DEF k
<1>9. IsExact(k, Stored)
  BY <1>5, <1>7, <1>8 DEF IsExact
<1> QED BY <1>1, <1>9 DEF k

\* Quiet claims stay exact, and the next one is.
LEMMA StepKeepsExact ==
  ASSUME TypeOK, TypeOK', NumbersGrow, NumbersDiffer, [Next]_vars, QuietCompileIsExact,
         \A c \in Compilers : QuietIsExact(c)
  PROVE  QuietCompileIsExact'
<1> DEFINE Quietly(k) == k.began = k.appended /\ \A w \in k.reasons : w.kind # "network not found"
<1> SUFFICES ASSUME NEW i \in DOMAIN claims', Quietly(claims'[i])
             PROVE  IsExact(claims[i], StoredAt(claims[i].began.seq))'
  BY DEF QuietCompileIsExact
<1> HIDE DEF Quietly
<1>1. ASSUME NEW n \in Nat, n <= lastSeq, NEW k, claims'[i] = k, k.began.seq = n,
             IsExact(k, StoredAt(n))
      PROVE  IsExact(claims[i], StoredAt(claims[i].began.seq))'
  <2>1. IsExact(k, StoredAt(n))'
    BY <1>1, DefinitionIsFixed
  <2> QED BY <1>1, <2>1
<1>2. CASE i \in DOMAIN claims /\ claims'[i] = claims[i]
  <2>1. claims[i] \in CompiledClaims
    BY <1>2, ElementOfSeq DEF TypeOK
  <2>2. PICK k : k = claims[i]
    OBVIOUS
  <2>3. PICK n \in Nat : n = k.began.seq /\ n <= lastSeq
    BY <1>2, <2>1, <2>2 DEF CompiledClaims, Moments, NumbersGrow
  <2>4. IsExact(k, StoredAt(n))
    BY <1>2, <2>2, <2>3 DEF QuietCompileIsExact, Quietly
  <2> QED BY <1>1, <1>2, <2>2, <2>3, <2>4
<1>3. ASSUME NEW c \in Compilers, NEW said, AppendClaim(c, said), claims'[i] = Compiled(c, said)
      PROVE  /\ Quiet(c) /\ claims'[i].began.seq = lastSeq
             /\ claims'[i].reasons = said
  <2>1. claims'[i].began = began[c] /\ claims'[i].appended = [seq |-> lastSeq, time |-> now]
        /\ claims'[i].reasons = said
    BY <1>3 DEF Compiled
  <2>2. claims'[i].began = claims'[i].appended
    BY DEF Quietly
  <2>3. began[c] = [seq |-> lastSeq, time |-> now]
    BY <2>1, <2>2
  <2>4. claims'[i].began.seq = lastSeq
    BY <2>1, <2>3
  <2> QED BY <2>1, <2>3, <2>4 DEF Quiet
<1>4. ASSUME NEW c \in Compilers, AppendChecked(c), ~(i \in DOMAIN claims /\ claims'[i] = claims[i])
      PROVE  IsExact(claims[i], StoredAt(claims[i].began.seq))'
  <2>1. Quiet(c)
    BY <1>3, <1>4, AppendedClaim DEF AppendChecked
  <2>2. PICK said : AppendClaim(c, said) /\ IsExact(Compiled(c, said), Stored)
    BY <1>4, <2>1, AppendedIsExact
  <2>3. PICK k : k = Compiled(c, said)
    OBVIOUS
  <2>4. claims'[i] = k
    BY <1>4, <2>2, <2>3, AppendedClaim
  <2>5. PICK n \in Nat : n = lastSeq
    BY DEF TypeOK
  <2>6. k.began.seq = n
    BY <1>3, <2>2, <2>3, <2>4, <2>5
  <2>7. IsExact(k, StoredAt(n))
    BY <2>2, <2>3, <2>5, StoredAtEnd
  <2>8. n <= lastSeq
    BY <2>5
  <2> QED BY <1>1, <2>4, <2>6, <2>7, <2>8
<1>5. ASSUME NEW c \in Compilers, AppendRejected(c), ~(i \in DOMAIN claims /\ claims'[i] = claims[i])
      PROVE  FALSE
  <2>1. AppendClaim(c, reasons[c]) /\ pc[c] = "reject"
    BY <1>5 DEF AppendRejected
  <2>2. claims'[i] = Compiled(c, reasons[c])
    BY <1>5, <2>1, AppendedClaim
  <2>3. claims'[i].reasons = reasons[c]
    BY <1>3, <2>1, <2>2
  <2>4. \E w \in reasons[c] : w.kind = "network not found"
    BY <2>1 DEF QuietIsExact
  <2> QED BY <2>3, <2>4 DEF Quietly
<1>6. UNCHANGED claims => i \in DOMAIN claims /\ claims'[i] = claims[i]
  OBVIOUS
<1> QED BY <1>2, <1>4, <1>5, <1>6, ClaimsAreAppended

\* In the beginning no compilation runs.
LEMMA InitQuietInv == Init => QuietInv
<1> SUFFICES ASSUME Init PROVE QuietInv
  OBVIOUS
<1>1. NumbersDiffer /\ QuietCompileIsExact
  BY DEF Init, NumbersDiffer, QuietCompileIsExact, Stored
<1>2. ASSUME NEW c \in Compilers PROVE QuietIsExact(c)
  BY DEF Init, QuietIsExact
<1> QED BY <1>1, <1>2 DEF QuietInv

\* For every finite catalog: when nothing is added and no second passes while a claim
\* is compiled, the claim names the closure of what its request names, and the reasons
\* against it are those of the definition, whatever the order of the compiler's steps
\* and whatever else other compilers did meanwhile.
THEOREM QuietExactness ==
  ASSUME IsFiniteSet(Evidence)
  PROVE  Spec => []QuietCompileIsExact
<1>1. TypeOK /\ ObligationsAreKept /\ RefusalInv /\ QuietInv /\ TypeOK' /\ [Next]_vars => QuietInv'
  <2> SUFFICES ASSUME TypeOK, ObligationsAreKept, RefusalInv, QuietInv, TypeOK', [Next]_vars
               PROVE  QuietInv'
    OBVIOUS
  <2>1. NumbersGrow /\ NumbersDiffer /\ QuietCompileIsExact /\ \A c \in Compilers : QuietIsExact(c)
    BY DEF RefusalInv, QuietInv
  <2>2. NumbersDiffer'
    BY <2>1, NumbersStayDifferent
  <2>3. \A c \in Compilers : QuietIsExact(c)'
    BY <2>1, StepKeepsQuiet
  <2>4. QuietCompileIsExact'
    BY <2>1, StepKeepsExact
  <2> QED BY <2>2, <2>3, <2>4 DEF QuietInv
<1>2. TypeOK /\ ObligationsAreKept /\ RefusalInv /\ [Next]_vars => RefusalInv'
  BY StepKeepsRefusalInv
<1>3. QuietInv => QuietCompileIsExact
  BY DEF QuietInv
<1> QED BY <1>1, <1>2, <1>3, InitQuietInv, InitRefusalInv, TypeCorrectness, SupportInvariance, PTL DEF Spec
=============================================================================
