# Certified workflow conversion: a TLA+ model

This project models the kernel of `certified_workflow_conversion`: a Python library that
keeps an append-only ledger of evidence, compiles claims about workflow networks from it,
and reports lower bounds on their flow. Paths below are relative to
`src/certified_workflow_conversion/` in the repository.

## 1. The system

| Part | State it keeps | Operations | Hard behaviour |
| --- | --- | --- | --- |
| Storage contract (`ports/storage.py`) | four tables: evidence, networks, claims, reports | append / upsert, get, list, `transaction()` | a promise to every caller, whatever other processes do |
| SQLite backend (`adapters/sqlite_store.py`) | one database file; per process a connection and a transaction depth | the same; each append is SELECT, INSERT, COMMIT | several processes, locks and the busy timeout, rollback, crashes |
| In-memory backend (`adapters/in_memory_store.py`) | one dictionary per table | the same | must be indistinguishable from SQLite |
| Claim compiler (`runtime/kernel.py`, `compile_claim`) | local: evidence found, reasons, references to resolve | a dozen storage reads, then one append | the ledger grows and evidence expires between its reads; cyclic dependencies |
| Kernel and light analysis (`runtime/kernel.py`, `adapters/deterministic_analyzer.py`) | none of its own | `register_network`, `analyze`, `export_report`, `audit` | claims compiled again while an analysis reads; repeated analyses; two analysts between whose look-up and insert of a report the other comes; dictionaries as input |
| Lower bound, scores, proposals (`adapters/deterministic_analyzer.py`) | residual capacities, flow | augment, perturb every edge, propose | residual bookkeeping, edges that share an id, capped augmentations |
| Domain models (`core/`) | immutable records | activity, capacities, ids as digests | deductions above the capacity, the second of expiry |
| Full certification (`adapters/full_certification.py`, `core/certificates.py`) | one dictionary of numbers and references, handed from check to check | fifteen validators, then one report | many checks with one verdict; each looks for any match; numbers overwritten on the way; three readings of the clock; payloads that make a validator raise |
| Statistics and dual prices (`adapters/statistical_certificates.py`, `adapters/scipy_flow.py`) | none | numeric bounds, linear program, two perturbed programs per edge | several edges that share a bottleneck; unlisted nodes |
| Validation capital (`adapters/validation_capital.py`) | residual capacities, cut | reachability from the trust roots, augmenting paths | edges of no declared capacity, negative demands and demands of unlisted nodes, residual bookkeeping |
| OAWM import (`adapters/oawm_bridge.py`, `import_oawm`) | the list of objects read and not yet added | five SELECTs, then one append per object | stops half way; run again, or twice at once; reads without a snapshot |
| Command line, loaders, sinks, plugins | files | parse, one kernel call, write | none the kernel does not have |

**Interaction.** Callers (the CLI, scripts) make kernel calls; a kernel call makes storage
calls one after the other and usually *not* inside `transaction()`. Nothing calls back, no
threads are started, and processes meet only in the database file. So the concurrency of the
system is that of storage calls: every storage call is a step (of the compiler, of an
analysis), and inside the SQLite backend every SQL statement is a step.

**What makes each part correct.**
- Store: what was answered is stored and stays; an id stands for one content; a transaction
  is all or nothing; the backends agree.
- Compiler: "no support, no certification". A supported claim has evidence, fit and
  complete with its dependencies, for each thing asked; a refused one was rightly refused;
  it ends.
- Analysis: an `ok` report rests on a supported claim and on no failed gate; it uses the
  latest compilation; it never fails for lack of evidence the claim names; an id stands
  for one report, and who is told that a report is stored finds one.
- Full report: the bound leaves room for the charges of the evidence under every certificate and
  every cut of the network; all evidence was fit at one moment; every number is vouched for
  by a contract that names its sources and a witness of it; the strictest budget is kept; the
  trust roots can send what is declared; no binding edge is missing among the bottlenecks.
- Import: what an object refers to is stored before it, if that was written before the import
  began; an outcome tells the truth; the ledger keeps its promise whatever stops or collides; every import ends.
- Flow: the bound is the minimum cut; scores are true marginal gains; proposals are best.

The hazards behind these properties, each at its line, are in `PROJECT.json`.

## 2. Modules

| Module | Models | Relation |
| --- | --- | --- |
| `LedgerStore` | abstract: append-only, write-once tables and answers that are backed | - |
| `SQLiteStore` | SQLite backend with statements, locks, transactions, crashes | implements `LedgerStore` (`INSTANCE ... WITH`) |
| `InMemoryStore` | in-memory backend | - |
| `StoreParity` | the same calls made on both backends | EXTENDS both |
| `ClaimCompiler` | `compile_claim` over a growing ledger and a clock | - |
| `ClaimCompiler_proofs` | theorems about it | EXTENDS `ClaimCompiler`, TLAPS |
| `SQLiteStore_proofs` | theorems about the SQLite backend, with the refinement | EXTENDS `SQLiteStore`, TLAPS |
| `StoreParity_proofs` | theorems about the parity | EXTENDS `StoreParity`, `SQLiteStore_proofs` |
| `Analysis` | networks given as objects or dictionaries, `analyze`, reports | EXTENDS `ClaimCompiler` |
| `Analysis_proofs` | theorems about analyses and reports | EXTENDS `Analysis`, `ClaimCompiler_proofs` |
| `FlowGraph` | shortest augmenting paths, residuals and cuts of a graph | - |
| `MaxFlow` | lower bound, scores, optimizer of the light profile | EXTENDS `FlowGraph` |
| `MaxFlow_proofs` | theorems about the flow, the scores and the proposals | EXTENDS `MaxFlow`, `SumsAndFlows` |
| `ValidationCapital` | root reachability and root cut | INSTANCEs `FlowGraph` |
| `FullCertification` | the validators of the full profile, the relaxation, the report | EXTENDS `ValidationCapital`, INSTANCEs `FlowGraph` |
| `FullCertification_proofs` | theorems about the validators, the flows behind the bound, the root cut and the report | EXTENDS `FullCertification`, `SumsAndFlows` |
| `SumsAndFlows` | lemmas about sums over finite sets, and about flows, cuts, paths and searches in any finite graph | EXTENDS TLAPS |
| `OawmImport` | importers over a foreign database and the ledger | implements `LedgerStore` (`INSTANCE ... WITH`) |
| `OawmImport_proofs` | theorems about it, with the refinement | EXTENDS `OawmImport`, TLAPS |
| `MC*` | instances for TLC | EXTEND the module of that name |

Why the composition is sound: `ClaimCompiler` and `Analysis` treat a storage call as one
atomic step on write-once tables. `SQLiteStore` shows that this is what evidence and claims
are (`ImplementsLedger`): each takes effect at its commit, once, for good. Reports carry
neither bound nor scores, since those are functions of the network and the request, computed
without storage (`MaxFlow`). The report table has no such guarantee against two processes that
store reports of one id at the same instant (it shares the code pattern of finding 1), so `Analysis`
takes its SELECT and its INSERT apart.

A comment that begins with *Variant* marks an operator that is not the code: it is a
plausible slip in the definition that follows it, kept so that each property can be shown to
fail when the code is changed that way. No specification uses a variant.

### How state and actions correspond to the code

**SQLiteStore.** `db` is the committed file, `dirty` what the connection holding the write lock
sees, `readers` the read locks kept by open transactions. `Call` enters `append_evidence`,
`upsert_network`, `append_claim` or `append_report`; `Select` is their `SELECT raw_json`,
`Insert` their `INSERT` (plain for evidence, `OR IGNORE` otherwise), `ResolveConflict` the
`IntegrityError` handler, `Commit` the commit of `_connect`. `BeginTx`, `EndTx` and `RaiseTx`
are entering, leaving and unwinding `transaction()`, whose nested blocks only yield.
`Busy` is "database is locked" after the busy timeout; `Crash` a process that dies.
The lock protocol itself is SQLite's rollback-journal mode, modelled as the code relies on it.
A SELECT can time out too, but only with three processes, and then the call fails and
changes nothing; that is left out. Items carry opaque bodies: equality
of the stored JSON is equality of bodies.

**InMemoryStore.** One action per way an append can end: `MemInsert`, `MemRepeatEvidence`,
`MemRepeatNetwork`, `MemRepeatResult`.

**ClaimCompiler.** Evidence objects are immutable, so `Profile[e]` gives their fields and the
ledger is only `obs`, their observation numbers. `Begin`; `NetworkMissing`/`NetworkFound`
(`get_network`); `ListScope` (`list_evidence` of a required scope); `FetchPresent`/`FetchMissing`
(`get_evidence` and the activity check, which reads the clock in `is_expired` and again in
`can_support_claim`: `Doubts(e, then)`, with `then` in `Later`, so that active evidence that expires
in between is called inactive); `StartRound`, `ResolveById`, `ResolveByRef`,
`EndClosure` (`_add_dependency_closure` and `_resolve_evidence_ref`); `CheckScope`;
`AppendChecked`/`AppendRejected` (TCB check and `append_claim`). `AddEvidence`,
`RegisterNetwork` and `Tick` are the rest of the world. Loops that run in the order of digests
or of insertion take their elements in any order, so the results hold for every order. The
fields `began` and `appended` are history: they feed properties only.

**Analysis.** `Ask` enters `analyze`; `ReadNetwork`, `ReadClaim`, `ReadEvidence` are its storage
reads; `Conclude` is `DeterministicAnalyzer.analyze`; `FindReport` is the SELECT and the comparison of
`append_report`, `InsertReport` its INSERT OR IGNORE and COMMIT, other analysts come in between. A
database that stays locked fails the call and leaves nothing; that is in `SQLiteStore` and left out here.
`since` and `taken` are history.
`NetworkFromDict` is `_network_from_dict`. `ReportId` lists the fields of the digest that is the
report id. Ids are taken to be injective digests.

**MaxFlow.** `Build` constructs the residual graph of the network with one edge id perturbed (or
none); `Augment` is one iteration of `_max_flow` along any shortest path; `Saturated`
ends it; `Conclude` records the bound or a score; `Propose` and `Finish` are the optimizer.

**FullCertification.** `bundle` is what `analyze` is given: network, claim, target, split and
the evidence in the order the kernel read it, each object with its parsed payload, or
`valid = FALSE` where `model_validate` raises. One action per validator, named after it, in the
order of `validate_full_certification_inputs`; `pc` names the next. Reasons accumulate in
`limitations`, without their details, and never stop the validators after them. `bindings` is
`term_bindings`, `summary` the numbers and references that later validators and
`_compose_full_lower_bound` take out of the `summary` dictionary. `Report` is the rest of `analyze`;
`SolverFails` is `linprog` without success. `Raise` is an error that nobody catches: `int()` of a
limit (line 614), `float()` or `int()` of a parameter (line 818 catches others), the negative total that
`RootCutCertificate` refuses (line 858). No report is made then. `Tick` may come between any two steps; the clock is
read by `CheckClaim`, `CheckKinds` and `CheckTcb` (the code reads it once per object; within one
validator the model takes one reading). Diagnostic and certified mode differ only in how an
already blocked report is built, so the mode is left out. Charges and certified bounds are
whole multiples of 1/`Unit`, so that the `floor` at the end still rounds; capacities are whole. The
delta of a statistical certificate is a whole multiple of 1/`Micro` microunits, so that its conversion
truncates (`CountedDelta`), and is a number or a string of one, which is used but not counted (`Numeric`).
Confidences of evidence are integers of either sign.
An optional number is a set with at most one member. `Radius` is the square-root term of
a one-step certificate. The linear program has the capacities of a flow network, so its optimum
is the least cut (`Flow`), except that nodes the network does not list conserve nothing:
an unlisted source yields the whole target.

**ValidationCapital.** `StartCut` builds the capacities of `_root_cut_capacity`, `AugmentCut` is one
iteration of `_max_flow`, `CutIsFinal` its return. Demands are integers of
either sign, and a list may name a demand node twice. `FullCertification` calls it as `StartCapital`,
`AugmentCapital` and `JudgeCapital`.

**OawmImport.** `Begin` enters `import_oawm`; `ReadTable` is one SELECT of `import_state` with the
conversion of its rows; `Add` one `add_evidence` (`append_evidence` with its repeat and its
collision); `Return` the end of the list. `Break` is a crash or a ledger that stays locked. `Write` is the
OAWM program, which writes a row after the rows it refers to. That it only ever appends is an
assumption: an update in place changes the payload digest and with it the identity, so the new row is
another one, but the old row would be gone, which the model does not have. The identity of an object is a
digest of its row without the time, its content includes `created_at`, a second. The objects of one
table are made in one second (the code reads the clock for each row; no property depends on it), and
its rows are read in any order. A table that does not exist
reads as an empty one. `before`,
`outcome` and `acked` are history.

## 3. Runs

| Run | Question | Result |
| --- | --- | --- |
| `sqlite_store` | Do two processes with transactions, lock conflicts and crashes keep the contract? | holds: `AcceptedIsStored`, `TransactionReadsOwnAnswers`, `ImplementsLedger`, `EveryCallReturns` |
| `sqlite_network_race` | Does reuse of a network id fail closed between processes? | violated, finding 1 |
| `store_parity` | Do the backends agree after, and in the answer to, every call? | holds, networks up to `created_at` |
| `claim_compiler` | Is a claim sound, a refusal justified, an undisturbed compilation exact, and does it end? | holds |
| `claim_monotone` | Is the compiler monotone in the evidence? | violated, finding 2 |
| `analysis` | Are reports backed, fresh and unique under recompilation, expiry and a second analyst? | holds |
| `analysis_repeat` | Is the same report accepted again? | violated, finding 3 |
| `analysis_other` | Has an `ok` report evidence for its own network? | violated, finding 4 |
| `max_flow` | Is the bound the minimum cut, are scores marginal gains, proposals best? | holds |
| `full_certification` | Is everything an `ok` full report says true of the bundle it was made from, and does every analysis end? | holds |
| `full_promises` | Does an `ok` full report keep at least one of three promises of the documents? | violated, findings 5 to 7 |
| `oawm_import` | Do imports that crash, collide and are repeated store references first, tell the truth and keep the ledger? | holds |

### Findings

1. `upsert_network` reads before it has the write lock, then `INSERT OR IGNORE`s: two processes
   that register different contents under one id are both told theirs is stored.
2. Adding a quarantined or expired object to a required scope turns a supported claim into an
   unsupported one, so compilation is not monotone in the evidence as the documents say.
3. A report's id leaves out `created_at`, the comparison on append does not: the same analysis
   one second later is refused where the port promises an idempotent append.
4. `analyze` never compares the network with the one of the claim: a claim about one network
   gives an `ok` report on another whose edges have no evidence.
5. For the capacity of an edge the code asks any binding for the edge's support
   (`adapters/full_certification.py:541`) and takes the largest value of all of them (line 559), bindings
   by an ambiguous name counted beside one by id: a contract that depends on something else
   vouches for the capacity (`CapacityFromSupport`).
6. A certificate whose `delta` is the string of a number uses it
   (`adapters/statistical_certificates.py:78`), but the budget does not count it (line 816)
   (`EveryDeltaIsPaid`).
7. Negative demands (`core/certificates.py:264`) cancel the others in the declared sum (line 862): an
   `ok` report may stand on a root cut below the demand of its nodes (`DemandIsWithinRootCut`).

Findings 5 to 7 come from one run, `full_promises`: `OkKeepsSomePromise` says that an `ok` report keeps at least
one of the three, and TLC finds a report that keeps none. What does hold of capacities,
confidence and demands is in `EveryTermIsWitnessed`, `ConfidenceIsPaid` and `RootedCapital`.

More observations, not counted as findings:

- `_network_from_dict` drops hard gates, reservations, queues and charges of an edge
  dictionary that has no `edge_id` (`runtime/kernel.py:341`). `EdgeFromDict` follows this, so gates
  in the properties are those that were stored.
- A confidence budget that is no number, a parameter of a certificate that `float()` or `int()` refuses
  with an error other than the three that are caught, and a negative total demand end the analysis with
  an error instead of a blocked report. `EveryReportEnds` says that nothing else does.
- An import repeated a second after one that stored anything fails on the first object it stored
  (`created_at` differs), so an import that stopped half way can be completed only within that
  second: `OutcomeIsTrue` allows this failure because the store documents it, and
  `ImportsKeepLedger` shows that nothing is lost or doubled by it.
- A manifest and its receipt that are both written after the import has read the manifests leave
  the receipt in the ledger without its manifest until the next import: `ReferencesComeFirst` speaks
  of rows that were there when the import began.

### Bounds, and why they are enough

- `sqlite_store`: 2 processes, `MaxCalls` 3 appends, `MaxDepth` 2. A lost answer needs one
  append of each process between the statements of the other; the third call lets a transaction
  hold two answers while the other process interferes, and depth 2 reaches a nested block. The
  items contain equal ids with different bodies (evidence, reports), and claims.
- `store_parity`: one process, `MaxCalls` 4; three bodies per id (same content at two creation
  times, other content) give first, equal, similar and different repeats of each table.
- `claim_compiler`: four objects with a dependency cycle, a reference carried by two objects of
  which one is quarantined and one expires, an id that never exists; four requests (dependency
  chain, scope, explicit ids, item without evidence); `MaxTime` 1, so that time passes at any
  one point; `MaxClaims` 1, since compilations interact only through the evidence, which others
  add in every order anyway, and a compilation reads no claims.
- `claim_monotone`: two objects, `MaxClaims` 2.
- `analysis`: `MaxClaims` 2 and `MaxAnalyses` 2, so that a claim is compiled again (also refused,
  after its evidence expires at time 1) during an analysis and a report is made twice. Two
  analysts, each of whom may make its look-up, or its insert, between those of the other.
- `max_flow`: 64 networks (a network where a shortest path must be taken back, with varied
  capacities; every mix of deductions up to and over the capacity; cycles, shared ids,
  self-loops, undeclared nodes, no ends), targets 1 and 5, `Units` 2, and `MaxStep` 2 in place
  of 10^18, so that the cap of an augmentation really binds.

- `full_certification`: a complete bundle (12 certificates, 8 contracts with their witnesses, two
  edges in a row) and 136 bundles that differ from it in a few places: expired and quarantined
  objects, overlapping and empty splits, every mismatch of a contract and a witness, shared edge
  names, malformed, missing and repeated certificates, budgets at the limit and beyond, networks
  with parallel and binding edges, unlisted nodes, charges above the bound, validation
  graphs with blocked nodes, parallel and undeclared capacities, unlisted nodes and negative demands,
  negative confidences, deltas that are strings or have fractions of a microunit (`Micro` 2), and payloads that
  raise. `MaxTime` 2 lets objects expire between each two readings. `full_promises` has the same bundles.
- `oawm_import`: two importers, `MaxImports` 2, `MaxTime` 1, five histories of two or three rows that
  together have every table, every row that is not admitted and a broken one. A collision
  needs one object and two imports; a missed reference needs two tables and a write between the
  SELECTs; a repeated import a second later needs one tick.

`CHECK_DEADLOCK FALSE` everywhere: the bounds and the end of the callers' work really do stop the
system.

### Fairness

A call that has begun keeps running: weak fairness of `Proceed(c)`, `Compile(c)`,
`Work(i)`, `Validate \/ Raise` and, for the flow, of its only process. The code is straight-line Python with no wait except
SQLite's busy timeout, which ends. Nothing else is fair: that a caller begins a call,
leaves its transaction, adds evidence, that time passes, that OAWM writes or that a process crashes is never
assumed. No property needs an analyst of `Analysis` to go on, so none is fair there. `EveryCallReturns` therefore holds even if the other process keeps its lock for ever.

## 4. Proofs

Every theorem holds for every value of the constants that satisfies the named assumptions
(`ASSUME`), and these only say what the constants are: catalogs, items, payloads and bundles
have their types, a request exists, rows of a history have ids of their own, networks and graphs have
finitely many nodes, bounds are numbers. The names that the code reserves for the two ends of a flow
(`__cwc_source__`, `__cwc_val_root__`, ...) are assumed not to be nodes: the code does not check this, and
a network that used them is outside the model. No proof uses the value of a bound, so the ledgers, clocks and numbers of calls are unbounded in
effect; no safety proof uses fairness. `PROJECT.json` lists the theorems with the properties they state.

Hypotheses beyond the assumptions, each where it is needed only:

| Theorem | Hypothesis | Why the code has it |
| --- | --- | --- |
| `QuietExactness` | `IsFiniteSet(Evidence)` | a database has finitely many rows; the closure counts rounds up to the number of objects |
| `StoreImplementsLedger` | `ClaimIdsAreFresh`: claims of one id have one body | `compile_claim` makes a new id for each compilation; outside a transaction `INSERT OR IGNORE` would hide the difference (finding 1) |
| `BackendsAgree`, `BackendNetworksAgree`, `BackendsAnswerAlike` | `OneClient` | a dictionary lives in one process, so that parity is a question about one |

**`ClaimCompiler_proofs`**: `TypeCorrectness`, `ObligationsStay`, `SupportSoundness`, `RefusalSoundness`,
`QuietExactness`, each `Spec => [](the property)`. None of the properties speaks of what a compilation
does on its way, so none is inductive; each has a strengthening per compiler.

- `SupportIsSound` needs `ObligationsAreKept`: as long as a compiler
  has no reason against the claim, everything found is stored and was fit when the compilation
  began (`FoundIsFit`), everything asked for is found or still to be fetched (`AskedIsKept`),
  every dependency of found evidence is known, still to be looked up, being looked up, or due
  to another round (`DependenciesAreKept`), and every scope already checked has its evidence
  (`ScopesAreKept`). A step of the compiler
  keeps its own part (`CompileKeepsTrack`, one case per action); others do not touch it
  (`OthersDoNotMove`, `UnmovedKeeps`) and the ledger and the clock only grow (`LedgerGrows`), while
  fitness is lost with time but never gained (`SupportIsAntitone`); at the append the parts together are
  soundness (`AppendedIsSound`).
- `RefusalIsJustified` needs `RefusalInv`: numbers are given out in order (`NumbersGrow`), so that what was
  stored before a compilation began never changes (`BeforeIsFixed`); objects of a required scope that were
  there are gathered, and nothing that was there is looked up by reference (`ScopesAreGathered`); every
  reason written down so far is true (`ReasonsAreTrue`), and stays so (`ReasonsStayTrue`). The clock may go on
  between the two tests of one object, so that "inactive" only says that the object could not support the
  claim any more, having perhaps just expired.
- `QuietCompileIsExact` compares a compilation with its definition, the closure `Rounds`. `QuietInv` says
  where in the definition a compiler is that nothing has disturbed: the names it has looked at
  (`GatherIsExact`), a round and the dependencies of it that it has followed (`ClosureIsExact`), the scopes it has
  checked (`CheckIsExact`), with exactly the evidence and the reasons of that point. `RoundsEnd` shows
  that the rounds stop at a fixed point no later than after as many as there are objects, which is
  what lets the code stop when a round changes nothing.

**`Analysis_proofs`**: `AnalysisImplementsCompiler` (`AnalysisSpec => Spec`: every step of an analysis
is a stutter of the compiler), and with it everything proved of claims also holds beside analyses. Then
`AnalysisTypeCorrectness`, `OkReportsAreBacked`, `AnalysesFindEvidence`, `ReportsAreFresh`,
`StoredReportsAnswer`, from the inductive `AnalysisInv`: the compilation an analyst has read is one its question is
about, and none older than those that were there when it was asked (`Chosen`); the evidence it still has to read is evidence of
it; its draft and the stored reports are what their compilation allows (`RestsOnClaim`); one id, one
report (`ReportsInv`); and an analyst that found a report under its id found its own, which stays, so that only one
stored by another since then is ever answered for in place of its own. They survive the other analysts and compilers since claims are
only appended (`ClaimsStay`).

**`SQLiteStore_proofs`**: `TypeCorrectness`, `AcceptedStaysStored`, `TransactionIsolation`, and the refinement
`StoreImplementsLedger`. `AcceptedIsStored` is not inductive: whether the answer that a commit gives is true
depends on what the lock holder sees. `IInv` adds that
ids are unique in what is committed and in what the writer sees, and the second continues the first (`RowsAreKept`);
who holds which lock at which statement (`LocksAreHeld`); that what a call has found out is still so
(`ProgressIsKept`), the reason being its read lock; that every row stands for a call (`RowsAreCounted`);
and that answers are where they were said to be, also those about an id that callers give one content only,
which need no lock (`AnswersAreStored`). One lemma per part goes through all actions, with one case for the process
that moves and one for the others (`OthersStay`). For the refinement every step either appends
one row with a fresh id to the committed tables or leaves them alone, and every new answer is one that the tables
back (`StepExtends`, `StepAnswers`).

**`StoreParity_proofs`**: `BackendsAgree`, `BackendNetworksAgree` and `BackendsAnswerAlike` (an action property). The backends are *not*
equal while SQLite is at work on a call, as the dictionary is written at once. `CallIsMirrored`
says for each statement what the dictionary already holds: what SQLite will hold at its commit. With `IInv`
of the SQLite backend, proved there, it is inductive.

**`MaxFlow_proofs`**: `TypeCorrectness`, `ResidualStaysFlow`, `BoundIsExact`, `ScoresAreGains`, `ProposalsStayBest`:
every invariant of the light profile's numbers, for any networks over finitely many nodes. `BoundIsMinCut` speaks of
`base` once all flows are over, so the inductive invariant says what every flow leaves behind: the residuals are those
of a flow of value `total` within the capacities (`FlowInv`), the base and every score made so far are the true ones
(`ScoreInv`), and the proposals so far are the best of the ids offered (`ProposalInv`). That a push keeps the residuals
a flow is `PushKeepsFlow`: the search finds a path without repetitions on whose arcs something is left
(`AugmentingPath`), and pushing along it changes what a vertex sends by what the path enters and leaves there. That
the search ends with the least cut is `SaturatedIsMinCut`: no flow exceeds a cut (`ResidualBelowCut`), and the set of
vertices that the search reached is one the flow fills (`ResidualFillsCut`). That a score is at most one per edge is
that a cut grows by what its arcs grow (`CutsGrowLittle`). The lemmas about sums, flows, paths and searches are
in `SumsAndFlows`, for any finite set of vertices and any capacities, of either sign.

**`FullCertification_proofs`**: `TypeCorrectness`, `OkNeedsFitEvidence`, `OverlapIsExcused`, `TermsAreWitnessed`,
`ConfidenceWithinBudget`, `FullBoundSound`, `BottlenecksFound`, `RootsCarryDemand`: every invariant of the full
profile. `Ok` speaks of the finished report, fifteen validators after what it rests on. The invariant `IInv` says
what each validator that has run leaves behind *as long as nothing blocks the report*: `EvidenceIsChecked`,
`BindingsAreChecked`, `TermsAreChecked` and `NumbersAreChecked` have one conjunct per validator, guarded by
`Passed(step)`; `ReportIsLast` ties the report to the end. The order of the validators is a lemma of its own
(`EveryStepGoesOn`, `StepsInOrder`), as is that evidence fit at the last reading of the clock was fit at the first
(`FitBefore`).

Five theorems need more than `IInv`:

- `FullBoundSound` says that the bound is below each certificate *and below every cut of the network*. The model takes
  the optimum of the linear program to be the least cut of its network with two ends added; `FlowIs` shows that no set
  of nodes with the sources and without the sinks carries less: what crosses it there is at most what leaves it
  (`CrossingBelowLeaving`), plus the target for every source or sink on the wrong side, and there is none. That the
  charges in the dictionary are the natural numbers of the certificates, or more, is `ChargesAreNumbers`; with it the
  least of the ceilings (`CeilingsAre`) leaves room for them (`RoomForCharges`).
- `BottlenecksFound`: an edge that leaves a least cut has a positive price, since without a unit of it the cut, and with
  it the flow, is one lower (`OverrideIs`, `UpperPriceIs`).
- `ConfidenceWithinBudget` adds up in microunits what is spent in fractions of them: each numeric delta is
  less than one microunit above what is counted of it (`SpentIsCounted`), whatever sign the confidences have.
- `RootsCarryDemand` speaks of the graph that was judged before the report, with demands, and capacities made of them,
  of either sign. `CapitalInv` says of the search for
  augmenting paths that the residuals are those of a flow of value `cut` within the capacities of the graph
  (`CapitalPush`), which no cut can be below (`RootsReachAcross`); once the demand is served, a set of nodes with the
  roots can keep back no more than leaves it (`CutServesDemands`). That every demand is joined to a root is
  `ReachableStays`: the search never leaves a set that no edge leaves.
- `TypeCorrectness` also needs that each reason is one of the list (`ReasonsAreNames`), and that the bound is a
  natural number (`BoundIsNumber`).

Sums over evidence, least and greatest elements of finite sets, and that a set of indices is finite
come from `SumsAndFlows`, which has the lemmas about the operators of the community modules that the proofs need (sums by
adding an element, induction over a finite set stated as a fact about sets instead of an operator).

**`OawmImport_proofs`**: `TypeCorrectness`, `ReferencesAreFirst`, `ImportImplementsLedger`, `OutcomesAreTrue` (an action
property). `HistoriesAssumption` says
that rows have ids of their own, that receipts and memory records refer to manifests, and no other rows to any.
`ReferencesComeFirst` speaks
of the ledger only. Its strengthening `OrderIsKept` follows each importer: once it is past
the manifests, all that were written when it began are in the ledger or among its objects
(`ManifestsAreHeld`), and its objects are in an order in which they can be appended one by one
(`ObjectsAreInOrder`). Reading a table keeps this because the order of the SELECTs puts manifests
before what refers to them (`KeepInOrder`); appending keeps it because the head goes first
(`AddInOrder`); an import that stops takes its objects with it (`EndInOrder`), and others only make
the ledger longer (`OthersKept`). For the refinement the invariant `LedgerIsKept` says that no id
is there twice and that what an import has added or returned is stored with its content; every step
leaves the ledger alone or appends one entry under a fresh id (`LedgerGrows`), which is a step of
`LedgerStore` (`StepExtends`, `StepAnswers`). What an import says when it ends rests on `ImportIsExact`: all it has
made, added or not, is of rows it may admit, and of the tables read so far it has every such row that was there when
it began (`KeepIsExact`); adding an object only moves it from one list to the other (`AddIsExact`).

The strengthenings of the compiler, of the SQLite backend, of the parity, of the imports, of the light profile's numbers and of the full profile were checked by TLC on
the instances of section 3 before they were proved.

Only model-checked:

- all liveness: fairness and ENABLED are beyond the prover;
- the properties that expected violations refute: a counterexample is what shows them.

Every other property of a passing run is stated by a theorem.

## 5. Not modelled

- Floating point: `FullCertification` computes with whole multiples of 1/`Unit`, without rounding
  errors, infinities, numbers too large for a float, or the tolerances 1e-9 and 1e-12; the radius of a one-step certificate is a
  constant operator; HiGHS is taken to return the optimum or to fail.
- `estimate` and `lower` of the dual prices: only the upper end decides a bottleneck.
- The field validators of contracts and witnesses (`valid` says whether they passed), and which alias of
  an output carries the number.
- Composition rules other than strings (a rule that cannot be hashed raises an error).
- The command line, loaders, sinks, protocol classes and plugins: parsing, files, look-ups.
- Validation of shapes, canonical JSON, hashing and wording of reasons: abstracted; digests are
  injective. `export_report` and `audit` only read.
- The conversion of evidence and request dictionaries (`runtime/kernel.py`, where an expiry can be
  lost on the way).
- How the bridge collects external references from a payload, and the missing database file.

## 6. Plan

Done: all modules above, and a theorem for every property of a passing run that is not liveness. Next: theorems
that no run states, such as the monotonicity of a least cut in the capacities, which says how a report
may change when an edge is added.

## 7. Running

`tlc -config X.cfg M` with the pairs of modules and configurations named in `PROJECT.json`;
`tlapm M.tla` for each of `SumsAndFlows`, `ClaimCompiler_proofs`, `Analysis_proofs`, `SQLiteStore_proofs`,
`StoreParity_proofs`, `MaxFlow_proofs`, `FullCertification_proofs` and `OawmImport_proofs` for the proofs.
