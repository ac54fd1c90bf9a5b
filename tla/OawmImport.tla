----------------------------- MODULE OawmImport -----------------------------
(***************************************************************************)
(* Import of OAWM state (adapters/oawm_bridge.py, import_oawm in           *)
(* runtime/kernel.py): an importer reads five tables of a database that    *)
(* another program writes, one statement after the other and without a     *)
(* transaction, makes an evidence object of every admitted row, and adds   *)
(* the objects to the ledger one by one.  An object has the identity of    *)
(* its row, and the second in which it was made is part of its content.    *)
(*                                                                         *)
(* Importers may stop half way, because they crash or because the ledger   *)
(* is locked for too long, and are run again.  One append is one step here *)
(* (module SQLiteStore takes it apart).                                    *)
(***************************************************************************)
EXTENDS Integers, Sequences, Functions

CONSTANTS
  Importers,   \* processes that import
  Histories,   \* sequences of rows, in the order OAWM writes them
  Filters,     \* run ids that imports may be limited to, or AnyRun
  AnyRun,      \* no limit
  MaxImports,  \* bound on the imports begun
  MaxTime      \* bound on the clock

Tables ==
  {"events", "evidence_manifests", "promotion_receipts", "memory_records", "workflow_contracts"}

\* good: a receipt that passed, a memory record in the certified lane; needs: the
\* rows its evidence_refs name; broken: raw_json is not an object.
Rows ==
  [id : STRING, table : Tables, run : STRING, good : BOOLEAN, broken : BOOLEAN,
   needs : SUBSET STRING]

\* Rows have identities of their own, and receipts and memory records refer to
\* manifests.
ASSUME HistoriesAssumption ==
  \A h \in Histories :
    /\ h \in Seq(Rows)
    /\ \A i, j \in DOMAIN h :
         /\ h[i].id = h[j].id => i = j
         /\ h[j].id \in h[i].needs =>
              /\ h[i].table \in {"promotion_receipts", "memory_records"}
              /\ h[j].table = "evidence_manifests"

ASSUME BoundsAssumption == MaxImports \in Nat /\ MaxTime \in Nat

\* Variant: receipts are read before the manifests they refer to.
ReceiptsFirst ==
  <<"events", "promotion_receipts", "evidence_manifests", "memory_records", "workflow_contracts">>

\* The order of import_state.
ImportOrder ==
  <<"events", "evidence_manifests", "promotion_receipts", "memory_records", "workflow_contracts">>

VARIABLES
  history,   \* what OAWM writes in this behaviour
  written,   \* how much of it is in its database
  clock,
  ledger,    \* stored evidence: id, made, and (history) the rows written when its import began
  pc,        \* "idle", "read" or "store"
  filter,    \* the run id the importer was given
  next,      \* the table it reads next, as a place in ImportOrder
  objects,   \* objects it has made and not yet added
  added,     \* objects its current import has added
  before,    \* history: rows written when its current import began
  outcome,   \* how its last import ended
  imports,   \* imports begun
  acked      \* answers given: objects that an import returned as stored

importer == <<pc, filter, next, objects, added, before, outcome>>
vars == <<history, written, clock, ledger, importer, imports, acked>>

Written(n) == {history[i] : i \in 1..n}

RowIds(n) == {x.id : x \in Written(n)}

Init ==
  /\ history \in Histories
  /\ written \in 0..Len(history)
  /\ clock = 0
  /\ ledger = <<>>
  /\ pc = [i \in Importers |-> "idle"]
  /\ filter = [i \in Importers |-> AnyRun]
  /\ next = [i \in Importers |-> 1]
  /\ objects = [i \in Importers |-> <<>>]
  /\ added = [i \in Importers |-> {}]
  /\ before = [i \in Importers |-> 0]
  /\ outcome = [i \in Importers |-> "none"]
  /\ imports = 0
  /\ acked = {}

\* OAWM goes on, and so does time.
Write ==
  /\ written < Len(history)
  /\ written' = written + 1
  /\ UNCHANGED <<history, clock, ledger, importer, imports, acked>>

Tick ==
  /\ clock < MaxTime
  /\ clock' = clock + 1
  /\ UNCHANGED <<history, written, ledger, importer, imports, acked>>

----------------------------------------------------------------------------
Begin(i, run) ==
  /\ pc[i] = "idle"
  /\ imports < MaxImports
  /\ imports' = imports + 1
  /\ pc' = [pc EXCEPT ![i] = "read"]
  /\ filter' = [filter EXCEPT ![i] = run]
  /\ before' = [before EXCEPT ![i] = written]
  /\ outcome' = [outcome EXCEPT ![i] = "none"]
  /\ UNCHANGED <<history, written, clock, ledger, next, objects, added, acked>>

\* Variant: the list of objects outlives the import, as a shared default would.
EndHolding(i, how) ==
  /\ pc' = [pc EXCEPT ![i] = "idle"]
  /\ filter' = [filter EXCEPT ![i] = AnyRun]
  /\ next' = [next EXCEPT ![i] = 1]
  /\ before' = [before EXCEPT ![i] = 0]
  /\ outcome' = [outcome EXCEPT ![i] = how]
  /\ UNCHANGED <<objects, added>>

\* An import ends, and what it knew is gone.
End(i, how) ==
  /\ pc' = [pc EXCEPT ![i] = "idle"]
  /\ filter' = [filter EXCEPT ![i] = AnyRun]
  /\ next' = [next EXCEPT ![i] = 1]
  /\ objects' = [objects EXCEPT ![i] = <<>>]
  /\ added' = [added EXCEPT ![i] = {}]
  /\ before' = [before EXCEPT ![i] = 0]
  /\ outcome' = [outcome EXCEPT ![i] = how]

\* It raises, or the process dies: what it added stays.
Stop(i, how) ==
  /\ End(i, how)
  /\ UNCHANGED <<history, written, clock, ledger, imports, acked>>

\* Events of the wanted run, passed receipts, certified memory, everything else.
Admitted(x, run) ==
  /\ x.table = "events" => run \in {AnyRun, x.run}
  /\ x.table \in {"promotion_receipts", "memory_records"} => x.good

RowsOf(t) == {x \in Written(written) : x.table = t}

\* SQLite is asked for an order of events only, and nothing depends on it.
Listings(S) ==
  {s \in UNION {[1..n -> S] : n \in 0..written} : Range(s) = S /\ IsInjective(s)}

Made(s) == [k \in DOMAIN s |-> [id |-> s[k].id, made |-> clock]]

Keep(i, rows) ==
  /\ \E s \in Listings(rows) : objects' = [objects EXCEPT ![i] = @ \o Made(s)]
  /\ next' = [next EXCEPT ![i] = @ + 1]
  /\ pc' = [pc EXCEPT ![i] = IF next[i] = Len(ImportOrder) THEN "store" ELSE "read"]
  /\ UNCHANGED <<history, written, clock, ledger, filter, added, before, outcome, imports, acked>>

\* Variant: a table must have rows.
ReadRows(i) ==
  /\ pc[i] = "read"
  /\ RowsOf(ImportOrder[next[i]]) # {}
  /\ Keep(i, RowsOf(ImportOrder[next[i]]))

\* One SELECT over one table.  A missing table is an empty one; a broken row
\* fails the import, even the row of another run.
ReadTable(i) ==
  LET rows == RowsOf(ImportOrder[next[i]]) IN
  /\ pc[i] = "read"
  /\ \/ /\ \E x \in rows : x.broken
        /\ Stop(i, "failed")
     \/ /\ \A x \in rows : ~x.broken
        /\ Keep(i, {x \in rows : Admitted(x, filter[i])})

StoredIn(o) == {k \in DOMAIN ledger : ledger[k].id = o.id}
SameIn(o) == {k \in StoredIn(o) : ledger[k].made = o.made}

\* Variant: an object that is stored already counts as added, whenever it was made.
AddAnyway(i) ==
  /\ pc[i] = "store"
  /\ objects[i] # <<>>
  /\ LET o == Head(objects[i]) IN
     /\ ledger' = IF StoredIn(o) = {}
                  THEN Append(ledger, [id |-> o.id, made |-> o.made, before |-> before[i]])
                  ELSE ledger
     /\ added' = [added EXCEPT ![i] = @ \cup {o}]
  /\ objects' = [objects EXCEPT ![i] = Tail(@)]
  /\ UNCHANGED <<history, written, clock, pc, filter, next, before, outcome, imports, acked>>

\* add_evidence: a new object is appended, the same one is accepted again, another
\* content under the same id fails closed and with it the whole import.
Add(i) ==
  /\ pc[i] = "store"
  /\ objects[i] # <<>>
  /\ LET o == Head(objects[i]) IN
     IF StoredIn(o) # SameIn(o) THEN Stop(i, "failed")
     ELSE /\ ledger' = IF StoredIn(o) = {}
                       THEN Append(ledger, [id |-> o.id, made |-> o.made, before |-> before[i]])
                       ELSE ledger
          /\ added' = [added EXCEPT ![i] = @ \cup {o}]
          /\ objects' = [objects EXCEPT ![i] = Tail(@)]
          /\ UNCHANGED <<history, written, clock, pc, filter, next, before, outcome,
                         imports, acked>>

\* Variant: the import returns after the first object that was stored.
ReturnEarly(i) ==
  /\ pc[i] = "store"
  /\ objects[i] = <<>> \/ added[i] # {}
  /\ acked' = acked \cup added[i]
  /\ End(i, "done")
  /\ UNCHANGED <<history, written, clock, ledger, imports>>

\* The import returns what it stored.
Return(i) ==
  /\ pc[i] = "store"
  /\ objects[i] = <<>>
  /\ acked' = acked \cup added[i]
  /\ End(i, "done")
  /\ UNCHANGED <<history, written, clock, ledger, imports>>

\* A crash, or a database that stays locked.
Break(i) ==
  /\ pc[i] # "idle"
  /\ Stop(i, "broken")

Work(i) == ReadTable(i) \/ Add(i) \/ Return(i)

Next ==
  \/ Write \/ Tick
  \/ \E i \in Importers : Work(i) \/ Break(i) \/ \E run \in Filters : Begin(i, run)

\* An importer that neither crashes nor waits for anybody goes on.
Spec == Init /\ [][Next]_vars /\ \A i \in Importers : WF_vars(Work(i))

----------------------------------------------------------------------------
Objects == [id : STRING, made : 0..MaxTime]

\* The types; and an import starts without anything of an earlier one.
TypeOK ==
  /\ history \in Histories /\ written \in 0..Len(history) /\ clock \in 0..MaxTime
  /\ pc \in [Importers -> {"idle", "read", "store"}]
  /\ filter \in [Importers -> Filters \cup {AnyRun}]
  /\ next \in [Importers -> 1..(Len(ImportOrder) + 1)]
  /\ objects \in [Importers -> Seq(Objects)]
  /\ added \in [Importers -> SUBSET Objects]
  /\ before \in [Importers -> 0..written]
  /\ outcome \in [Importers -> {"none", "done", "failed", "broken"}]
  /\ \A i \in Importers :
       /\ pc[i] = "read" => next[i] <= Len(ImportOrder)
       /\ pc[i] = "idle" => next[i] = 1
       /\ next[i] = 1 => objects[i] = <<>> /\ added[i] = {}
  /\ imports \in 0..MaxImports
  /\ ledger \in Seq([id : STRING, made : 0..MaxTime, before : 0..written])
  /\ acked \subseteq Objects

LedgerIds == {ledger[k].id : k \in DOMAIN ledger}

\* A receipt or memory record is never in the ledger without a row it refers to
\* that OAWM had written when the import began; the row is there first, also
\* after an import that stopped half way.  (Five SELECTs without a transaction,
\* and one append after the other: only the order of both protects this.)
ReferencesComeFirst ==
  \A k \in DOMAIN ledger : \A x \in Range(history) :
    x.id = ledger[k].id =>
      \A id \in x.needs \cap RowIds(ledger[k].before) : \E j \in 1..(k - 1) : ledger[j].id = id

\* Why it holds.  An importer that is past the manifests has all that were there when
\* it began, added or not; and its objects are in an order in which they can be added.
Held(i) == {objects[i][k].id : k \in DOMAIN objects[i]}

ManifestsAreHeld(i) ==
  pc[i] # "idle" /\ next[i] > 2 =>
    \A x \in Written(before[i]) :
      x.table = "evidence_manifests" => x.id \in LedgerIds \cup Held(i)

ObjectsAreInOrder(i) ==
  \A k \in DOMAIN objects[i] : \A x \in Range(history) :
    x.id = objects[i][k].id =>
      \A id \in x.needs \cap RowIds(before[i]) :
        \/ id \in LedgerIds
        \/ \E j \in 1..(k - 1) : objects[i][j].id = id

OrderIsKept == \A i \in Importers : ManifestsAreHeld(i) /\ ObjectsAreInOrder(i)

\* The outcome of an import tells the truth: one that returns has stored every
\* row it should have found when it began, and nothing it should not admit; one
\* that fails met a broken row, or an object stored in another second.
OutcomeIsTrue ==
  [][\A i \in Importers : pc[i] # "idle" /\ pc'[i] = "idle" =>
       LET due(n) == {x.id : x \in {y \in Written(n) : Admitted(y, filter[i])}}
           ids == {o.id : o \in added[i]} IN
       /\ ids \subseteq due(written)
       /\ outcome'[i] = "done" => due(before[i]) \subseteq ids
       /\ outcome'[i] = "failed" =>
            \/ \E x \in Written(written) : x.broken
            \/ objects[i] # <<>> /\ \E k \in StoredIn(Head(objects[i])) :
                 ledger[k].made # Head(objects[i]).made]_vars

\* Concurrent, broken and repeated imports use the ledger as it promises: rows
\* are added at the end under fresh ids, and what an import returned as stored is
\* stored with that very content.
Ledger ==
  INSTANCE LedgerStore WITH
    Tables <- {"evidence"},
    rows   <- [evidence |-> [k \in DOMAIN ledger |-> [id |-> ledger[k].id, body |-> ledger[k].made]]],
    acked  <- {[table |-> "evidence", id |-> o.id, body |-> o.made, seq |-> 0] : o \in acked}

ImportsKeepLedger == Ledger!Spec

\* Every import ends, whatever OAWM writes meanwhile.
EveryImportEnds == \A i \in Importers : pc[i] # "idle" ~> pc[i] = "idle"
=============================================================================
