--------------------------- MODULE InMemoryStore ---------------------------
(***************************************************************************)
(* The in-memory backend (adapters/in_memory_store.py).  One process, one  *)
(* dictionary per table; every call runs to its end before the next one.   *)
(* A table is the list of its rows in insertion order, as in SQLiteStore,  *)
(* so that the two backends can be compared.                               *)
(***************************************************************************)
EXTENDS SequencesExt

CONSTANTS
  MemItems,     \* what callers append: [table, id, body] records
  Content(_)    \* the part of a network's body that content_digest covers

MemTables == {"evidence", "networks", "claims", "reports"}

VARIABLES
  mem,       \* the rows of each table
  reply      \* "stored" or "refused": how the last call ended

memVars == <<mem, reply>>

MemHas(t, id) == \E i \in DOMAIN mem[t] : mem[t][i].id = id
MemPosition(t, id) == CHOOSE i \in DOMAIN mem[t] : mem[t][i].id = id
MemBody(t, id) == mem[t][MemPosition(t, id)].body

MemInit ==
  /\ mem = [t \in MemTables |-> <<>>]
  /\ reply = "stored"

\* A new id: the row goes to the end of its table (obs_seq + 1 for evidence).
MemInsert(x) ==
  /\ ~MemHas(x.table, x.id)
  /\ mem' = [mem EXCEPT ![x.table] = Append(@, [id |-> x.id, body |-> x.body])]
  /\ reply' = "stored"

\* Variants: a repeated id replaces the evidence, replaces the network whatever
\* its content, or is always accepted.
MemReplaceEvidence(x) ==
  /\ x.table = "evidence"
  /\ MemHas(x.table, x.id)
  /\ mem' = [mem EXCEPT ![x.table][MemPosition(x.table, x.id)].body = x.body]
  /\ reply' = "stored"

MemReplaceNetwork(x) ==
  /\ x.table = "networks"
  /\ MemHas(x.table, x.id)
  /\ mem' = [mem EXCEPT ![x.table][MemPosition(x.table, x.id)].body = x.body]
  /\ reply' = "stored"

MemIgnoreRepeat(x) ==
  /\ x.table \in {"claims", "reports"}
  /\ MemHas(x.table, x.id)
  /\ reply' = "stored"
  /\ UNCHANGED mem

\* append_evidence: the stored object is returned if it is the same one,
\* field by field, created_at included.
MemRepeatEvidence(x) ==
  /\ x.table = "evidence"
  /\ MemHas(x.table, x.id)
  /\ reply' = IF MemBody(x.table, x.id) = x.body THEN "stored" ELSE "refused"
  /\ UNCHANGED mem

\* upsert_network: same content_digest is enough, and the new object replaces
\* the stored one.
MemRepeatNetwork(x) ==
  /\ x.table = "networks"
  /\ MemHas(x.table, x.id)
  /\ IF Content(MemBody(x.table, x.id)) = Content(x.body)
     THEN /\ mem' = [mem EXCEPT ![x.table][MemPosition(x.table, x.id)].body = x.body]
          /\ reply' = "stored"
     ELSE /\ reply' = "refused"
          /\ UNCHANGED mem

\* append_claim and append_report: the whole object must be the same.
MemRepeatResult(x) ==
  /\ x.table \in {"claims", "reports"}
  /\ MemHas(x.table, x.id)
  /\ reply' = IF MemBody(x.table, x.id) = x.body THEN "stored" ELSE "refused"
  /\ UNCHANGED mem

MemAppend(x) ==
  \/ MemInsert(x)
  \/ MemRepeatEvidence(x)
  \/ MemRepeatNetwork(x)
  \/ MemRepeatResult(x)

MemNext == \E x \in MemItems : MemAppend(x)

MemSpec == MemInit /\ [][MemNext]_memVars
=============================================================================
