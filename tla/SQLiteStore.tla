---------------------------- MODULE SQLiteStore ----------------------------
(***************************************************************************)
(* The SQLite backend (adapters/sqlite_store.py) used by several           *)
(* processes at once.  Every call opens its own connection, so the SELECT, *)
(* the INSERT and the COMMIT of a call are separate steps that calls of    *)
(* other processes may come between; inside transaction() all calls of a   *)
(* process share one connection and its locks.  The lock protocol is the   *)
(* rollback-journal protocol of SQLite as the code uses it: an INSERT      *)
(* takes the single write lock, a SELECT inside an open transaction keeps  *)
(* a read lock until the transaction ends, and a commit that changes the   *)
(* file waits for the read locks of others or fails.                       *)
(***************************************************************************)
EXTENDS SequencesExt

CONSTANTS
  Clients,    \* processes that use the database file
  Items,      \* what callers append: [table, id, body] records
  MaxCalls,   \* bound on the appends begun in a behaviour
  MaxDepth,   \* bound on the nesting of transaction() blocks
  NoClient,   \* nobody
  NoBody      \* what a SELECT that finds no row returns

Tables == {"evidence", "networks", "claims", "reports"}

ASSUME ItemsAssumption == Items # {} /\ \A x \in Items : x.table \in Tables /\ x.body # NoBody
ASSUME ClientsAssumption == NoClient \notin Clients
ASSUME BoundsAssumption == MaxCalls \in Nat /\ MaxDepth \in Nat

VARIABLES
  db,       \* committed rows of each table, oldest first
  dirty,    \* the rows the holder of the write lock sees
  writer,   \* who holds the write lock
  readers,  \* processes whose open transaction holds a read lock
  pc,       \* where each process is in its current append
  item,     \* the object it is appending
  depth,    \* how many transaction() blocks it is in
  pending,  \* answers given inside its open transaction
  acked,    \* answers that stand: outside a transaction, or once it committed
  calls     \* appends begun so far

locks == <<dirty, writer, readers>>
vars == <<db, dirty, writer, readers, pc, item, depth, pending, acked, calls>>

Steps == {"idle", "select", "insert", "conflict", "commit"}

Bodies == {x.body : x \in Items}
RowsOf(t) == {[id |-> x.id, body |-> x.body] : x \in {y \in Items : y.table = t}}
Answers ==
  {[table |-> x.table, id |-> x.id, body |-> x.body, seq |-> n, tx |-> b] :
     x \in Items, n \in 0..MaxCalls, b \in BOOLEAN}

----------------------------------------------------------------------------
(* Tables as lists of rows                                                 *)

Has(tables, t, id) == \E i \in DOMAIN tables[t] : tables[t][i].id = id

Position(tables, t, id) == CHOOSE i \in DOMAIN tables[t] : tables[t][i].id = id

Lookup(tables, t, id) ==
  IF Has(tables, t, id) THEN tables[t][Position(tables, t, id)].body ELSE NoBody

\* Variant: rows come newest first.
WithRowInFront(tables, x) ==
  [tables EXCEPT ![x.table] = <<[id |-> x.id, body |-> x.body]>> \o @]

WithRow(tables, x) ==
  [tables EXCEPT ![x.table] = Append(@, [id |-> x.id, body |-> x.body])]

\* Variant: a call inside a transaction reads on a connection of its own.
ViewOutside(c) == db

\* What a statement on the connection of c reads.
View(c) == IF writer = c THEN dirty ELSE db

InTx(c) == depth[c] > 0

Goto(c, step) == pc' = [pc EXCEPT ![c] = step]

\* The answer to c's append, read off the tables it was given from.
AnswerOf(c, tables) ==
  LET x == item[c] IN
  [table |-> x.table, id |-> x.id, body |-> x.body,
   seq |-> IF x.table = "evidence" THEN Position(tables, x.table, x.id) ELSE 0,
   tx |-> InTx(c)]

\* Give up all locks and whatever was not committed (db' is already given).
Release(c) ==
  /\ dirty' = IF writer = c THEN db' ELSE dirty
  /\ writer' = IF writer = c THEN NoClient ELSE writer
  /\ readers' = readers \ {c}

----------------------------------------------------------------------------
Init ==
  /\ db = [t \in Tables |-> <<>>]
  /\ dirty = db
  /\ writer = NoClient
  /\ readers = {}
  /\ pc = [c \in Clients |-> "idle"]
  /\ item = [c \in Clients |-> CHOOSE x \in Items : TRUE]
  /\ depth = [c \in Clients |-> 0]
  /\ pending = [c \in Clients |-> {}]
  /\ acked = {}
  /\ calls = 0

\* append_evidence inserts at once; the other tables are looked up first.
Call(c, x) ==
  /\ pc[c] = "idle"
  /\ calls < MaxCalls
  /\ calls' = calls + 1
  /\ item' = [item EXCEPT ![c] = x]
  /\ Goto(c, IF x.table = "evidence" THEN "insert" ELSE "select")
  /\ UNCHANGED <<db, locks, depth, pending, acked>>

\* SELECT raw_json ...: a different row under the id fails closed.  Outside a
\* transaction the statement runs on its own and keeps no lock.
Select(c) ==
  LET found == Lookup(View(c), item[c].table, item[c].id) IN
  /\ pc[c] = "select"
  /\ Goto(c, IF found \in {NoBody, item[c].body} THEN "insert" ELSE "idle")
  /\ readers' = IF InTx(c) THEN readers \cup {c} ELSE readers
  /\ UNCHANGED <<db, dirty, writer, item, depth, pending, acked, calls>>

\* The call ends with an answer; outside a transaction it commits first.
Finish(c, tables) ==
  IF InTx(c)
  THEN /\ pending' = [pending EXCEPT ![c] = @ \cup {AnswerOf(c, tables)}]
       /\ Goto(c, "idle")
  ELSE /\ Goto(c, "commit")
       /\ UNCHANGED pending

\* The INSERT.  A row under an id that is taken is an IntegrityError for
\* evidence and silently ignored (INSERT OR IGNORE) for the other tables.
Insert(c) ==
  LET x == item[c]
      taken == Has(View(c), x.table, x.id)
      after == IF taken THEN View(c) ELSE WithRow(View(c), x) IN
  /\ pc[c] = "insert"
  /\ writer \in {NoClient, c}
  /\ writer' = c
  /\ dirty' = after
  /\ IF taken /\ x.table = "evidence"
     THEN Goto(c, "conflict") /\ UNCHANGED pending
     ELSE Finish(c, after)
  /\ UNCHANGED <<db, readers, item, depth, acked, calls>>

\* Variant: an id that exists is taken for the same object.
TrustConflict(c) ==
  /\ pc[c] = "conflict"
  /\ Finish(c, IF InTx(c) THEN dirty ELSE db)
  /\ UNCHANGED <<db, locks, item, depth, acked, calls>>

\* The IntegrityError handler reads the existing row, on a connection of its
\* own unless a transaction is open, and accepts it only if it is the same.
ResolveConflict(c) ==
  LET seen == IF InTx(c) THEN dirty ELSE db
      same == Lookup(seen, item[c].table, item[c].id) = item[c].body IN
  /\ pc[c] = "conflict"
  /\ UNCHANGED <<db, item, depth, acked, calls>>
  /\ \/ /\ same
        /\ Finish(c, seen)
        /\ UNCHANGED locks
     \/ /\ ~same
        /\ Goto(c, "idle")
        /\ IF InTx(c) THEN UNCHANGED locks ELSE Release(c)
        /\ UNCHANGED pending

\* A commit that changes the file needs every other reader out of the way.
MayCommit(c) == writer = c /\ dirty # db => readers \subseteq {c}

\* con.commit() in _connect: one append, on a connection of its own.
Commit(c) ==
  /\ pc[c] = "commit"
  /\ MayCommit(c)
  /\ db' = dirty
  /\ acked' = acked \cup {AnswerOf(c, dirty)}
  /\ Goto(c, "idle")
  /\ Release(c)
  /\ UNCHANGED <<item, depth, pending, calls>>

\* Variant: no busy timeout, a call waits until it gets its lock.
WaitForLock(c) ==
  /\ pc[c] = "insert" /\ writer = NoClient
  /\ UNCHANGED vars

\* "database is locked" after the busy timeout: the call fails; outside a
\* transaction its connection is rolled back.
Busy(c) ==
  /\ \/ pc[c] = "insert" /\ writer \notin {NoClient, c}
     \/ pc[c] = "commit" /\ ~MayCommit(c)
  /\ Goto(c, "idle")
  /\ UNCHANGED <<db, item, depth, pending, acked, calls>>
  /\ IF InTx(c) THEN UNCHANGED locks ELSE Release(c)
----------------------------------------------------------------------------
(* transaction()                                                           *)

\* BEGIN is deferred: no lock yet.  A nested block only yields.
BeginTx(c) ==
  /\ pc[c] = "idle"
  /\ depth[c] < MaxDepth
  /\ depth' = [depth EXCEPT ![c] = @ + 1]
  /\ UNCHANGED <<db, locks, pc, item, pending, acked, calls>>

\* The block ends normally; only the outermost one commits.
EndTx(c) ==
  /\ pc[c] = "idle"
  /\ InTx(c)
  /\ depth' = [depth EXCEPT ![c] = @ - 1]
  /\ \/ /\ depth[c] > 1
        /\ UNCHANGED <<db, locks, pending, acked>>
     \/ /\ depth[c] = 1
        /\ MayCommit(c)
        /\ db' = IF writer = c THEN dirty ELSE db
        /\ acked' = acked \cup pending[c]
        /\ pending' = [pending EXCEPT ![c] = {}]
        /\ Release(c)
  /\ UNCHANGED <<pc, item, calls>>

\* Variant: the handler resets the depth and the end of the block counts down.
RaiseTwice(c) ==
  /\ pc[c] = "idle"
  /\ InTx(c)
  /\ depth' = [depth EXCEPT ![c] = 0 - 1]
  /\ pending' = [pending EXCEPT ![c] = {}]
  /\ UNCHANGED <<db, pc, item, acked, calls>>
  /\ Release(c)

\* An exception leaves all blocks (a failed append that was not caught, an
\* exception of the caller, or a commit that found the database locked).
RaiseTx(c) ==
  /\ pc[c] = "idle"
  /\ InTx(c)
  /\ depth' = [depth EXCEPT ![c] = 0]
  /\ pending' = [pending EXCEPT ![c] = {}]
  /\ UNCHANGED <<db, pc, item, acked, calls>>
  /\ Release(c)

\* The process dies and is started again: SQLite drops what it had not
\* committed and its locks.
Crash(c) ==
  /\ pc[c] # "idle" \/ InTx(c)
  /\ Goto(c, "idle")
  /\ depth' = [depth EXCEPT ![c] = 0]
  /\ pending' = [pending EXCEPT ![c] = {}]
  /\ UNCHANGED <<db, item, acked, calls>>
  /\ Release(c)

----------------------------------------------------------------------------
\* The steps of a call that is under way.
Proceed(c) ==
  \/ Select(c)
  \/ Insert(c)
  \/ ResolveConflict(c)
  \/ Commit(c)
  \/ Busy(c)

Next ==
  \E c \in Clients :
    \/ \E x \in Items : Call(c, x)
    \/ Proceed(c)
    \/ BeginTx(c)
    \/ EndTx(c)
    \/ RaiseTx(c)
    \/ Crash(c)

\* A call that has begun keeps running; whether a process begins one, ends
\* its transaction or dies is its own affair.
Fairness == \A c \in Clients : WF_vars(Proceed(c))

Spec == Init /\ [][Next]_vars /\ Fairness

----------------------------------------------------------------------------
\* Every table holds rows made of its own items.
IsTables(f) ==
  /\ f \in [Tables -> Seq(UNION {RowsOf(t) : t \in Tables})]
  /\ \A t \in Tables : f[t] \in Seq(RowsOf(t))

TypeOK ==
  /\ IsTables(db)
  /\ IsTables(dirty)
  /\ writer \in Clients \cup {NoClient}
  /\ readers \subseteq Clients
  /\ pc \in [Clients -> Steps]
  /\ item \in [Clients -> Items]
  /\ depth \in [Clients -> 0..MaxDepth]
  /\ pending \in [Clients -> SUBSET Answers]
  /\ acked \subseteq Answers
  /\ calls \in 0..MaxCalls

\* An answer that the tables hold: the row is there, with the body and at the
\* place the caller was told.
Stored(a) ==
  /\ Lookup(db, a.table, a.id) = a.body
  /\ a.seq \in {0, Position(db, a.table, a.id)}

\* Every append of evidence that was answered is stored with that content and
\* obs_seq, whatever other processes did meanwhile and whoever crashed: the
\* UNIQUE constraint decides, not a SELECT made earlier.  The same holds of
\* every table for appends made inside a transaction that committed, since
\* the SELECT's read lock keeps other commits out until the INSERT.
AcceptedIsStored ==
  \A a \in acked : (a.table = "evidence" \/ a.tx) => Stored(a)

\* docs/backend_author_guide.md: an id reused with different content fails
\* closed.  For networks outside a transaction this asks that nobody is told
\* a network is stored while the table holds another one under its id.
NetworkReuseFailsClosed ==
  \A a \in acked : a.table = "networks" => Stored(a)

\* While c is inside a transaction, everything it was told is stored there is
\* what it will still read there: no commit of another process slips in
\* between its statements.
TransactionReadsOwnAnswers ==
  \A c \in Clients : \A a \in pending[c] :
    /\ Lookup(View(c), a.table, a.id) = a.body
    /\ a.seq \in {0, Position(View(c), a.table, a.id)}

\* Why they hold.  No id is in a table twice, and whoever holds the write lock
\* sees the committed rows with its own behind them.
UniqueRows(f) ==
  \A t \in Tables : \A i, j \in DOMAIN f[t] : f[t][i].id = f[t][j].id => i = j

Grows(old, new) ==
  \A t \in Tables : \A i \in DOMAIN old[t] : i \in DOMAIN new[t] /\ new[t][i] = old[t][i]

RowsAreKept == UniqueRows(db) /\ UniqueRows(dirty) /\ Grows(db, dirty)

\* The write lock is held from the INSERT to the end of the call or transaction,
\* a read lock only inside a transaction; answers wait only for who has the lock.
LocksAreHeld ==
  /\ writer = NoClient => dirty = db
  /\ \A c \in Clients :
       /\ writer = c => InTx(c) \/ pc[c] \in {"conflict", "commit"}
       /\ pc[c] = "conflict" => writer = c /\ (InTx(c) \/ dirty = db)
       /\ pc[c] = "commit" => writer = c /\ ~InTx(c)
       /\ c \in readers => InTx(c)
       /\ pending[c] # {} => writer = c /\ InTx(c)

\* What a call has found out so far is still so: what a SELECT of a transaction
\* read is what its INSERT will meet, and what is about to be committed is there.
ProgressIsKept ==
  \A c \in Clients :
    LET x == item[c] IN
    /\ pc[c] = "insert" /\ InTx(c) /\ x.table # "evidence" =>
         c \in readers /\ Lookup(View(c), x.table, x.id) \in {NoBody, x.body}
    /\ pc[c] = "commit" =>
         /\ Has(dirty, x.table, x.id)
         /\ x.table = "evidence" => Lookup(dirty, x.table, x.id) = x.body

\* Every row stands for a call that has got past its INSERT.
BeforeInsert == {c \in Clients : pc[c] \in {"select", "insert"}}

RowsAreCounted ==
  /\ IsFiniteSet(BeforeInsert)
  /\ \A t \in Tables : Len(dirty[t]) + Cardinality(BeforeInsert) <= calls

\* The part of the storage contract that holds for every caller: evidence,
\* and claims, whose compilation ids are never reused.
Contract == INSTANCE LedgerStore WITH
  Tables <- {"evidence", "claims"},
  rows <- [t \in {"evidence", "claims"} |-> db[t]],
  acked <- {[table |-> a.table, id |-> a.id, body |-> a.body, seq |-> a.seq] :
              a \in {b \in acked : b.table \in {"evidence", "claims"}}}

\* The tables implement the write-once, append-only ledger.
ImplementsLedger == Contract!Spec

\* Every append is answered, refused or fails with a locked database: two
\* processes that hold locks the other needs do not wait for each other
\* forever, even if neither ends its transaction.
EveryCallReturns == \A c \in Clients : pc[c] # "idle" ~> pc[c] = "idle"
=============================================================================
