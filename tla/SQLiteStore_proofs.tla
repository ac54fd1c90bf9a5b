------------------------ MODULE SQLiteStore_proofs ------------------------
(***************************************************************************)
(* Proofs about the SQLite backend for any number of processes, any items  *)
(* and any bounds: what was accepted is stored, a transaction reads what   *)
(* it was told, and the tables implement the write-once ledger.            *)
(***************************************************************************)
EXTENDS SQLiteStore, SequenceTheorems, FiniteSetTheorems, TLAPS

----------------------------------------------------------------------------
(* Rows                                                                    *)

\* What a table is: a finite list of rows with bodies.
LEMMA TableType ==
  ASSUME NEW f, IsTables(f), NEW t \in Tables
  PROVE  /\ f[t] \in Seq(RowsOf(t)) /\ Len(f[t]) \in Nat /\ DOMAIN f[t] = 1..Len(f[t])
         /\ \A i \in DOMAIN f[t] : f[t][i] \in RowsOf(t) /\ f[t][i].body # NoBody
<1>1. f[t] \in Seq(RowsOf(t))
  BY DEF IsTables
<1>2. Len(f[t]) \in Nat /\ DOMAIN f[t] = 1..Len(f[t])
  BY <1>1, LenProperties
<1>3. \A i \in DOMAIN f[t] : f[t][i] \in RowsOf(t)
  BY <1>1, <1>2, ElementOfSeq
<1>4. \A r \in RowsOf(t) : r.body # NoBody
  BY ItemsAssumption DEF RowsOf
<1> QED BY <1>1, <1>2, <1>3, <1>4

\* The row with an id is the only one, and a look-up finds it.
LEMMA RowIsFound ==
  ASSUME NEW f, UniqueRows(f), NEW t \in Tables, NEW i \in DOMAIN f[t]
  PROVE  /\ Has(f, t, f[t][i].id)
         /\ Position(f, t, f[t][i].id) = i
         /\ Lookup(f, t, f[t][i].id) = f[t][i].body
<1> DEFINE id == f[t][i].id
<1>1. Has(f, t, id)
  BY DEF Has
<1>2. Position(f, t, id) \in DOMAIN f[t] /\ f[t][Position(f, t, id)].id = id
  BY DEF Position
<1>3. Position(f, t, id) = i
  BY <1>2 DEF UniqueRows
<1> QED BY <1>1, <1>3 DEF Lookup

\* An id that a table has is the id of a row with a body.
LEMMA HasRow ==
  ASSUME NEW f, IsTables(f), NEW t \in Tables, NEW id, Has(f, t, id)
  PROVE  /\ Position(f, t, id) \in DOMAIN f[t] /\ f[t][Position(f, t, id)].id = id
         /\ Lookup(f, t, id) = f[t][Position(f, t, id)].body
         /\ Lookup(f, t, id) # NoBody
<1>1. Position(f, t, id) \in DOMAIN f[t] /\ f[t][Position(f, t, id)].id = id
  BY DEF Has, Position
<1>2. Lookup(f, t, id) = f[t][Position(f, t, id)].body
  BY DEF Lookup
<1> QED BY <1>1, <1>2, TableType

\* A body is found only if there is a row.
LEMMA FoundIsThere ==
  ASSUME NEW f, NEW t, NEW id, Lookup(f, t, id) # NoBody
  PROVE  Has(f, t, id)
BY DEF Lookup

\* Rows behind those of a table change nothing about what it holds.
LEMMA GrownTable ==
  ASSUME NEW f, NEW g, IsTables(f), UniqueRows(g), Grows(f, g), NEW t \in Tables, NEW id, Has(f, t, id)
  PROVE  /\ Has(g, t, id)
         /\ Position(g, t, id) = Position(f, t, id)
         /\ Lookup(g, t, id) = Lookup(f, t, id)
<1> DEFINE i == Position(f, t, id)
<1>1. i \in DOMAIN f[t] /\ f[t][i].id = id /\ Lookup(f, t, id) = f[t][i].body
  BY HasRow
<1>2. i \in DOMAIN g[t] /\ g[t][i] = f[t][i]
  BY <1>1 DEF Grows
<1> QED BY <1>1, <1>2, RowIsFound

\* A new row under a fresh id goes to the end, and is found there.
LEMMA RowIsAdded ==
  ASSUME NEW f, IsTables(f), UniqueRows(f), NEW x \in Items, ~Has(f, x.table, x.id)
  PROVE  /\ IsTables(WithRow(f, x)) /\ UniqueRows(WithRow(f, x)) /\ Grows(f, WithRow(f, x))
         /\ Has(WithRow(f, x), x.table, x.id)
         /\ Lookup(WithRow(f, x), x.table, x.id) = x.body
         /\ Len(WithRow(f, x)[x.table]) = Len(f[x.table]) + 1
         /\ \A t \in Tables : t # x.table => WithRow(f, x)[t] = f[t]
<1> DEFINE t == x.table
           r == [id |-> x.id, body |-> x.body]
           n == Len(f[t])
           g == WithRow(f, x)
<1>1. t \in Tables
  BY ItemsAssumption
<1>2. r \in RowsOf(t)
  BY DEF RowsOf
<1>3. f[t] \in Seq(RowsOf(t)) /\ n \in Nat /\ DOMAIN f[t] = 1..n
  BY <1>1, TableType
<1>4. /\ Append(f[t], r) \in Seq(RowsOf(t))
      /\ Len(Append(f[t], r)) = n + 1
      /\ \A i \in 1..n : Append(f[t], r)[i] = f[t][i]
      /\ Append(f[t], r)[n + 1] = r
  <2> HIDE DEF r
  <2> QED BY <1>2, <1>3, AppendProperties
<1>5. DOMAIN Append(f[t], r) = 1..(n + 1)
  BY <1>4, LenProperties
<1>6. f \in [Tables -> Seq(UNION {RowsOf(u) : u \in Tables})]
  BY DEF IsTables
<1>7. g = [f EXCEPT ![t] = Append(f[t], r)]
  BY DEF WithRow
<1>8. g[t] = Append(f[t], r) /\ \A u \in Tables : u # t => g[u] = f[u]
  BY <1>1, <1>6, <1>7
<1>9. IsTables(g)
  <2>1. RowsOf(t) \subseteq UNION {RowsOf(u) : u \in Tables}
    BY <1>1
  <2>2. Append(f[t], r) \in Seq(UNION {RowsOf(u) : u \in Tables})
    BY <1>4, <2>1, SeqMonotonic
  <2>3. g \in [Tables -> Seq(UNION {RowsOf(u) : u \in Tables})]
    BY <1>1, <1>6, <1>7, <2>2
  <2> QED BY <1>4, <1>8, <2>3 DEF IsTables
<1>10. Grows(f, g)
  <2>1. \A i \in DOMAIN f[t] : i \in DOMAIN g[t] /\ g[t][i] = f[t][i]
    <3> HIDE DEF g, r, n, t
    <3> QED BY <1>3, <1>4, <1>5, <1>8
  <2> QED BY <1>8, <2>1 DEF Grows
<1>11. UniqueRows(g)
  <2> SUFFICES ASSUME NEW u \in Tables, NEW i \in DOMAIN g[u], NEW j \in DOMAIN g[u], g[u][i].id = g[u][j].id
               PROVE  i = j
    BY DEF UniqueRows
  <2>1. CASE u # t
    BY <1>8, <2>1 DEF UniqueRows
  <2>2. CASE u = t
    <3>1. \A k \in 1..n : g[t][k] = f[t][k] /\ f[t][k].id # r.id
      BY <1>3, <1>4, <1>8 DEF Has
    <3>2. \A k, l \in 1..n : f[t][k].id = f[t][l].id => k = l
      BY <1>1, <1>3 DEF UniqueRows
    <3>3. g[t][n + 1].id = r.id
      BY <1>4, <1>8
    <3>4. i \in 1..(n + 1) /\ j \in 1..(n + 1)
      BY <1>5, <1>8, <2>2
    <3> HIDE DEF g, r, n, t
    <3> QED BY <1>3, <2>2, <3>1, <3>2, <3>3, <3>4
  <2> QED BY <2>1, <2>2
<1>12. n + 1 \in DOMAIN g[t] /\ g[t][n + 1].id = x.id /\ g[t][n + 1].body = x.body
  <2>1. n + 1 \in DOMAIN g[t] /\ g[t][n + 1] = r
    <3> HIDE DEF g, r, n, t
    <3> QED BY <1>3, <1>4, <1>5, <1>8
  <2> QED BY <2>1
<1>13. Has(g, t, x.id) /\ Lookup(g, t, x.id) = x.body
  <2> HIDE DEF g
  <2> QED BY <1>1, <1>11, <1>12, RowIsFound
<1> QED BY <1>4, <1>8, <1>9, <1>10, <1>11, <1>13

----------------------------------------------------------------------------
(* Steps, and what they do to the tables                                   *)

\* An INSERT works on what the holder of the write lock sees.
LEMMA InsertFacts ==
  ASSUME TypeOK, RowsAreKept, LocksAreHeld, NEW c \in Clients, Insert(c)
  PROVE  /\ item[c] \in Items /\ item[c].table \in Tables
         /\ View(c) = dirty /\ db' = db /\ writer' = c /\ writer \in {NoClient, c}
         /\ dirty' = IF Has(dirty, item[c].table, item[c].id) THEN dirty ELSE WithRow(dirty, item[c])
         /\ IsTables(dirty') /\ UniqueRows(dirty') /\ Grows(dirty, dirty')
         /\ Has(dirty', item[c].table, item[c].id)
         /\ ~Has(dirty, item[c].table, item[c].id) =>
              Lookup(dirty', item[c].table, item[c].id) = item[c].body
<1>1. item[c] \in Items /\ item[c].table \in Tables
  BY ItemsAssumption DEF TypeOK
<1>2. View(c) = dirty /\ db' = db /\ writer' = c /\ writer \in {NoClient, c}
  BY DEF View, Insert, LocksAreHeld
<1>3. dirty' = IF Has(dirty, item[c].table, item[c].id) THEN dirty ELSE WithRow(dirty, item[c])
  BY <1>2 DEF Insert
<1>4. IsTables(dirty) /\ UniqueRows(dirty) /\ Grows(dirty, dirty)
  BY DEF TypeOK, RowsAreKept, Grows
<1>5. CASE Has(dirty, item[c].table, item[c].id)
  BY <1>1, <1>2, <1>3, <1>4, <1>5
<1>6. CASE ~Has(dirty, item[c].table, item[c].id)
  BY <1>1, <1>2, <1>3, <1>4, <1>6, RowIsAdded
<1> QED BY <1>5, <1>6

\* A step leaves the tables alone, is an INSERT, or ends the hold of a writer,
\* whose rows are committed or dropped.
TableStep ==
  \/ UNCHANGED <<db, dirty, writer>>
  \/ \E c \in Clients : Insert(c)
  \/ \E c \in Clients : writer = c /\ writer' = NoClient /\ db' \in {db, dirty} /\ dirty' = db'

LEMMA NextTableStep ==
  ASSUME LocksAreHeld, [Next]_vars
  PROVE  TableStep
<1>1. ASSUME NEW c \in Clients, Release(c), db' = db PROVE TableStep
  BY <1>1 DEF Release, TableStep
<1>2. ASSUME NEW c \in Clients, Commit(c) PROVE TableStep
  BY <1>2 DEF Commit, Release, TableStep, LocksAreHeld
<1>3. ASSUME NEW c \in Clients, EndTx(c) PROVE TableStep
  BY <1>3 DEF EndTx, Release, TableStep, locks
<1>4. ASSUME NEW c \in Clients, ResolveConflict(c) PROVE TableStep
  BY <1>1, <1>4 DEF ResolveConflict, TableStep, locks
<1>5. ASSUME NEW c \in Clients, Busy(c) PROVE TableStep
  BY <1>1, <1>5 DEF Busy, TableStep, locks
<1>6. ASSUME NEW c \in Clients, RaiseTx(c) \/ Crash(c) PROVE TableStep
  BY <1>1, <1>6 DEF RaiseTx, Crash
<1>7. ASSUME NEW c \in Clients, NEW x \in Items, Call(c, x) PROVE TableStep
  BY <1>7 DEF Call, TableStep, locks
<1>8. ASSUME NEW c \in Clients, Select(c) \/ BeginTx(c) PROVE TableStep
  BY <1>8 DEF Select, BeginTx, TableStep, locks
<1>9. ASSUME NEW c \in Clients, Insert(c) PROVE TableStep
  BY <1>9 DEF TableStep
<1>10. CASE UNCHANGED vars
  BY <1>10 DEF vars, locks, TableStep
<1> QED BY <1>2, <1>3, <1>4, <1>5, <1>6, <1>7, <1>8, <1>9, <1>10 DEF Next, Proceed

\* The committed tables only grow, ids stay unique, the writer sees what is committed.
LEMMA NextKeepsRows ==
  ASSUME TypeOK, RowsAreKept, LocksAreHeld, [Next]_vars
  PROVE  IsTables(db)' /\ IsTables(dirty)' /\ RowsAreKept' /\ Grows(db, db')
<1>1. IsTables(db) /\ IsTables(dirty) /\ UniqueRows(db) /\ UniqueRows(dirty)
      /\ Grows(db, dirty) /\ Grows(db, db) /\ Grows(dirty, dirty)
  BY DEF TypeOK, RowsAreKept, Grows
<1>2. SUFFICES IsTables(db') /\ IsTables(dirty') /\ UniqueRows(db') /\ UniqueRows(dirty')
               /\ Grows(db', dirty') /\ Grows(db, db')
  BY DEF IsTables, RowsAreKept, UniqueRows, Grows
<1>3. CASE UNCHANGED <<db, dirty, writer>>
  BY <1>1, <1>3
<1>4. ASSUME NEW c \in Clients, Insert(c) 
      PROVE  IsTables(db') /\ IsTables(dirty') /\ UniqueRows(db') /\ UniqueRows(dirty')
             /\ Grows(db', dirty') /\ Grows(db, db')
  <2>1. db' = db /\ IsTables(dirty') /\ UniqueRows(dirty') /\ Grows(dirty, dirty')
    BY <1>4, InsertFacts
  <2>2. Grows(db, dirty')
    BY <1>1, <2>1 DEF Grows
  <2> QED BY <1>1, <2>1, <2>2
<1>5. ASSUME db' \in {db, dirty}, dirty' = db'
      PROVE  IsTables(db') /\ IsTables(dirty') /\ UniqueRows(db') /\ UniqueRows(dirty')
             /\ Grows(db', dirty') /\ Grows(db, db')
  BY <1>1, <1>5
<1> QED BY <1>3, <1>4, <1>5, NextTableStep DEF TableStep

----------------------------------------------------------------------------
(* Locks                                                                   *)

\* The write lock is never taken from its holder, and answers wait with it.
LEMMA NextKeepsLocks ==
  ASSUME TypeOK, LocksAreHeld, [Next]_vars
  PROVE  LocksAreHeld'
<1> DEFINE L(d) ==
             /\ writer' = d => InTx(d)' \/ pc'[d] \in {"conflict", "commit"}
             /\ pc'[d] = "conflict" => writer' = d /\ (InTx(d)' \/ dirty' = db')
             /\ pc'[d] = "commit" => writer' = d /\ ~InTx(d)'
             /\ d \in readers' => InTx(d)'
             /\ pending'[d] # {} => writer' = d /\ InTx(d)'
<1> SUFFICES (writer' = NoClient => dirty' = db') /\ \A d \in Clients : L(d)
  BY DEF LocksAreHeld
<1> USE ClientsAssumption
<1>1. ASSUME NEW c \in Clients, NEW x \in Items, Call(c, x)
      PROVE  (writer' = NoClient => dirty' = db') /\ \A d \in Clients : L(d)
  BY <1>1 DEF Call, Goto, locks, LocksAreHeld, InTx, TypeOK
<1>2. ASSUME NEW c \in Clients, Select(c)
      PROVE  (writer' = NoClient => dirty' = db') /\ \A d \in Clients : L(d)
  BY <1>2 DEF Select, Goto, LocksAreHeld, InTx, TypeOK
<1>3. ASSUME NEW c \in Clients, Insert(c)
      PROVE  (writer' = NoClient => dirty' = db') /\ \A d \in Clients : L(d)
  <2>1. /\ writer' = c /\ writer \in {NoClient, c} /\ pc[c] = "insert"
        /\ UNCHANGED <<db, readers, depth>>
    BY <1>3 DEF Insert
  <2>2. \/ pc' = [pc EXCEPT ![c] = "conflict"] /\ pending' = pending /\ dirty' = View(c)
        \/ InTx(c) /\ pc' = [pc EXCEPT ![c] = "idle"]
           /\ \E a : pending' = [pending EXCEPT ![c] = @ \cup {a}]
        \/ ~InTx(c) /\ pc' = [pc EXCEPT ![c] = "commit"] /\ pending' = pending
    BY <1>3 DEF Insert, Finish, Goto
  <2>3. ~InTx(c) => View(c) = db /\ writer = NoClient
    BY <2>1 DEF LocksAreHeld, View
  <2>4. L(c)
    BY <2>1, <2>2, <2>3 DEF LocksAreHeld, InTx, TypeOK
  <2>5. ASSUME NEW d \in Clients, d # c PROVE L(d)
    BY <2>1, <2>2, <2>5 DEF LocksAreHeld, InTx, TypeOK
  <2> QED BY <2>1, <2>4, <2>5
<1>4. ASSUME NEW c \in Clients, ResolveConflict(c)
      PROVE  (writer' = NoClient => dirty' = db') /\ \A d \in Clients : L(d)
  <2>1. UNCHANGED <<db, depth>> /\ pc[c] = "conflict" /\ writer = c
    BY <1>4 DEF ResolveConflict, LocksAreHeld
  <2>2. \/ InTx(c) /\ pc' = [pc EXCEPT ![c] = "idle"] /\ UNCHANGED locks
           /\ \E a : pending' = [pending EXCEPT ![c] = @ \cup {a}]
        \/ ~InTx(c) /\ pc' = [pc EXCEPT ![c] = "commit"] /\ pending' = pending /\ UNCHANGED locks
        \/ pc' = [pc EXCEPT ![c] = "idle"] /\ pending' = pending
           /\ IF InTx(c) THEN UNCHANGED locks ELSE Release(c)
    BY <1>4 DEF ResolveConflict, Finish, Goto
  <2>3. L(c)
    BY <2>1, <2>2 DEF LocksAreHeld, InTx, TypeOK, locks, Release
  <2>4. ASSUME NEW d \in Clients, d # c PROVE L(d)
    BY <2>1, <2>2, <2>4 DEF LocksAreHeld, InTx, TypeOK, locks, Release
  <2>5. writer' = NoClient => dirty' = db'
    BY <2>1, <2>2 DEF locks, Release
  <2> QED BY <2>3, <2>4, <2>5
<1>5. ASSUME NEW c \in Clients, Commit(c)
      PROVE  (writer' = NoClient => dirty' = db') /\ \A d \in Clients : L(d)
  <2>1. writer = c /\ ~InTx(c)
    BY <1>5 DEF Commit, LocksAreHeld
  <2> QED BY <1>5, <2>1 DEF Commit, Goto, Release, LocksAreHeld, InTx, TypeOK
<1>6. ASSUME NEW c \in Clients, Busy(c)
      PROVE  (writer' = NoClient => dirty' = db') /\ \A d \in Clients : L(d)
  BY <1>6 DEF Busy, Goto, Release, locks, LocksAreHeld, InTx, TypeOK
<1>7. ASSUME NEW c \in Clients, BeginTx(c)
      PROVE  (writer' = NoClient => dirty' = db') /\ \A d \in Clients : L(d)
  BY <1>7, BoundsAssumption DEF BeginTx, locks, LocksAreHeld, InTx, TypeOK
<1>8. ASSUME NEW c \in Clients, EndTx(c)
      PROVE  (writer' = NoClient => dirty' = db') /\ \A d \in Clients : L(d)
  <2>1. pc[c] = "idle" /\ depth' = [depth EXCEPT ![c] = @ - 1] /\ pc' = pc /\ depth[c] \in Nat /\ depth[c] > 0
    BY <1>8, BoundsAssumption DEF EndTx, InTx, TypeOK
  <2>2. CASE depth[c] > 1 /\ UNCHANGED <<db, locks, pending, acked>>
    <3>1. InTx(c)'
      BY <2>1, <2>2 DEF InTx, TypeOK
    <3>2. \A d \in Clients : d # c => InTx(d)' = InTx(d)
      BY <2>1 DEF InTx, TypeOK
    <3> QED BY <2>1, <2>2, <3>1, <3>2 DEF locks, LocksAreHeld
  <2>3. CASE depth[c] = 1 /\ Release(c) /\ pending' = [pending EXCEPT ![c] = {}]
             /\ db' = IF writer = c THEN dirty ELSE db
    <3>1. \A d \in Clients : d # c => InTx(d)' = InTx(d)
      BY <2>1 DEF InTx, TypeOK
    <3>2. pending'[c] = {} /\ \A d \in Clients : d # c => pending'[d] = pending[d]
      BY <2>3 DEF TypeOK
    <3>3. /\ dirty' = IF writer = c THEN db' ELSE dirty
          /\ writer' = IF writer = c THEN NoClient ELSE writer
          /\ readers' = readers \ {c}
      BY <2>3 DEF Release
    <3>4. L(c)
      BY <2>1, <3>2, <3>3
    <3>5. ASSUME NEW d \in Clients, d # c PROVE L(d)
      BY <2>1, <2>3, <3>1, <3>2, <3>3, <3>5 DEF LocksAreHeld
    <3>6. writer' = NoClient => dirty' = db'
      BY <2>3, <3>3 DEF LocksAreHeld
    <3> QED BY <3>4, <3>5, <3>6
  <2> QED BY <1>8, <2>2, <2>3 DEF EndTx
<1>9. ASSUME NEW c \in Clients, RaiseTx(c) \/ Crash(c)
      PROVE  (writer' = NoClient => dirty' = db') /\ \A d \in Clients : L(d)
  <2>1. /\ Release(c) /\ db' = db /\ pending' = [pending EXCEPT ![c] = {}]
        /\ depth' = [depth EXCEPT ![c] = 0] /\ pc' = [pc EXCEPT ![c] = "idle"]
    <3>1. CASE RaiseTx(c)
      BY <3>1 DEF RaiseTx, TypeOK
    <3>2. CASE Crash(c)
      BY <3>2 DEF Crash, Goto
    <3> QED BY <1>9, <3>1, <3>2
  <2> QED BY <2>1 DEF Release, LocksAreHeld, InTx, TypeOK
<1>10. ASSUME UNCHANGED vars
      PROVE  (writer' = NoClient => dirty' = db') /\ \A d \in Clients : L(d)
  BY <1>10 DEF vars, locks, LocksAreHeld, InTx
<1> HIDE DEF L
<1> QED BY <1>1, <1>2, <1>3, <1>4, <1>5, <1>6, <1>7, <1>8, <1>9, <1>10 DEF Next, Proceed

----------------------------------------------------------------------------
(* Progress of a call                                                      *)

StepOf(c) ==
  (\E x \in Items : Call(c, x)) \/ Proceed(c) \/ BeginTx(c) \/ EndTx(c) \/ RaiseTx(c) \/ Crash(c)

\* What the step of one process leaves to another: its call, its answers, its
\* locks, and what it reads as long as it holds one.
LEMMA OthersStay ==
  ASSUME TypeOK, LocksAreHeld, NEW c \in Clients, NEW d \in Clients, c # d, StepOf(c)
  PROVE  /\ pc'[d] = pc[d] /\ item'[d] = item[d] /\ depth'[d] = depth[d] /\ pending'[d] = pending[d]
         /\ d \in readers' <=> d \in readers
         /\ writer' = d <=> writer = d
         /\ writer = d => dirty' = dirty
         /\ d \in readers \/ writer = d => View(d)' = View(d)
<1> USE ClientsAssumption
<1> DEFINE Kept ==
             /\ pc'[d] = pc[d] /\ item'[d] = item[d] /\ depth'[d] = depth[d] /\ pending'[d] = pending[d]
             /\ d \in readers' <=> d \in readers
             /\ writer' = d <=> writer = d
             /\ writer = d => dirty' = dirty
             /\ d \in readers /\ writer # d => db' = db
<1>1. ASSUME NEW x \in Items, Call(c, x) PROVE Kept
  BY <1>1 DEF Call, Goto, locks, TypeOK
<1>2. ASSUME Select(c) PROVE Kept
  BY <1>2 DEF Select, Goto, TypeOK
<1>3. ASSUME Insert(c) PROVE Kept
  BY <1>3 DEF Insert, Finish, Goto, TypeOK
<1>4. ASSUME ResolveConflict(c) PROVE Kept
  <2>1. pc' = [pc EXCEPT ![c] = "idle"] \/ pc' = [pc EXCEPT ![c] = "commit"]
    BY <1>4 DEF ResolveConflict, Finish, Goto
  <2>2. pending' = pending \/ \E a : pending' = [pending EXCEPT ![c] = @ \cup {a}]
    BY <1>4 DEF ResolveConflict, Finish
  <2>3. UNCHANGED <<db, item, depth>> /\ (UNCHANGED locks \/ Release(c))
    BY <1>4 DEF ResolveConflict
  <2> QED BY <2>1, <2>2, <2>3 DEF locks, Release, TypeOK
<1>5. ASSUME Commit(c) PROVE Kept
  <2>1. writer = c
    BY <1>5 DEF Commit, LocksAreHeld
  <2>2. db' = dirty /\ (dirty # db => readers \subseteq {c})
    BY <1>5, <2>1 DEF Commit, MayCommit
  <2>3. d \in readers => db' = db
    BY <2>2
  <2> QED BY <1>5, <2>1, <2>3 DEF Commit, Goto, Release, TypeOK
<1>6. ASSUME Busy(c) PROVE Kept
  BY <1>6 DEF Busy, Goto, Release, locks, TypeOK
<1>7. ASSUME BeginTx(c) PROVE Kept
  BY <1>7 DEF BeginTx, locks, TypeOK
<1>8. ASSUME EndTx(c) PROVE Kept
  <2>1. UNCHANGED <<pc, item>> /\ depth' = [depth EXCEPT ![c] = @ - 1]
    BY <1>8 DEF EndTx
  <2>2. CASE UNCHANGED <<db, locks, pending, acked>>
    BY <2>1, <2>2 DEF locks, TypeOK
  <2>3. CASE /\ MayCommit(c) /\ db' = IF writer = c THEN dirty ELSE db
             /\ pending' = [pending EXCEPT ![c] = {}] /\ Release(c)
    <3>1. d \in readers => db' = db
      BY <2>3 DEF MayCommit
    <3> QED BY <2>1, <2>3, <3>1 DEF Release, TypeOK
  <2> QED BY <1>8, <2>2, <2>3 DEF EndTx
<1>9. ASSUME RaiseTx(c) \/ Crash(c) PROVE Kept
  BY <1>9 DEF RaiseTx, Crash, Goto, Release, TypeOK
<1>10. Kept
  <2> HIDE DEF Kept
  <2> QED BY <1>1, <1>2, <1>3, <1>4, <1>5, <1>6, <1>7, <1>8, <1>9 DEF StepOf, Proceed
<1> QED BY <1>10 DEF View

\* What a call knows stays true until it uses it.
LEMMA NextKeepsProgress ==
  ASSUME TypeOK, RowsAreKept, LocksAreHeld, ProgressIsKept, [Next]_vars
  PROVE  ProgressIsKept'
<1> DEFINE P(d) ==
             /\ pc'[d] = "insert" /\ InTx(d)' /\ item'[d].table # "evidence" =>
                  /\ d \in readers'
                  /\ Lookup(View(d)', item'[d].table, item'[d].id) \in {NoBody, item'[d].body}
             /\ pc'[d] = "commit" =>
                  /\ Has(dirty', item'[d].table, item'[d].id)
                  /\ item'[d].table = "evidence" =>
                       Lookup(dirty', item'[d].table, item'[d].id) = item'[d].body
<1>0. SUFFICES \A d \in Clients : P(d)
  BY DEF ProgressIsKept, Lookup, Has, Position
<1>1. ASSUME NEW c \in Clients, NEW d \in Clients, c # d, StepOf(c) PROVE P(d)
  <2>1. /\ pc'[d] = pc[d] /\ item'[d] = item[d] /\ depth'[d] = depth[d]
        /\ d \in readers' <=> d \in readers
        /\ writer = d => dirty' = dirty
        /\ d \in readers \/ writer = d => View(d)' = View(d)
    BY <1>1, OthersStay
  <2>2. InTx(d)' = InTx(d)
    BY <2>1 DEF InTx
  <2>3. CASE pc[d] = "insert" /\ InTx(d) /\ item[d].table # "evidence"
    BY <2>1, <2>2, <2>3 DEF ProgressIsKept
  <2>4. CASE pc[d] = "commit"
    BY <2>1, <2>4 DEF ProgressIsKept, LocksAreHeld
  <2>5. CASE ~(pc[d] = "insert" /\ InTx(d) /\ item[d].table # "evidence") /\ pc[d] # "commit"
    BY <2>1, <2>2, <2>5
  <2> QED BY <2>3, <2>4, <2>5
<1>2. ASSUME NEW c \in Clients, StepOf(c) PROVE P(c)
  <2>1. ASSUME NEW x \in Items, Call(c, x) PROVE P(c)
    BY <2>1 DEF Call, Goto, TypeOK
  <2>2. ASSUME Select(c) PROVE P(c)
    <3>1. /\ UNCHANGED <<item, depth, db, dirty, writer>>
          /\ pc'[c] \in {"insert", "idle"}
          /\ pc'[c] = "insert" => Lookup(View(c), item[c].table, item[c].id) \in {NoBody, item[c].body}
          /\ InTx(c) => c \in readers'
      BY <2>2 DEF Select, Goto, TypeOK
    <3>2. InTx(c)' = InTx(c) /\ View(c)' = View(c)
      BY <3>1 DEF InTx, View
    <3> QED BY <3>1, <3>2
  <2>3. ASSUME Insert(c) PROVE P(c)
    <3>1. /\ item' = item
          /\ pc'[c] \in {"conflict", "idle", "commit"}
          /\ pc'[c] = "commit" /\ item[c].table = "evidence" => ~Has(View(c), item[c].table, item[c].id)
      BY <2>3 DEF Insert, Finish, Goto, TypeOK
    <3>2. /\ Has(dirty', item[c].table, item[c].id) /\ View(c) = dirty
          /\ ~Has(dirty, item[c].table, item[c].id) =>
               Lookup(dirty', item[c].table, item[c].id) = item[c].body
      BY <2>3, InsertFacts
    <3> QED BY <3>1, <3>2
  <2>4. ASSUME ResolveConflict(c) PROVE P(c)
    <3>1. item' = item /\ pc'[c] \in {"idle", "commit"} /\ pc[c] = "conflict"
      BY <2>4 DEF ResolveConflict, Finish, Goto, TypeOK
    <3>2. CASE pc'[c] = "commit"
      <4>1. /\ ~InTx(c) /\ UNCHANGED locks
            /\ Lookup(db, item[c].table, item[c].id) = item[c].body
        BY <2>4, <3>2 DEF ResolveConflict, Finish, Goto, TypeOK
      <4>2. dirty' = db
        BY <3>1, <4>1 DEF LocksAreHeld, locks
      <4>3. item[c].body # NoBody
        BY ItemsAssumption DEF TypeOK
      <4> QED BY <3>1, <3>2, <4>1, <4>2, <4>3, FoundIsThere
    <3> QED BY <3>1, <3>2
  <2>5. ASSUME pc'[c] = "idle" PROVE P(c)
    BY <2>5
  <2>6. Commit(c) \/ Busy(c) \/ BeginTx(c) \/ EndTx(c) \/ RaiseTx(c) \/ Crash(c) => pc'[c] = "idle"
    BY DEF Commit, Busy, BeginTx, EndTx, RaiseTx, Crash, Goto, TypeOK
  <2> HIDE DEF P
  <2> QED BY <1>2, <2>1, <2>2, <2>3, <2>4, <2>5, <2>6 DEF StepOf, Proceed
<1>3. ASSUME NEW d \in Clients, UNCHANGED vars PROVE P(d)
  <2>1. InTx(d)' = InTx(d) /\ View(d)' = View(d)
    BY <1>3 DEF vars, locks, InTx, View
  <2> QED BY <1>3, <2>1 DEF vars, locks, ProgressIsKept
<1>4. Next => \E c \in Clients : StepOf(c)
  BY DEF Next, StepOf
<1> HIDE DEF P
<1> QED BY <1>1, <1>2, <1>3, <1>4

----------------------------------------------------------------------------
(* Types                                                                   *)

\* Committed rows are no more than those the writer sees.
LEMMA DirtyIsLonger ==
  ASSUME TypeOK, RowsAreKept, NEW t \in Tables
  PROVE  Len(db[t]) \in Nat /\ Len(dirty[t]) \in Nat /\ Len(db[t]) <= Len(dirty[t])
<1>1. /\ Len(db[t]) \in Nat /\ DOMAIN db[t] = 1..Len(db[t])
      /\ Len(dirty[t]) \in Nat /\ DOMAIN dirty[t] = 1..Len(dirty[t])
  BY TableType DEF TypeOK
<1>2. \A i \in 1..Len(db[t]) : i \in 1..Len(dirty[t])
  BY <1>1 DEF RowsAreKept, Grows
<1> QED BY <1>1, <1>2

\* No step makes a row without a call.
LEMMA NextKeepsCount ==
  ASSUME TypeOK, RowsAreKept, LocksAreHeld, RowsAreCounted, [Next]_vars
  PROVE  RowsAreCounted'
<1>1. /\ IsFiniteSet(BeforeInsert) /\ Cardinality(BeforeInsert) \in Nat /\ calls \in Nat
      /\ \A t \in Tables : /\ Len(db[t]) \in Nat /\ Len(dirty[t]) \in Nat
                           /\ Len(db[t]) <= Len(dirty[t])
                           /\ Len(dirty[t]) + Cardinality(BeforeInsert) <= calls
  BY FS_CardinalityType, DirtyIsLonger DEF RowsAreCounted, TypeOK
<1>2. ASSUME NEW c \in Clients, NEW x \in Items, Call(c, x) PROVE RowsAreCounted'
  <2>1. BeforeInsert' = BeforeInsert \cup {c} /\ c \notin BeforeInsert
    BY <1>2 DEF Call, Goto, BeforeInsert, TypeOK
  <2>2. IsFiniteSet(BeforeInsert') /\ Cardinality(BeforeInsert') = Cardinality(BeforeInsert) + 1
    BY <1>1, <2>1, FS_AddElement
  <2>3. calls' = calls + 1 /\ dirty' = dirty
    BY <1>2 DEF Call, locks
  <2> QED BY <1>1, <2>2, <2>3 DEF RowsAreCounted
<1>3. ASSUME NEW c \in Clients, Insert(c) PROVE RowsAreCounted'
  <2>1. BeforeInsert' = BeforeInsert \ {c} /\ c \in BeforeInsert
    BY <1>3 DEF Insert, Finish, Goto, BeforeInsert, TypeOK
  <2>2. IsFiniteSet(BeforeInsert') /\ Cardinality(BeforeInsert') = Cardinality(BeforeInsert) - 1
    BY <1>1, <2>1, FS_RemoveElement
  <2>3. calls' = calls
    BY <1>3 DEF Insert
  <2>4. \A t \in Tables : Len(dirty'[t]) \in Nat /\ Len(dirty'[t]) <= Len(dirty[t]) + 1
    <3>1. dirty' = dirty \/ (/\ dirty' = WithRow(dirty, item[c])
                             /\ ~Has(dirty, item[c].table, item[c].id) /\ item[c] \in Items)
      BY <1>3, InsertFacts
    <3>2. IsTables(dirty) /\ UniqueRows(dirty)
      BY DEF TypeOK, RowsAreKept
    <3> QED BY <1>1, <3>1, <3>2, RowIsAdded, SMTT(30)
  <2> QED BY <1>1, <2>2, <2>3, <2>4 DEF RowsAreCounted
<1>4. ASSUME BeforeInsert' \subseteq BeforeInsert, calls' = calls, dirty' \in {db, dirty}
      PROVE  RowsAreCounted'
  <2>1. IsFiniteSet(BeforeInsert') /\ Cardinality(BeforeInsert') \in Nat
        /\ Cardinality(BeforeInsert') <= Cardinality(BeforeInsert)
    BY <1>1, <1>4, FS_Subset, FS_CardinalityType
  <2> QED BY <1>1, <1>4, <2>1 DEF RowsAreCounted
<1>5. ASSUME NEW c \in Clients,
             Select(c) \/ ResolveConflict(c) \/ Commit(c) \/ Busy(c) \/ BeginTx(c) \/ EndTx(c)
               \/ RaiseTx(c) \/ Crash(c)
      PROVE  BeforeInsert' \subseteq BeforeInsert /\ calls' = calls /\ dirty' \in {db, dirty}
  <2>1. calls' = calls
    BY <1>5 DEF Select, ResolveConflict, Commit, Busy, BeginTx, EndTx, RaiseTx, Crash
  <2>2. BeforeInsert' \subseteq BeforeInsert
    BY <1>5 DEF Select, ResolveConflict, Finish, Commit, Busy, BeginTx, EndTx, RaiseTx, Crash,
                Goto, BeforeInsert, TypeOK
  <2>3. dirty' \in {db, dirty}
    <3>1. ASSUME Release(c), db' = db PROVE dirty' \in {db, dirty}
      BY <3>1 DEF Release
    <3>2. ASSUME Commit(c) PROVE dirty' \in {db, dirty}
      BY <3>2 DEF Commit, Release
    <3>3. ASSUME EndTx(c) PROVE dirty' \in {db, dirty}
      BY <3>3 DEF EndTx, Release, locks
    <3>4. ASSUME ResolveConflict(c) PROVE dirty' \in {db, dirty}
      BY <3>1, <3>4 DEF ResolveConflict, locks
    <3> QED BY <1>5, <3>1, <3>2, <3>3, <3>4 DEF Select, Busy, BeginTx, RaiseTx, Crash, locks
  <2> QED BY <2>1, <2>2, <2>3
<1>6. CASE UNCHANGED vars
  BY <1>4, <1>6 DEF vars, locks, BeforeInsert
<1> QED BY <1>2, <1>3, <1>4, <1>5, <1>6 DEF Next, Proceed

\* The answer to an append whose row is there has its place among the rows.
LEMMA AnswerType ==
  ASSUME NEW c \in Clients, NEW f, IsTables(f), UniqueRows(f), item[c] \in Items,
         Has(f, item[c].table, item[c].id), Len(f[item[c].table]) <= MaxCalls
  PROVE  /\ AnswerOf(c, f) \in Answers
         /\ AnswerOf(c, f).table = item[c].table /\ AnswerOf(c, f).id = item[c].id
         /\ AnswerOf(c, f).body = item[c].body /\ AnswerOf(c, f).tx = InTx(c)
         /\ AnswerOf(c, f).seq \in {0, Position(f, item[c].table, item[c].id)}
<1> DEFINE x == item[c]
           n == IF x.table = "evidence" THEN Position(f, x.table, x.id) ELSE 0
<1>1. x.table \in Tables
  BY ItemsAssumption
<1>2. Position(f, x.table, x.id) \in 1..Len(f[x.table]) /\ Len(f[x.table]) \in Nat
  BY <1>1, HasRow, TableType
<1>3. n \in 0..MaxCalls
  BY <1>2, BoundsAssumption
<1>4. AnswerOf(c, f) = [table |-> x.table, id |-> x.id, body |-> x.body, seq |-> n, tx |-> InTx(c)]
  BY DEF AnswerOf
<1>5. InTx(c) \in BOOLEAN
  BY DEF InTx
<1>6. AnswerOf(c, f) \in Answers
  <2> HIDE DEF n
  <2> QED BY <1>3, <1>4, <1>5 DEF Answers
<1> QED BY <1>4, <1>6

\* Where an answer is given, and that its row is there then, with its body.
LEMMA AnswerIsThere ==
  ASSUME TypeOK, RowsAreKept, LocksAreHeld, ProgressIsKept, [Next]_vars, NEW c \in Clients
  PROVE  /\ Insert(c) /\ pc'[c] = "idle" =>
              /\ Has(dirty', item[c].table, item[c].id)
              /\ Lookup(dirty', item[c].table, item[c].id) = item[c].body
              /\ pending' = [pending EXCEPT ![c] = @ \cup {AnswerOf(c, dirty')}]
         /\ ResolveConflict(c) /\ InTx(c) /\ pending' # pending =>
              /\ Has(dirty, item[c].table, item[c].id)
              /\ Lookup(dirty, item[c].table, item[c].id) = item[c].body
              /\ pending' = [pending EXCEPT ![c] = @ \cup {AnswerOf(c, dirty)}]
              /\ dirty' = dirty
<1>1. item[c] \in Items /\ item[c].body # NoBody
  BY ItemsAssumption DEF TypeOK
<1>2. ASSUME Insert(c), pc'[c] = "idle"
      PROVE  /\ Has(dirty', item[c].table, item[c].id)
             /\ Lookup(dirty', item[c].table, item[c].id) = item[c].body
             /\ pending' = [pending EXCEPT ![c] = @ \cup {AnswerOf(c, dirty')}]
  <2>1. /\ Has(dirty', item[c].table, item[c].id) /\ View(c) = dirty
        /\ ~Has(dirty, item[c].table, item[c].id) =>
             Lookup(dirty', item[c].table, item[c].id) = item[c].body
        /\ Has(dirty, item[c].table, item[c].id) => dirty' = dirty
        /\ IsTables(dirty') /\ item[c].table \in Tables
    BY <1>2, InsertFacts
  <2>2. /\ InTx(c) /\ pc[c] = "insert"
        /\ Has(dirty, item[c].table, item[c].id) => item[c].table # "evidence"
        /\ pending' = [pending EXCEPT ![c] = @ \cup {AnswerOf(c, dirty')}]
    BY <1>2, <2>1 DEF Insert, Finish, Goto, TypeOK
  <2>3. CASE Has(dirty, item[c].table, item[c].id)
    <3>1. Lookup(dirty, item[c].table, item[c].id) \in {NoBody, item[c].body}
      BY <2>1, <2>2, <2>3 DEF ProgressIsKept
    <3>2. Lookup(dirty, item[c].table, item[c].id) # NoBody
      BY <2>1, <2>3, HasRow
    <3> QED BY <2>1, <2>2, <2>3, <3>1, <3>2
  <2> QED BY <2>1, <2>2, <2>3
<1>3. ASSUME ResolveConflict(c), InTx(c), pending' # pending
      PROVE  /\ Has(dirty, item[c].table, item[c].id)
             /\ Lookup(dirty, item[c].table, item[c].id) = item[c].body
             /\ pending' = [pending EXCEPT ![c] = @ \cup {AnswerOf(c, dirty)}]
             /\ dirty' = dirty
  <2>1. /\ Lookup(dirty, item[c].table, item[c].id) = item[c].body
        /\ pending' = [pending EXCEPT ![c] = @ \cup {AnswerOf(c, dirty)}]
        /\ dirty' = dirty
    BY <1>3 DEF ResolveConflict, Finish, locks
  <2> QED BY <1>1, <2>1, FoundIsThere
<1> QED BY <1>2, <1>3

\* Every step keeps the types.
LEMMA NextKeepsTypes ==
  ASSUME TypeOK, RowsAreKept, LocksAreHeld, ProgressIsKept, RowsAreCounted, [Next]_vars
  PROVE  TypeOK'
<1>1. IsTables(db)' /\ IsTables(dirty)' /\ IsTables(dirty') /\ UniqueRows(dirty')
  BY NextKeepsRows DEF RowsAreKept, UniqueRows, IsTables
<1>2. /\ writer' \in Clients \cup {NoClient} /\ readers' \subseteq Clients
      /\ item' \in [Clients -> Items] /\ depth' \in [Clients -> 0..MaxDepth] /\ calls' \in 0..MaxCalls
  <2> DEFINE T == /\ writer' \in Clients \cup {NoClient} /\ readers' \subseteq Clients
                  /\ item' \in [Clients -> Items] /\ depth' \in [Clients -> 0..MaxDepth]
                  /\ calls' \in 0..MaxCalls
  <2> USE BoundsAssumption
  <2>1. ASSUME NEW c \in Clients, NEW x \in Items, Call(c, x) PROVE T
    BY <2>1 DEF Call, locks, TypeOK
  <2>2. ASSUME NEW c \in Clients, Select(c) \/ Insert(c) \/ Commit(c) PROVE T
    BY <2>2 DEF Select, Insert, Commit, Release, TypeOK
  <2>3. ASSUME NEW c \in Clients, ResolveConflict(c) \/ Busy(c) PROVE T
    BY <2>3 DEF ResolveConflict, Busy, Release, locks, TypeOK
  <2>4. ASSUME NEW c \in Clients, BeginTx(c) PROVE T
    BY <2>4 DEF BeginTx, locks, TypeOK
  <2>5. ASSUME NEW c \in Clients, EndTx(c) PROVE T
    BY <2>5 DEF EndTx, InTx, Release, locks, TypeOK
  <2>6. ASSUME NEW c \in Clients, RaiseTx(c) \/ Crash(c) PROVE T
    BY <2>6 DEF RaiseTx, Crash, Release, TypeOK
  <2>7. ASSUME UNCHANGED vars PROVE T
    BY <2>7 DEF vars, locks, TypeOK
  <2> HIDE DEF T
  <2>8. T
    BY <2>1, <2>2, <2>3, <2>4, <2>5, <2>6, <2>7 DEF Next, Proceed
  <2> QED BY <2>8 DEF T
<1>3. pc' \in [Clients -> Steps]
  BY DEF Next, Proceed, Call, Select, Insert, ResolveConflict, Finish, Commit, Busy, BeginTx, EndTx,
         RaiseTx, Crash, Goto, Steps, vars, TypeOK
<1>4. \A t \in Tables : Len(dirty[t]) <= MaxCalls /\ Len(dirty'[t]) <= MaxCalls
  <2>1. RowsAreCounted'
    BY NextKeepsCount
  <2>2. Cardinality(BeforeInsert) \in Nat /\ Cardinality(BeforeInsert') \in Nat
    BY <2>1, FS_CardinalityType DEF RowsAreCounted
  <2>3. \A t \in Tables : Len(dirty[t]) \in Nat /\ Len(dirty'[t]) \in Nat
    BY <1>1, TableType DEF TypeOK
  <2> QED BY <1>2, <2>1, <2>2, <2>3, BoundsAssumption DEF RowsAreCounted, TypeOK
<1>5. pending' \in [Clients -> SUBSET Answers]
  <2>1. ASSUME NEW c \in Clients, Insert(c) PROVE pending' \in [Clients -> SUBSET Answers]
    <3>1. CASE pc'[c] = "idle"
      <4>1. pending' = [pending EXCEPT ![c] = @ \cup {AnswerOf(c, dirty')}]
            /\ Has(dirty', item[c].table, item[c].id)
        BY <2>1, <3>1, AnswerIsThere
      <4>2. item[c] \in Items /\ Len(dirty'[item[c].table]) <= MaxCalls
        BY <1>4, ItemsAssumption DEF TypeOK
      <4>3. AnswerOf(c, dirty') \in Answers
        BY <1>1, <4>1, <4>2, AnswerType
      <4> QED BY <4>1, <4>3 DEF TypeOK
    <3>2. CASE pc'[c] # "idle"
      BY <2>1, <3>2 DEF Insert, Finish, Goto, TypeOK
    <3> QED BY <3>1, <3>2
  <2>2. ASSUME NEW c \in Clients, ResolveConflict(c) PROVE pending' \in [Clients -> SUBSET Answers]
    <3>1. CASE InTx(c) /\ pending' # pending
      <4>1. pending' = [pending EXCEPT ![c] = @ \cup {AnswerOf(c, dirty)}]
            /\ Has(dirty, item[c].table, item[c].id)
        BY <2>2, <3>1, AnswerIsThere
      <4>2. item[c] \in Items /\ Len(dirty[item[c].table]) <= MaxCalls
        BY <1>4, ItemsAssumption DEF TypeOK
      <4>3. AnswerOf(c, dirty) \in Answers
        BY <4>1, <4>2, AnswerType DEF TypeOK, RowsAreKept
      <4> QED BY <4>1, <4>3 DEF TypeOK
    <3>2. CASE ~InTx(c)
      BY <2>2, <3>2 DEF ResolveConflict, Finish, TypeOK
    <3> QED BY <3>1, <3>2 DEF TypeOK
  <2>3. ASSUME pending' = pending \/ \E c \in Clients : pending' = [pending EXCEPT ![c] = {}]
        PROVE  pending' \in [Clients -> SUBSET Answers]
    BY <2>3 DEF TypeOK
  <2> QED BY <2>1, <2>2, <2>3 DEF Next, Proceed, Call, Select, Commit, Busy, BeginTx, EndTx, RaiseTx,
                                  Crash, vars
<1>6. acked' \subseteq Answers
  <2>1. ASSUME NEW c \in Clients, Commit(c) PROVE acked' \subseteq Answers
    <3>1. Has(dirty, item[c].table, item[c].id) /\ acked' = acked \cup {AnswerOf(c, dirty)}
      BY <2>1 DEF Commit, ProgressIsKept
    <3>2. item[c] \in Items /\ Len(dirty[item[c].table]) <= MaxCalls
      BY <1>4, ItemsAssumption DEF TypeOK
    <3>3. AnswerOf(c, dirty) \in Answers
      BY <3>1, <3>2, AnswerType DEF TypeOK, RowsAreKept
    <3> QED BY <3>1, <3>3 DEF TypeOK
  <2>2. ASSUME acked' = acked \/ \E c \in Clients : acked' = acked \cup pending[c]
        PROVE  acked' \subseteq Answers
    BY <2>2 DEF TypeOK
  <2> QED BY <2>1, <2>2 DEF Next, Proceed, Call, Select, Insert, ResolveConflict, Busy, BeginTx, EndTx,
                            RaiseTx, Crash, vars
<1> QED BY <1>1, <1>2, <1>3, <1>5, <1>6 DEF TypeOK, Answers

----------------------------------------------------------------------------
(* Answers                                                                 *)

\* The rows of f are what the answer a said.
HeldIn(f, a) == Lookup(f, a.table, a.id) = a.body /\ a.seq \in {0, Position(f, a.table, a.id)}

\* Callers put one content under this id.
NeverReused(t, id) ==
  \A x, y \in Items : x.table = t /\ y.table = t /\ x.id = id /\ y.id = id => x.body = y.body

\* More than AcceptedIsStored: an id that is never reused needs no lock.
AnswersAreStored ==
  \A a \in acked : a.table = "evidence" \/ a.tx \/ NeverReused(a.table, a.id) => Stored(a)

\* What a table holds, a longer table holds.
LEMMA HeldStays ==
  ASSUME NEW f, NEW g, IsTables(f), UniqueRows(g), Grows(f, g), NEW a \in Answers, HeldIn(f, a)
  PROVE  HeldIn(g, a)
<1>1. a.table \in Tables /\ a.body # NoBody
  BY ItemsAssumption DEF Answers
<1>2. Has(f, a.table, a.id)
  BY <1>1, FoundIsThere DEF HeldIn
<1> QED BY <1>1, <1>2, GrownTable DEF HeldIn

\* An id that is never reused has the body its callers gave it.
LEMMA NeverReusedBody ==
  ASSUME NEW f, IsTables(f), NEW x \in Items, NeverReused(x.table, x.id), Has(f, x.table, x.id)
  PROVE  Lookup(f, x.table, x.id) = x.body
<1> DEFINE i == Position(f, x.table, x.id)
<1>1. x.table \in Tables
  BY ItemsAssumption
<1>2. i \in DOMAIN f[x.table] /\ f[x.table][i].id = x.id /\ Lookup(f, x.table, x.id) = f[x.table][i].body
  BY <1>1, HasRow
<1>3. f[x.table][i] \in RowsOf(x.table)
  BY <1>1, <1>2, TableType
<1>4. PICK y \in Items : y.table = x.table /\ f[x.table][i] = [id |-> y.id, body |-> y.body]
  BY <1>3 DEF RowsOf
<1>5. y.id = x.id /\ Lookup(f, x.table, x.id) = y.body
  BY <1>2, <1>4
<1> QED BY <1>4, <1>5 DEF NeverReused

\* A transaction goes on reading what it was told.
LEMMA NextKeepsPending ==
  ASSUME TypeOK, RowsAreKept, LocksAreHeld, ProgressIsKept, RowsAreCounted,
         TransactionReadsOwnAnswers, [Next]_vars
  PROVE  TransactionReadsOwnAnswers'
<1> DEFINE R(d) == \A a \in pending'[d] : HeldIn(View(d)', a)
<1>0. SUFFICES \A d \in Clients : R(d)
  BY DEF TransactionReadsOwnAnswers, HeldIn, Lookup, Has, Position
<1>1. \A d \in Clients : \A a \in pending[d] : HeldIn(View(d), a) /\ a \in Answers /\ writer = d /\ View(d) = dirty
  BY DEF TransactionReadsOwnAnswers, HeldIn, LocksAreHeld, View, TypeOK
<1>2. ASSUME NEW d \in Clients, pending'[d] \subseteq pending[d], pending[d] # {} => View(d)' = View(d)
      PROVE  R(d)
  BY <1>1, <1>2
<1>3. ASSUME NEW c \in Clients, NEW d \in Clients, c # d, StepOf(c) PROVE R(d)
  BY <1>1, <1>2, <1>3, OthersStay
<1>4. ASSUME NEW c \in Clients, StepOf(c) PROVE R(c)
  <2>1. ASSUME Insert(c) PROVE R(c)
    <3>1. /\ View(c)' = dirty' /\ IsTables(dirty) /\ UniqueRows(dirty') /\ Grows(dirty, dirty')
          /\ IsTables(dirty') /\ item[c] \in Items /\ item[c].table \in Tables
      BY <2>1, InsertFacts DEF View, TypeOK
    <3>2. \A a \in pending[c] : HeldIn(dirty', a)
      BY <1>1, <3>1, HeldStays
    <3>3. CASE pc'[c] = "idle"
      <4>1. /\ Has(dirty', item[c].table, item[c].id)
            /\ Lookup(dirty', item[c].table, item[c].id) = item[c].body
            /\ pending' = [pending EXCEPT ![c] = @ \cup {AnswerOf(c, dirty')}]
        BY <2>1, <3>3, AnswerIsThere
      <4>2. HeldIn(dirty', AnswerOf(c, dirty'))
        BY <4>1 DEF HeldIn, AnswerOf
      <4> QED BY <3>1, <3>2, <4>1, <4>2 DEF TypeOK
    <3>4. CASE pc'[c] # "idle"
      <4>1. pending' = pending
        BY <2>1, <3>4 DEF Insert, Finish, Goto, TypeOK
      <4> QED BY <3>1, <3>2, <4>1
    <3> QED BY <3>3, <3>4
  <2>2. ASSUME ResolveConflict(c) PROVE R(c)
    <3>1. CASE InTx(c) /\ pending' # pending
      <4>1. /\ Lookup(dirty, item[c].table, item[c].id) = item[c].body
            /\ pending' = [pending EXCEPT ![c] = @ \cup {AnswerOf(c, dirty)}]
        BY <2>2, <3>1, AnswerIsThere
      <4>2. HeldIn(dirty, AnswerOf(c, dirty))
        BY <4>1 DEF HeldIn, AnswerOf
      <4>3. writer = c /\ UNCHANGED locks
        BY <2>2, <3>1 DEF ResolveConflict, LocksAreHeld
      <4>4. View(c)' = dirty
        BY <4>3 DEF View, locks
      <4> QED BY <1>1, <4>1, <4>2, <4>4 DEF TypeOK
    <3>2. CASE InTx(c) /\ pending' = pending
      BY <1>2, <2>2, <3>2 DEF ResolveConflict, View, locks
    <3>3. CASE ~InTx(c)
      <4>1. pending' = pending /\ pending[c] = {}
        BY <2>2, <3>3 DEF ResolveConflict, Finish, LocksAreHeld
      <4> QED BY <4>1
    <3> QED BY <3>1, <3>2, <3>3
  <2>3. ASSUME pending'[c] = {} PROVE R(c)
    BY <2>3
  <2>4. ASSUME NEW x \in Items, Call(c, x) PROVE R(c)
    BY <1>2, <2>4 DEF Call, View, locks
  <2>5. ASSUME Select(c) \/ BeginTx(c) PROVE R(c)
    BY <1>2, <2>5 DEF Select, BeginTx, View, locks
  <2>6. ASSUME Commit(c) PROVE R(c)
    BY <2>3, <2>6 DEF Commit, LocksAreHeld
  <2>7. ASSUME Busy(c) PROVE R(c)
    <3>1. InTx(c) => View(c)' = View(c)
      BY <2>7 DEF Busy, View, locks
    <3>2. pending' = pending /\ (pending[c] # {} => InTx(c))
      BY <2>7 DEF Busy, LocksAreHeld
    <3> QED BY <1>2, <3>1, <3>2
  <2>8. ASSUME EndTx(c) PROVE R(c)
    <3>1. \/ UNCHANGED <<db, locks, pending, acked>>
          \/ pending' = [pending EXCEPT ![c] = {}]
      BY <2>8 DEF EndTx
    <3>2. CASE UNCHANGED <<db, locks, pending, acked>>
      BY <1>2, <3>2 DEF View, locks
    <3>3. CASE pending' = [pending EXCEPT ![c] = {}]
      BY <2>3, <3>3 DEF TypeOK
    <3> QED BY <3>1, <3>2, <3>3
  <2>9. ASSUME RaiseTx(c) \/ Crash(c) PROVE R(c)
    BY <2>3, <2>9 DEF RaiseTx, Crash, TypeOK
  <2> HIDE DEF R
  <2> QED BY <1>4, <2>1, <2>2, <2>4, <2>5, <2>6, <2>7, <2>8, <2>9 DEF StepOf, Proceed
<1>5. ASSUME NEW d \in Clients, UNCHANGED vars PROVE R(d)
  BY <1>2, <1>5 DEF vars, locks, View
<1>6. Next => \E c \in Clients : StepOf(c)
  BY DEF Next, StepOf
<1> HIDE DEF R
<1> QED BY <1>3, <1>4, <1>5, <1>6

\* Answers that stand are those of rows that are committed with them, and stay.
LEMMA NextKeepsAnswers ==
  ASSUME TypeOK, RowsAreKept, LocksAreHeld, ProgressIsKept, AnswersAreStored,
         TransactionReadsOwnAnswers, [Next]_vars
  PROVE  AnswersAreStored'
<1> DEFINE Sound(a) == a.table = "evidence" \/ a.tx \/ NeverReused(a.table, a.id) => HeldIn(db', a)
<1>0. SUFFICES \A a \in acked' : Sound(a)
  BY DEF AnswersAreStored, Stored, HeldIn, Lookup, Has, Position
<1>1. ASSUME NEW a \in acked PROVE Sound(a)
  <2>1. a \in Answers /\ IsTables(db)
    BY DEF TypeOK
  <2>2. UniqueRows(db') /\ Grows(db, db')
    BY NextKeepsRows DEF RowsAreKept, UniqueRows
  <2>3. a.table = "evidence" \/ a.tx \/ NeverReused(a.table, a.id) => HeldIn(db, a)
    BY DEF AnswersAreStored, Stored, HeldIn
  <2> QED BY <2>1, <2>2, <2>3, HeldStays
<1>2. ASSUME NEW c \in Clients, Commit(c), NEW a \in acked' PROVE Sound(a)
  <2>1. /\ acked' = acked \cup {AnswerOf(c, dirty)} /\ db' = dirty
        /\ Has(dirty, item[c].table, item[c].id) /\ ~InTx(c)
        /\ item[c].table = "evidence" => Lookup(dirty, item[c].table, item[c].id) = item[c].body
        /\ item[c] \in Items /\ IsTables(dirty)
    BY <1>2 DEF Commit, ProgressIsKept, LocksAreHeld, TypeOK
  <2>2. CASE a = AnswerOf(c, dirty)
    <3>1. /\ a.table = item[c].table /\ a.id = item[c].id /\ a.body = item[c].body /\ ~a.tx
          /\ a.seq \in {0, Position(dirty, a.table, a.id)}
      BY <2>1, <2>2 DEF AnswerOf
    <3>2. NeverReused(a.table, a.id) => Lookup(dirty, item[c].table, item[c].id) = item[c].body
      BY <2>1, <3>1, NeverReusedBody
    <3> QED BY <2>1, <3>1, <3>2 DEF HeldIn
  <2> HIDE DEF Sound
  <2> QED BY <1>1, <2>1, <2>2
<1>3. ASSUME NEW c \in Clients, EndTx(c), NEW a \in acked' PROVE Sound(a)
  <2>1. CASE a \in acked
    BY <1>1, <2>1
  <2>2. CASE a \notin acked
    <3>1. a \in pending[c] /\ db' = IF writer = c THEN dirty ELSE db
      BY <1>3, <2>2 DEF EndTx
    <3>2. writer = c
      BY <3>1 DEF LocksAreHeld
    <3>3. HeldIn(View(c), a) /\ View(c) = db'
      BY <3>1, <3>2 DEF TransactionReadsOwnAnswers, HeldIn, View
    <3> QED BY <3>3
  <2> QED BY <2>1, <2>2
<1>4. ASSUME acked' = acked, NEW a \in acked' PROVE Sound(a)
  BY <1>1, <1>4
<1> HIDE DEF Sound
<1> QED BY <1>2, <1>3, <1>4 DEF Next, Proceed, Call, Select, Insert, ResolveConflict, Busy, BeginTx,
                                RaiseTx, Crash, vars

----------------------------------------------------------------------------
(* Theorems                                                                *)

IInv ==
  /\ TypeOK /\ RowsAreKept /\ LocksAreHeld /\ ProgressIsKept /\ RowsAreCounted
  /\ TransactionReadsOwnAnswers /\ AnswersAreStored

LEMMA InitInv == Init => IInv
<1> SUFFICES ASSUME Init PROVE IInv
  OBVIOUS
<1>1. IsTables(db) /\ dirty = db /\ \A t \in Tables : db[t] = <<>>
  BY EmptySeq DEF Init, IsTables
<1>2. TypeOK
  <2>1. item \in [Clients -> Items]
    BY ItemsAssumption DEF Init
  <2> QED BY <1>1, <2>1, BoundsAssumption DEF Init, TypeOK, Steps
<1>3. RowsAreKept
  BY <1>1 DEF RowsAreKept, UniqueRows, Grows
<1>4. RowsAreCounted
  <2>1. BeforeInsert = {}
    BY DEF Init, BeforeInsert
  <2> QED BY <1>1, <2>1, FS_EmptySet DEF RowsAreCounted, Init
<1> QED BY <1>2, <1>3, <1>4, ClientsAssumption
        DEF Init, IInv, LocksAreHeld, ProgressIsKept, TransactionReadsOwnAnswers, AnswersAreStored

LEMMA NextInv == IInv /\ [Next]_vars => IInv'
BY NextKeepsTypes, NextKeepsRows, NextKeepsLocks, NextKeepsProgress, NextKeepsCount, NextKeepsPending,
   NextKeepsAnswers DEF IInv

LEMMA SpecInv == Spec => []IInv
BY InitInv, NextInv, PTL DEF Spec

\* The state keeps its types; in particular the obs_seq of an answer is never
\* larger than the number of appends begun (append_evidence).
THEOREM TypeCorrectness == Spec => []TypeOK
<1>1. IInv => TypeOK
  BY DEF IInv
<1> QED BY <1>1, SpecInv, PTL

\* Evidence that was accepted, and whatever a committed transaction was told, is
\* stored with that content and number, for any number of processes that crash,
\* time out and run in any order (append_evidence, transaction).
THEOREM AcceptedStaysStored == Spec => []AcceptedIsStored
<1>1. IInv => AcceptedIsStored
  BY DEF IInv, AnswersAreStored, AcceptedIsStored
<1> QED BY <1>1, SpecInv, PTL

\* No commit of another process slips in between the statements of a transaction
\* that was told something is stored (transaction).
THEOREM TransactionIsolation == Spec => []TransactionReadsOwnAnswers
<1>1. IInv => TransactionReadsOwnAnswers
  BY DEF IInv
<1> QED BY <1>1, SpecInv, PTL

----------------------------------------------------------------------------
(* The write-once ledger                                                   *)

\* Compilation ids are made for one claim (compile_claim).
ClaimIdsAreFresh ==
  \A x, y \in Items : x.table = "claims" /\ y.table = "claims" /\ x.id = y.id => x.body = y.body

\* The abstract store that the tables implement.
StoreTables == [t \in {"evidence", "claims"} |-> db[t]]
StoreAnswers ==
  {[table |-> a.table, id |-> a.id, body |-> a.body, seq |-> a.seq] :
     a \in {b \in acked : b.table \in {"evidence", "claims"}}}

\* Rows are added at the end of the tables, under fresh ids.
LEMMA StepExtends ==
  ASSUME TypeOK, RowsAreKept, LocksAreHeld, [Next]_vars
  PROVE  Contract!Extend
<1>1. IsTables(db) /\ IsTables(db') /\ UniqueRows(db') /\ Grows(db, db')
  BY NextKeepsRows DEF TypeOK, RowsAreKept, IsTables, UniqueRows
<1>2. ASSUME NEW t \in {"evidence", "claims"}
      PROVE  Contract!IsPrefix(db[t], db'[t]) /\ Contract!UniqueIds(db'[t])
  <2>1. t \in Tables
    BY DEF Tables
  <2>2. /\ db[t] \in Seq(RowsOf(t)) /\ Len(db[t]) \in Nat /\ DOMAIN db[t] = 1..Len(db[t])
        /\ db'[t] \in Seq(RowsOf(t)) /\ Len(db'[t]) \in Nat /\ DOMAIN db'[t] = 1..Len(db'[t])
    BY <1>1, <2>1, TableType
  <2>3. \A i \in 1..Len(db[t]) : i \in 1..Len(db'[t]) /\ db'[t][i] = db[t][i]
    BY <1>1, <2>1, <2>2 DEF Grows
  <2>4. Len(db[t]) <= Len(db'[t])
    BY <2>2, <2>3
  <2>5. SubSeq(db[t], 1, Len(db[t])) = SubSeq(db'[t], 1, Len(db[t]))
    BY <2>2, <2>3, <2>4, SubSeqProperties
  <2>6. Contract!UniqueIds(db'[t])
    BY <1>1, <2>1 DEF UniqueRows, Contract!UniqueIds
  <2> QED BY <2>4, <2>5, <2>6 DEF Contract!IsPrefix
<1>3. ASSUME NEW t \in {"evidence", "claims"}
      PROVE  StoreTables[t] = db[t] /\ StoreTables'[t] = db'[t]
  BY DEF StoreTables
<1> QED BY <1>2, <1>3 DEF Contract!Extend, StoreTables

\* Answers stand for good, and the rows are what they said.
LEMMA StepAnswers ==
  ASSUME ClaimIdsAreFresh, IInv, IInv', [Next]_vars
  PROVE  Contract!Answer
<1>1. acked \subseteq acked'
  BY DEF Next, Proceed, Call, Select, Insert, ResolveConflict, Busy, BeginTx, EndTx, RaiseTx, Crash,
         Commit, vars
<1>2. ASSUME NEW a \in acked', a.table \in {"evidence", "claims"}
      PROVE  Contract!Backed(StoreTables', [table |-> a.table, id |-> a.id, body |-> a.body, seq |-> a.seq])
  <2>1. a.table = "evidence" \/ a.tx \/ NeverReused(a.table, a.id)
    BY <1>2 DEF ClaimIdsAreFresh, NeverReused
  <2>2. Lookup(db', a.table, a.id) = a.body /\ a.seq \in {0, Position(db', a.table, a.id)}
    BY <2>1 DEF IInv, AnswersAreStored, Stored, Lookup, Has, Position
  <2>3. a.body # NoBody /\ a.table \in Tables /\ IsTables(db')
    <3>1. acked' \subseteq Answers /\ IsTables(db')
      BY DEF IInv, TypeOK
    <3>2. PICK x \in Items : a.table = x.table /\ a.body = x.body
      BY <1>2, <3>1 DEF Answers
    <3> QED BY <3>1, <3>2, ItemsAssumption
  <2> DEFINE i == Position(db', a.table, a.id)
  <2>4. /\ i \in DOMAIN db'[a.table] /\ db'[a.table][i].id = a.id
        /\ db'[a.table][i].body = a.body
    <3>1. Has(db', a.table, a.id)
      BY <2>2, <2>3, FoundIsThere
    <3>2. /\ i \in DOMAIN db'[a.table] /\ db'[a.table][i].id = a.id
          /\ Lookup(db', a.table, a.id) = db'[a.table][i].body
      BY <2>3, <3>1, HasRow
    <3> QED BY <2>2, <3>2
  <2>5. db'[a.table][i] \in RowsOf(a.table)
    <3>1. /\ db'[a.table] \in Seq(RowsOf(a.table))
          /\ DOMAIN db'[a.table] = 1..Len(db'[a.table])
      BY <2>3, TableType
    <3> HIDE DEF i
    <3> QED BY <2>4, <3>1, ElementOfSeq
  <2>6. db'[a.table][i] = [id |-> a.id, body |-> a.body]
    <3> HIDE DEF i
    <3>1. PICK x \in Items : db'[a.table][i] = [id |-> x.id, body |-> x.body]
      BY <2>5 DEF RowsOf
    <3> QED BY <2>4, <3>1
  <2>7. StoreTables'[a.table] = db'[a.table]
    BY <1>2 DEF StoreTables
  <2>8. a.seq \in {0, i}
    BY <2>2
  <2> HIDE DEF i
  <2> QED BY <2>4, <2>6, <2>7, <2>8 DEF Contract!Backed
<1>3. StoreAnswers \subseteq StoreAnswers'
  BY <1>1 DEF StoreAnswers
<1>4. \A a \in StoreAnswers' : Contract!Backed(StoreTables', a)
  BY <1>2 DEF StoreAnswers
<1> QED BY <1>3, <1>4 DEF Contract!Answer, StoreAnswers, StoreTables

\* The backend implements the write-once ledger for evidence and, as compilation
\* ids are not reused, for claims: its tables only grow, and an answer is backed for
\* good whoever crashes (append_evidence, append_claim, transaction).
THEOREM StoreImplementsLedger == ClaimIdsAreFresh => (Spec => ImplementsLedger)
<1> SUFFICES ASSUME ClaimIdsAreFresh PROVE Spec => ImplementsLedger
  OBVIOUS
<1>1. Init => Contract!Init
  <2> SUFFICES ASSUME Init PROVE Contract!Init
    OBVIOUS
  <2>1. StoreTables = [t \in {"evidence", "claims"} |-> <<>>] /\ StoreAnswers = {}
    BY DEF Init, StoreTables, StoreAnswers, Tables
  <2> QED BY <2>1 DEF Contract!Init, StoreTables, StoreAnswers
<1>2. IInv /\ IInv' /\ [Next]_vars => [Contract!Next]_(Contract!vars)
  BY StepExtends, StepAnswers DEF Contract!Next, IInv
<1> QED BY <1>1, <1>2, SpecInv, PTL DEF Spec, ImplementsLedger, Contract!Spec
=============================================================================
