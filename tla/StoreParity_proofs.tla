------------------------- MODULE StoreParity_proofs -------------------------
(***************************************************************************)
(* Proofs that the two backends agree, for every sequence of calls on any  *)
(* objects that a single process makes outside transactions.               *)
(***************************************************************************)
EXTENDS StoreParity, SQLiteStore_proofs

\* The in-memory tables have the same rows as those of SQLite.
LEMMA AlikeRows ==
  ASSUME NEW f, NEW g, IsTables(f), UniqueRows(f), IsTables(g), Alike(f, g), NEW t \in Tables
  PROVE  /\ DOMAIN g[t] = DOMAIN f[t]
         /\ \A i \in DOMAIN f[t] : g[t][i].id = f[t][i].id
         /\ UniqueRows(g)
         /\ \A id : Has(g, t, id) <=> Has(f, t, id)
         /\ \A id : Has(f, t, id) => Position(g, t, id) = Position(f, t, id)
<1>1. ASSUME NEW u \in Tables
      PROVE  DOMAIN g[u] = DOMAIN f[u] /\ \A i \in DOMAIN f[u] : g[u][i].id = f[u][i].id
  <2>1. CASE u = "networks"
    <3>1. DOMAIN f[u] = 1..Len(f[u]) /\ DOMAIN g[u] = 1..Len(g[u])
      BY TableType
    <3> QED BY <2>1, <3>1 DEF Alike
  <2>2. CASE u # "networks"
    BY <2>2 DEF Alike, Tables
  <2> QED BY <2>1, <2>2
<1>2. UniqueRows(g)
  BY <1>1 DEF UniqueRows
<1>3. \A id : Has(g, t, id) <=> Has(f, t, id)
  BY <1>1 DEF Has
<1>4. ASSUME NEW id, Has(f, t, id) PROVE Position(g, t, id) = Position(f, t, id)
  <2> DEFINE i == Position(f, t, id)
  <2>1. i \in DOMAIN f[t] /\ f[t][i].id = id
    BY <1>4, HasRow
  <2>2. i \in DOMAIN g[t] /\ g[t][i].id = id
    BY <1>1, <2>1
  <2> HIDE DEF i
  <2>3. Position(g, t, g[t][i].id) = i
    BY <1>2, <2>2, RowIsFound
  <2> QED BY <2>2, <2>3 DEF i
<1> QED BY <1>1, <1>2, <1>3, <1>4

\* What one call leaves in the in-memory store, against the SQLite tables before it.
Mirrored(x) ==
  IF Has(db, x.table, x.id) THEN Alike(db, mem') /\ (reply' = "stored" <=> IsRepeat(db, x))
                            ELSE Alike(WithRow(db, x), mem') /\ reply' = "stored"

LEMMA NewRowIsMirrored ==
  ASSUME IsTables(db), UniqueRows(db), IsTables(mem), Alike(db, mem), NEW x \in Items, MemInsert(x)
  PROVE  IsTables(mem') /\ Mirrored(x)
<1> DEFINE t == x.table
           r == [id |-> x.id, body |-> x.body]
<1>1. t \in Tables /\ UniqueRows(mem) /\ ~Has(mem, t, x.id) /\ ~Has(db, t, x.id)
  BY AlikeRows, ItemsAssumption DEF MemInsert, MemHas, Has
<1>2. mem' = WithRow(mem, x) /\ reply' = "stored"
  BY DEF MemInsert, WithRow
<1>3. IsTables(mem')
  BY <1>1, <1>2, RowIsAdded
<1>4. /\ mem \in [Tables -> Seq(UNION {RowsOf(u) : u \in Tables})]
      /\ db \in [Tables -> Seq(UNION {RowsOf(u) : u \in Tables})]
  BY DEF IsTables
<1>5. ASSUME NEW u \in Tables, NEW f, f \in [Tables -> Seq(UNION {RowsOf(v) : v \in Tables})]
      PROVE  WithRow(f, x)[u] = IF u = t THEN Append(f[u], r) ELSE f[u]
  BY <1>1, <1>5 DEF WithRow
<1>6. \A u \in Tables : /\ WithRow(mem, x)[u] = IF u = t THEN Append(mem[u], r) ELSE mem[u]
                        /\ WithRow(db, x)[u] = IF u = t THEN Append(db[u], r) ELSE db[u]
  BY <1>4, <1>5
<1>7. ASSUME NEW u \in {"evidence", "claims", "reports"} PROVE WithRow(db, x)[u] = WithRow(mem, x)[u]
  BY <1>6 DEF Alike, Tables
<1>8. LET f == WithRow(db, x)
          g == WithRow(mem, x) IN
      /\ Len(f["networks"]) = Len(g["networks"])
      /\ \A i \in DOMAIN g["networks"] :
           g["networks"][i].id = f["networks"][i].id
           /\ Content(g["networks"][i].body) = Content(f["networks"][i].body)
  <2> DEFINE n == "networks"
             k == Len(db[n])
  <2>1. n \in Tables
    BY DEF Tables
  <2>2. /\ db[n] \in Seq(RowsOf(n)) /\ mem[n] \in Seq(RowsOf(n)) /\ k \in Nat
        /\ Len(mem[n]) = k /\ DOMAIN mem[n] = 1..k
    BY <2>1, TableType DEF Alike
  <2>3. \A i \in 1..k : mem[n][i].id = db[n][i].id /\ Content(mem[n][i].body) = Content(db[n][i].body)
    BY <2>2 DEF Alike
  <2>4. CASE t # n
    BY <1>6, <2>1, <2>2, <2>3, <2>4
  <2>5. CASE t = n
    <3>1. r \in RowsOf(n)
      BY <2>5 DEF RowsOf
    <3>2. /\ Len(Append(db[n], r)) = k + 1 /\ Len(Append(mem[n], r)) = k + 1
          /\ \A i \in 1..k : Append(db[n], r)[i] = db[n][i] /\ Append(mem[n], r)[i] = mem[n][i]
          /\ Append(db[n], r)[k + 1] = r /\ Append(mem[n], r)[k + 1] = r
          /\ Append(mem[n], r) \in Seq(RowsOf(n))
      <4> HIDE DEF r, n
      <4> QED BY <2>2, <3>1, AppendProperties
    <3>3. DOMAIN Append(mem[n], r) = 1..(k + 1)
      <4> HIDE DEF r, n, k
      <4> QED BY <3>2, LenProperties
    <3>4. WithRow(mem, x)[n] = Append(mem[n], r) /\ WithRow(db, x)[n] = Append(db[n], r)
      BY <1>6, <2>1, <2>5
    <3>5. ASSUME NEW i \in 1..(k + 1)
          PROVE  /\ Append(mem[n], r)[i].id = Append(db[n], r)[i].id
                 /\ Content(Append(mem[n], r)[i].body) = Content(Append(db[n], r)[i].body)
      <4>1. i \in 1..k \/ i = k + 1
        BY <2>2
      <4> HIDE DEF r, n, k
      <4> QED BY <2>3, <3>2, <4>1
    <3> HIDE DEF r, k
    <3> QED BY <3>2, <3>3, <3>4, <3>5
  <2> QED BY <2>4, <2>5
<1> QED BY <1>1, <1>2, <1>3, <1>7, <1>8 DEF Mirrored, Alike

\* A repeated id: only the network's object may change, and not what counts of it.
LEMMA RepeatIsMirrored ==
  ASSUME IsTables(db), UniqueRows(db), IsTables(mem), Alike(db, mem), NEW x \in Items,
         MemRepeatEvidence(x) \/ MemRepeatNetwork(x) \/ MemRepeatResult(x)
  PROVE  IsTables(mem') /\ Mirrored(x)
<1> DEFINE t == x.table
           i == Position(db, t, x.id)
<1>1. t \in Tables /\ Has(mem, t, x.id)
  BY ItemsAssumption DEF MemRepeatEvidence, MemRepeatNetwork, MemRepeatResult, MemHas, Has
<1>2. Has(db, t, x.id) /\ Position(mem, t, x.id) = i
  BY <1>1, AlikeRows
<1>3. MemPosition(t, x.id) = i
  BY <1>2 DEF MemPosition, Position
<1>4. /\ i \in DOMAIN db[t] /\ db[t][i].id = x.id /\ Lookup(db, t, x.id) = db[t][i].body
      /\ i \in DOMAIN mem[t] /\ mem[t][i].id = x.id
  BY <1>1, <1>2, HasRow
<1>5. MemBody(t, x.id) = mem[t][i].body
  BY <1>3 DEF MemBody
<1> HIDE DEF i
<1>6. CASE t # "networks"
  <2>1. UNCHANGED mem /\ reply' = IF mem[t][i].body = x.body THEN "stored" ELSE "refused"
    BY <1>5, <1>6 DEF MemRepeatEvidence, MemRepeatNetwork, MemRepeatResult
  <2>2. mem[t][i].body = Lookup(db, t, x.id)
    BY <1>1, <1>4, <1>6 DEF Alike, Tables
  <2>3. reply' = "stored" <=> IsRepeat(db, x)
    BY <1>6, <2>1, <2>2 DEF IsRepeat
  <2> QED BY <1>2, <2>1, <2>3 DEF Mirrored
<1>7. CASE t = "networks"
  <2>1. Content(mem[t][i].body) = Content(Lookup(db, t, x.id))
    BY <1>4, <1>7 DEF Alike
  <2>2. IF Content(mem[t][i].body) = Content(x.body)
        THEN mem' = [mem EXCEPT ![t][i].body = x.body] /\ reply' = "stored"
        ELSE UNCHANGED mem /\ reply' = "refused"
    BY <1>3, <1>5, <1>7 DEF MemRepeatEvidence, MemRepeatNetwork, MemRepeatResult
  <2>3. (reply' = "stored") <=> IsRepeat(db, x)
    BY <1>7, <2>1, <2>2 DEF IsRepeat
  <2>4. CASE UNCHANGED mem
    BY <1>2, <2>3, <2>4 DEF Mirrored
  <2>5. CASE Content(mem[t][i].body) = Content(x.body) /\ mem' = [mem EXCEPT ![t][i].body = x.body]
    <3> DEFINE r == [id |-> x.id, body |-> x.body]
    <3>1. mem[t] \in Seq(RowsOf(t)) /\ mem[t][i] \in RowsOf(t) /\ r \in RowsOf(t)
      BY <1>1, <1>4, TableType DEF RowsOf
    <3>2. [mem[t][i] EXCEPT !.body = x.body] = r
      <4>1. PICK y \in Items : mem[t][i] = [id |-> y.id, body |-> y.body]
        BY <3>1 DEF RowsOf
      <4> QED BY <1>4, <4>1
    <3>3. mem \in [Tables -> Seq(UNION {RowsOf(u) : u \in Tables})]
      BY DEF IsTables
    <3>4. mem' = [mem EXCEPT ![t] = [mem[t] EXCEPT ![i] = r]]
      BY <2>5, <3>2
    <3> HIDE DEF r
    <3>5. /\ mem'[t] = [mem[t] EXCEPT ![i] = r]
          /\ \A u \in Tables : u # t => mem'[u] = mem[u]
      BY <1>1, <3>3, <3>4
    <3>6. mem'[t] \in Seq(RowsOf(t)) /\ Len(mem'[t]) = Len(mem[t])
      BY <1>4, <3>1, <3>5, ExceptSeq, LenProperties
    <3>7. IsTables(mem')
      <4>1. RowsOf(t) \subseteq UNION {RowsOf(u) : u \in Tables}
        BY <1>1
      <4>2. mem'[t] \in Seq(UNION {RowsOf(u) : u \in Tables})
        BY <3>6, <4>1, SeqMonotonic
      <4>3. mem' \in [Tables -> Seq(UNION {RowsOf(u) : u \in Tables})]
        BY <1>1, <3>3, <3>4, <3>5, <4>2
      <4> QED BY <3>5, <3>6, <4>3 DEF IsTables
    <3>8. /\ DOMAIN mem'[t] = DOMAIN mem[t] /\ mem'[t][i] = r
          /\ \A j \in DOMAIN mem[t] : j # i => mem'[t][j] = mem[t][j]
      BY <1>4, <3>1, <3>5
    <3>9. r.id = x.id /\ r.body = x.body
      BY DEF r
    <3>10. \A j \in DOMAIN mem'[t] : mem'[t][j].id = db[t][j].id
                                     /\ Content(mem'[t][j].body) = Content(db[t][j].body)
      BY <1>4, <1>7, <2>1, <2>5, <3>8, <3>9 DEF Alike
    <3>11. \A u \in {"evidence", "claims", "reports"} : mem'[u] = db[u]
      BY <1>7, <3>5 DEF Alike, Tables
    <3>12. Alike(db, mem')
      BY <1>7, <3>6, <3>10, <3>11 DEF Alike
    <3> QED BY <1>2, <2>3, <3>7, <3>12 DEF Mirrored
  <2> QED BY <2>2, <2>4, <2>5
<1> QED BY <1>6, <1>7

LEMMA CallIsMirroredAtOnce ==
  ASSUME IsTables(db), UniqueRows(db), IsTables(mem), Alike(db, mem), NEW x \in Items, MemAppend(x)
  PROVE  IsTables(mem') /\ Mirrored(x)
BY NewRowIsMirrored, RepeatIsMirrored DEF MemAppend

----------------------------------------------------------------------------
(* The invariant                                                           *)

OneClient == \E c : Clients = {c}

ParityInv == IInv /\ IsTables(mem) /\ NoTransaction /\ CallIsMirrored

LEMMA ParityInitInv == OneClient /\ ParityInit => ParityInv
<1> SUFFICES ASSUME OneClient, ParityInit PROVE ParityInv
  OBVIOUS
<1>1. IInv
  BY InitInv DEF ParityInit
<1>2. mem = db /\ NoTransaction
  BY DEF ParityInit, Init, MemInit, MemTables, Tables, NoTransaction
<1>3. IsTables(mem)
  BY <1>1, <1>2 DEF IInv, TypeOK
<1>4. Alike(db, mem)
  BY <1>2 DEF Alike
<1>5. \A c \in Clients : pc[c] = "idle"
  BY DEF ParityInit, Init
<1> QED BY <1>1, <1>2, <1>3, <1>4, <1>5 DEF ParityInv, CallIsMirrored

\* A step of both stores is a step of the SQLite store.
LEMMA ParityStepIsStep == [ParityNext]_parityVars => [Next]_vars
BY DEF ParityNext, CallBoth, SQLiteSteps, Next, parityVars

\* What the invariant says of the only process.
LEMMA LoneProcess ==
  ASSUME ParityInv, NEW c, Clients = {c}
  PROVE  /\ ~InTx(c) /\ readers = {} /\ item[c] \in Items /\ item[c].table \in Tables
         /\ pc[c] \in {"select", "insert", "idle"} => writer = NoClient /\ dirty = db /\ View(c) = db
         /\ pc[c] \in {"conflict", "commit"} => writer = c
         /\ pc[c] = "conflict" => dirty = db
         /\ MayCommit(c)
         /\ IsTables(db) /\ UniqueRows(db)
<1>1. ~InTx(c)
  BY DEF ParityInv, NoTransaction, InTx
<1>2. readers = {}
  BY <1>1 DEF ParityInv, IInv, TypeOK, LocksAreHeld
<1>3. item[c] \in Items /\ item[c].table \in Tables /\ writer \in {c, NoClient}
  BY ItemsAssumption DEF ParityInv, IInv, TypeOK
<1>4. pc[c] \in {"select", "insert", "idle"} => writer = NoClient /\ dirty = db /\ View(c) = db
  BY <1>1, <1>3, ClientsAssumption DEF ParityInv, IInv, LocksAreHeld, View
<1>5. /\ pc[c] \in {"conflict", "commit"} => writer = c
      /\ pc[c] = "conflict" => dirty = db
  BY <1>1 DEF ParityInv, IInv, LocksAreHeld
<1>6. MayCommit(c)
  BY <1>2 DEF MayCommit
<1> QED BY <1>1, <1>2, <1>3, <1>4, <1>5, <1>6 DEF ParityInv, IInv, TypeOK, RowsAreKept

\* How the call of the only process goes on.
LEMMA CallContinues ==
  ASSUME ParityInv, NEW c, Clients = {c}, Proceed(c)
  PROVE  LET x == item[c] IN
         /\ item' = item /\ depth' = depth
         /\ \/ /\ pc[c] = "select" /\ db' = db
               /\ pc'[c] = IF Lookup(db, x.table, x.id) \in {NoBody, x.body} THEN "insert" ELSE "idle"
            \/ /\ pc[c] = "insert" /\ db' = db
               /\ dirty' = IF Has(db, x.table, x.id) THEN db ELSE WithRow(db, x)
               /\ pc'[c] = IF Has(db, x.table, x.id) /\ x.table = "evidence" THEN "conflict" ELSE "commit"
            \/ /\ pc[c] = "conflict" /\ db' = db
               /\ IF Lookup(db, x.table, x.id) = x.body THEN pc'[c] = "commit" /\ dirty' = dirty
                                                        ELSE pc'[c] = "idle"
            \/ pc[c] = "commit" /\ Commit(c) /\ db' = dirty /\ pc'[c] = "idle"
<1> DEFINE x == item[c]
<1>1. pc[c] \in Steps /\ pc \in [Clients -> Steps]
  BY DEF ParityInv, IInv, TypeOK
<1>2. \A s : Goto(c, s) => pc'[c] = s
  BY <1>1 DEF Goto
<1>3. CASE Select(c)
  BY <1>2, <1>3, LoneProcess DEF Select
<1>4. CASE Insert(c)
  BY <1>2, <1>4, LoneProcess DEF Insert, Finish
<1>5. CASE ResolveConflict(c)
  BY <1>2, <1>5, LoneProcess DEF ResolveConflict, Finish, locks
<1>6. CASE Commit(c)
  BY <1>2, <1>6 DEF Commit
<1>7. CASE Busy(c)
  BY <1>7, LoneProcess DEF Busy
<1> QED BY <1>3, <1>4, <1>5, <1>6, <1>7 DEF Proceed

LEMMA ParityNextInv ==
  ASSUME OneClient, ParityInv, [ParityNext]_parityVars
  PROVE  ParityInv'
<1>1. PICK c : Clients = {c}
  BY DEF OneClient
<1> DEFINE x == item[c]
<1>2. IInv'
  <2>1. [Next]_vars
    BY ParityStepIsStep
  <2> QED BY <2>1, NextInv DEF ParityInv
<1>3. /\ ~InTx(c) /\ x \in Items /\ x.table \in Tables /\ IsTables(db) /\ UniqueRows(db) /\ IsTables(mem)
      /\ depth[c] = 0
  BY <1>1, LoneProcess DEF ParityInv, NoTransaction
<1>4. SUFFICES
        LET y == item'[c] IN
        /\ IsTables(mem') /\ depth'[c] = 0
        /\ pc'[c] = "idle" => Alike(db', mem')
        /\ pc'[c] = "commit" => Alike(dirty', mem') /\ reply' = "stored"
        /\ pc'[c] \in {"select", "insert", "conflict"} =>
             IF Has(db', y.table, y.id) THEN Alike(db', mem') /\ (reply' = "stored" <=> IsRepeat(db', y))
                                        ELSE Alike(WithRow(db', y), mem') /\ reply' = "stored"
        /\ pc'[c] = "insert" /\ y.table # "evidence" => Lookup(db', y.table, y.id) \in {NoBody, y.body}
        /\ pc'[c] = "select" => y.table # "evidence"
        /\ pc'[c] = "conflict" => y.table = "evidence" /\ Has(db', y.table, y.id)
  <2>1. NoTransaction'
    BY <1>1, <1>4 DEF NoTransaction
  <2>2. IsTables(mem)'
    BY <1>4 DEF IsTables
  <2>3. CallIsMirrored'
    <3>1. /\ Alike(db, mem)' <=> Alike(db', mem')
          /\ Alike(dirty, mem)' <=> Alike(dirty', mem')
      BY DEF Alike
    <3>2. /\ Alike(WithRow(db, item[c]), mem)' <=> Alike(WithRow(db', item'[c]), mem')
          /\ Has(db, item[c].table, item[c].id)' <=> Has(db', item'[c].table, item'[c].id)
          /\ Lookup(db, item[c].table, item[c].id)' = Lookup(db', item'[c].table, item'[c].id)
          /\ IsRepeat(db, item[c])' <=> IsRepeat(db', item'[c])
      BY DEF Alike, WithRow, Has, Lookup, Position, IsRepeat
    <3> QED BY <1>1, <1>4, <3>1, <3>2 DEF CallIsMirrored
  <2> QED BY <1>2, <2>1, <2>2, <2>3 DEF ParityInv
<1>5. ASSUME NEW y \in Items, pc[c] = "idle", CallBoth(c, y)
      PROVE  LET z == item'[c] IN
        /\ IsTables(mem') /\ depth'[c] = 0
        /\ pc'[c] = "idle" => Alike(db', mem')
        /\ pc'[c] = "commit" => Alike(dirty', mem') /\ reply' = "stored"
        /\ pc'[c] \in {"select", "insert", "conflict"} =>
             IF Has(db', z.table, z.id) THEN Alike(db', mem') /\ (reply' = "stored" <=> IsRepeat(db', z))
                                        ELSE Alike(WithRow(db', z), mem') /\ reply' = "stored"
        /\ pc'[c] = "insert" /\ z.table # "evidence" => Lookup(db', z.table, z.id) \in {NoBody, z.body}
        /\ pc'[c] = "select" => z.table # "evidence"
        /\ pc'[c] = "conflict" => z.table = "evidence" /\ Has(db', z.table, z.id)
  <2>1. Call(c, y) /\ MemAppend(y) /\ Alike(db, mem)
    BY <1>1, <1>5 DEF CallBoth, ParityInv, CallIsMirrored
  <2>2. IsTables(mem') /\ Mirrored(y)
    BY <1>3, <2>1, CallIsMirroredAtOnce
  <2>3. item'[c] = y /\ db' = db /\ depth' = depth
        /\ pc'[c] = IF y.table = "evidence" THEN "insert" ELSE "select"
    BY <1>1, <2>1 DEF Call, Goto, ParityInv, IInv, TypeOK
  <2> QED BY <1>3, <2>2, <2>3 DEF Mirrored
<1>6. ASSUME SQLiteSteps(c)
      PROVE  LET z == item'[c] IN
        /\ IsTables(mem') /\ depth'[c] = 0
        /\ pc'[c] = "idle" => Alike(db', mem')
        /\ pc'[c] = "commit" => Alike(dirty', mem') /\ reply' = "stored"
        /\ pc'[c] \in {"select", "insert", "conflict"} =>
             IF Has(db', z.table, z.id) THEN Alike(db', mem') /\ (reply' = "stored" <=> IsRepeat(db', z))
                                        ELSE Alike(WithRow(db', z), mem') /\ reply' = "stored"
        /\ pc'[c] = "insert" /\ z.table # "evidence" => Lookup(db', z.table, z.id) \in {NoBody, z.body}
        /\ pc'[c] = "select" => z.table # "evidence"
        /\ pc'[c] = "conflict" => z.table = "evidence" /\ Has(db', z.table, z.id)
  <2>1. Proceed(c) /\ mem' = mem /\ reply' = reply
    BY <1>6 DEF SQLiteSteps, memVars
  <2>2. item' = item /\ depth' = depth
    BY <1>1, <2>1, CallContinues
  <2>3. /\ pc[c] = "commit" => Alike(dirty, mem) /\ reply = "stored"
        /\ pc[c] \in {"select", "insert", "conflict"} =>
             IF Has(db, x.table, x.id) THEN Alike(db, mem) /\ (reply = "stored" <=> IsRepeat(db, x))
                                       ELSE Alike(WithRow(db, x), mem) /\ reply = "stored"
        /\ pc[c] = "insert" /\ x.table # "evidence" => Lookup(db, x.table, x.id) \in {NoBody, x.body}
        /\ pc[c] = "select" => x.table # "evidence"
        /\ pc[c] = "conflict" => x.table = "evidence" /\ Has(db, x.table, x.id)
    BY <1>1 DEF ParityInv, CallIsMirrored
  <2>4. Has(db, x.table, x.id) <=> Lookup(db, x.table, x.id) # NoBody
    BY <1>3, HasRow, FoundIsThere
  <2>6. Lookup(db, x.table, x.id) = x.body => IsRepeat(db, x)
    BY DEF IsRepeat
  <2>7. x.body # NoBody
    BY <1>3, ItemsAssumption
  <2> HIDE DEF x
  <2>8. \/ /\ pc[c] = "select" /\ db' = db
           /\ pc'[c] = IF Lookup(db, x.table, x.id) \in {NoBody, x.body} THEN "insert" ELSE "idle"
        \/ /\ pc[c] = "insert" /\ db' = db
           /\ dirty' = IF Has(db, x.table, x.id) THEN db ELSE WithRow(db, x)
           /\ pc'[c] = IF Has(db, x.table, x.id) /\ x.table = "evidence" THEN "conflict" ELSE "commit"
        \/ /\ pc[c] = "conflict" /\ db' = db
           /\ IF Lookup(db, x.table, x.id) = x.body THEN pc'[c] = "commit" /\ dirty' = dirty
                                                    ELSE pc'[c] = "idle"
        \/ pc[c] = "commit" /\ db' = dirty /\ pc'[c] = "idle"
    BY <1>1, <2>1, CallContinues DEF x
  <2>9. pc[c] = "conflict" => dirty = db
    BY <1>1, LoneProcess
  <2>10. item'[c] = x
    BY <2>2 DEF x
  <2>11. CASE pc[c] = "select"
    BY <1>3, <2>1, <2>2, <2>3, <2>4, <2>8, <2>10, <2>11
  <2>12. CASE pc[c] = "insert"
    BY <1>3, <2>1, <2>2, <2>3, <2>4, <2>6, <2>7, <2>8, <2>10, <2>12
  <2>13. CASE pc[c] = "conflict"
    BY <1>3, <2>1, <2>2, <2>3, <2>4, <2>6, <2>8, <2>9, <2>10, <2>13
  <2>14. CASE pc[c] = "commit"
    BY <1>3, <2>1, <2>2, <2>3, <2>8, <2>10, <2>14
  <2> QED BY <2>8, <2>11, <2>12, <2>13, <2>14
<1>7. CASE UNCHANGED parityVars
  <2>1. UNCHANGED <<db, dirty, item, pc, depth, mem, reply>>
    BY <1>7 DEF parityVars, vars, memVars
  <2>2. CallIsMirrored
    BY DEF ParityInv
  <2> QED BY <1>1, <1>3, <2>1, <2>2 DEF CallIsMirrored
<1> QED BY <1>1, <1>5, <1>6, <1>7 DEF ParityNext

LEMMA ParitySpecInv == OneClient => (ParitySpec => []ParityInv)
<1> SUFFICES ASSUME OneClient PROVE ParitySpec => []ParityInv
  OBVIOUS
<1>1. ParityInit => ParityInv
  BY ParityInitInv
<1>2. ParityInv /\ [ParityNext]_parityVars => ParityInv'
  BY ParityNextInv
<1> QED BY <1>1, <1>2, PTL DEF ParitySpec

\* After every call of a single process both backends hold the same evidence, claims
\* and reports in the same order (SQLiteCertificationStore, InMemoryCertificationStore).
THEOREM BackendsAgree == OneClient => (ParitySpec => []SameTables)
<1> SUFFICES ASSUME OneClient PROVE ParitySpec => []SameTables
  OBVIOUS
<1>1. ParityInv => SameTables
  BY DEF OneClient, ParityInv, CallIsMirrored, SameTables, Quiet, Alike
<1> QED BY <1>1, ParitySpecInv, PTL

\* Their networks agree on what content_digest covers (upsert_network).
THEOREM BackendNetworksAgree == OneClient => (ParitySpec => []SameNetworks)
<1> SUFFICES ASSUME OneClient PROVE ParitySpec => []SameNetworks
  OBVIOUS
<1>1. ParityInv => SameNetworks
  BY DEF OneClient, ParityInv, CallIsMirrored, SameNetworks, Quiet, Alike
<1> QED BY <1>1, ParitySpecInv, PTL

\* A call is accepted by SQLite only if the in-memory store accepts it, and, but for
\* networks, whenever it does.
THEOREM BackendsAnswerAlike == OneClient => (ParitySpec => SameAnswers)
<1> SUFFICES ASSUME OneClient PROVE ParitySpec => SameAnswers
  OBVIOUS
<1>1. ASSUME ParityInv, [ParityNext]_parityVars
      PROVE  [\A c \in Clients : pc[c] # "idle" /\ pc'[c] = "idle" =>
                LET accepted == Commit(c) IN
                /\ accepted => reply = "stored"
                /\ reply = "stored" /\ item[c].table # "networks" => accepted]_parityVars
  <2> SUFFICES ASSUME NEW c \in Clients, pc[c] # "idle", pc'[c] = "idle"
               PROVE  /\ Commit(c) => reply = "stored"
                      /\ reply = "stored" /\ item[c].table # "networks" => Commit(c)
    OBVIOUS
  <2> DEFINE x == item[c]
  <2>1. Clients = {c}
    BY <1>1 DEF OneClient
  <2>2. Proceed(c)
    BY <1>1, <2>1 DEF ParityNext, SQLiteSteps, parityVars, vars
  <2>3. /\ pc[c] = "commit" => reply = "stored"
        /\ pc[c] \in {"select", "insert", "conflict"} /\ Has(db, x.table, x.id) =>
             (reply = "stored" <=> IsRepeat(db, x))
        /\ pc[c] = "conflict" => Has(db, x.table, x.id)
    BY <1>1, <2>1 DEF ParityInv, CallIsMirrored
  <2>4. Commit(c) => reply = "stored"
    BY <2>3 DEF Commit
  <2>5. ASSUME x.table # "networks", pc[c] \in {"select", "conflict"}, Has(db, x.table, x.id),
               Lookup(db, x.table, x.id) # x.body
        PROVE  reply # "stored"
    BY <2>3, <2>5 DEF IsRepeat
  <2>6. Lookup(db, x.table, x.id) # NoBody => Has(db, x.table, x.id)
    BY FoundIsThere
  <2>7. \/ pc[c] = "select" /\ Lookup(db, x.table, x.id) \notin {NoBody, x.body}
        \/ pc[c] = "conflict" /\ Lookup(db, x.table, x.id) # x.body
        \/ Commit(c)
    BY <1>1, <2>1, <2>2, CallContinues
  <2> HIDE DEF x
  <2>8. reply = "stored" /\ x.table # "networks" => Commit(c)
    BY <2>3, <2>5, <2>6, <2>7
  <2> QED BY <2>4, <2>8 DEF x
<1> QED BY <1>1, ParitySpecInv, PTL DEF ParitySpec, SameAnswers
=============================================================================
