------------------------- MODULE OawmImport_proofs -------------------------
(***************************************************************************)
(* Proofs about the import of OAWM state for every set of importers, every *)
(* history of the foreign database and any bounds: the state keeps its     *)
(* types, references are stored before what refers to them, imports that   *)
(* stop, collide or are repeated implement the write-once ledger, and what *)
(* an import says when it ends is true.                                    *)
(***************************************************************************)
EXTENDS OawmImport, SequenceTheorems, TLAPS

Entries == [id : STRING, made : 0..MaxTime, before : 0..written]

----------------------------------------------------------------------------
(* Rows and objects                                                        *)

\* What is known of the history: a sequence of rows with identities of their own.
LEMMA HistoryType ==
  ASSUME TypeOK
  PROVE  /\ history \in Seq(Rows) /\ Len(history) \in Nat /\ DOMAIN history = 1..Len(history)
         /\ written \in Nat /\ written <= Len(history)
         /\ \A x, y \in Range(history) : x.id = y.id => x = y
         /\ \A x, y \in Range(history) : y.id \in x.needs =>
              /\ x.table \in {"promotion_receipts", "memory_records"}
              /\ y.table = "evidence_manifests"
<1>1. history \in Seq(Rows)
  BY HistoriesAssumption DEF TypeOK
<1>2. Len(history) \in Nat /\ DOMAIN history = 1..Len(history)
  BY <1>1, LenProperties
<1>3. \A i, j \in DOMAIN history :
         /\ history[i].id = history[j].id => i = j
         /\ history[j].id \in history[i].needs =>
              /\ history[i].table \in {"promotion_receipts", "memory_records"}
              /\ history[j].table = "evidence_manifests"
  BY HistoriesAssumption DEF TypeOK
<1>4. \A x \in Range(history) : \E i \in DOMAIN history : x = history[i]
  BY DEF Range
<1>5. \A x, y \in Range(history) : x.id = y.id => x = y
  BY <1>3, <1>4
<1>6. \A x, y \in Range(history) : y.id \in x.needs =>
              /\ x.table \in {"promotion_receipts", "memory_records"}
              /\ y.table = "evidence_manifests"
  BY <1>3, <1>4
<1>7. written \in Nat /\ written <= Len(history)
  BY <1>2 DEF TypeOK
<1> QED BY <1>1, <1>2, <1>5, <1>6, <1>7

\* What is written is part of the history, and all of it are rows.
LEMMA WrittenType ==
  ASSUME TypeOK, NEW n \in 0..written
  PROVE  Written(n) \subseteq Range(history) /\ Written(n) \subseteq Rows
<1>1. \A k \in 1..n : k \in DOMAIN history /\ history[k] \in Rows
  BY HistoryType, ElementOfSeq
<1> QED BY <1>1 DEF Written, Range

\* A SELECT makes a sequence of objects, one of every row it keeps.
LEMMA ListingType ==
  ASSUME TypeOK, NEW S \in SUBSET Range(history), S \subseteq Rows, NEW s \in Listings(S)
  PROVE  /\ Made(s) \in Seq(Objects) /\ Len(Made(s)) \in Nat
         /\ DOMAIN s = 1..Len(Made(s)) /\ DOMAIN Made(s) = 1..Len(Made(s))
         /\ \A k \in 1..Len(Made(s)) : s[k] \in S /\ Made(s)[k] = [id |-> s[k].id, made |-> clock]
         /\ \A x \in S : \E k \in 1..Len(Made(s)) : s[k] = x
<1>1. PICK n \in 0..written : s \in [1..n -> S] /\ Range(s) = S
  BY DEF Listings
<1>2. n \in Nat
  BY HistoryType
<1>3. Made(s) = [k \in 1..n |-> [id |-> s[k].id, made |-> clock]]
  BY <1>1 DEF Made
<1>4. \A k \in 1..n : [id |-> s[k].id, made |-> clock] \in Objects
  BY <1>1 DEF Objects, Rows, TypeOK
<1>5. Made(s) \in [1..n -> Objects]
  BY <1>3, <1>4
<1>6. Made(s) \in Seq(Objects) /\ Len(Made(s)) = n
  BY <1>2, <1>5
<1> QED BY <1>1, <1>2, <1>3, <1>6 DEF Range

----------------------------------------------------------------------------
(* Types                                                                   *)

LEMMA InitTyped == Init => TypeOK
<1> SUFFICES ASSUME Init PROVE TypeOK
  OBVIOUS
<1>1. history \in Seq(Rows) /\ Len(history) \in Nat
  BY HistoriesAssumption DEF Init
<1> QED BY <1>1, BoundsAssumption DEF Init, TypeOK, ImportOrder

LEMMA EndTyped ==
  ASSUME TypeOK, NEW i \in Importers, NEW how \in {"done", "failed", "broken"}, End(i, how),
         acked' \subseteq Objects, UNCHANGED <<history, written, clock, ledger, imports>>
  PROVE  TypeOK'
<1>1. pc' \in [Importers -> {"idle", "read", "store"}]
      /\ filter' \in [Importers -> Filters \cup {AnyRun}]
      /\ next' \in [Importers -> 1..(Len(ImportOrder) + 1)]
  BY DEF TypeOK, End, ImportOrder
<1>2. objects' \in [Importers -> Seq(Objects)] /\ added' \in [Importers -> SUBSET Objects]
  BY DEF TypeOK, End
<1>3. before' \in [Importers -> 0..written'] /\ outcome' \in [Importers -> {"none", "done", "failed", "broken"}]
  BY HistoryType DEF TypeOK, End
<1>4. \A j \in Importers :
       /\ pc'[j] = "read" => next'[j] <= Len(ImportOrder)
       /\ pc'[j] = "idle" => next'[j] = 1
       /\ next'[j] = 1 => objects'[j] = <<>> /\ added'[j] = {}
  BY DEF TypeOK, End
<1> QED BY <1>1, <1>2, <1>3, <1>4 DEF TypeOK, Objects

LEMMA NextTyped == TypeOK /\ [Next]_vars => TypeOK'
<1> SUFFICES ASSUME TypeOK, [Next]_vars PROVE TypeOK'
  OBVIOUS
<1> USE BoundsAssumption
<1>1. CASE Write
  <2>1. written' \in 0..Len(history) /\ written' >= written /\ written \in Nat
    BY <1>1, HistoryType DEF Write
  <2>2. before' \in [Importers -> 0..written']
    BY <1>1, <2>1 DEF Write, TypeOK, importer
  <2>3. ledger' \in Seq(Entries')
    <3>1. Entries \subseteq Entries'
      BY <1>1, <2>1 DEF Entries, Write
    <3>2. ledger \in Seq(Entries)
      BY DEF TypeOK, Entries
    <3>3. ledger' = ledger
      BY <1>1 DEF Write
    <3>4. ledger \in Seq(Entries')
      BY <3>1, <3>2, SeqMonotonic
    <3> QED BY <3>3, <3>4
  <2> QED BY <1>1, <2>1, <2>2, <2>3 DEF Write, TypeOK, importer, Objects, Entries
<1>2. CASE Tick
  <2>1. clock' \in 0..MaxTime
    BY <1>2 DEF Tick, TypeOK
  <2>2. UNCHANGED <<history, written, ledger, pc, filter, next, objects, added, before,
                    outcome, imports, acked>>
    BY <1>2 DEF Tick, importer
  <2> QED BY <2>1, <2>2 DEF TypeOK, Objects
<1>3. ASSUME NEW i \in Importers, NEW run \in Filters, Begin(i, run) PROVE TypeOK'
  <2>1. before' \in [Importers -> 0..written']
    BY <1>3, HistoryType DEF Begin, TypeOK
  <2>2. pc' \in [Importers -> {"idle", "read", "store"}]
        /\ filter' \in [Importers -> Filters \cup {AnyRun}]
        /\ outcome' \in [Importers -> {"none", "done", "failed", "broken"}]
        /\ imports' \in 0..MaxImports
    BY <1>3 DEF Begin, TypeOK
  <2>3. \A j \in Importers :
       /\ pc'[j] = "read" => next'[j] <= Len(ImportOrder)
       /\ pc'[j] = "idle" => next'[j] = 1
       /\ next'[j] = 1 => objects'[j] = <<>> /\ added'[j] = {}
    BY <1>3 DEF Begin, TypeOK, ImportOrder
  <2> QED BY <1>3, <2>1, <2>2, <2>3 DEF Begin, TypeOK, Objects
<1>4. ASSUME NEW i \in Importers, NEW how \in {"failed", "broken"}, Stop(i, how) PROVE TypeOK'
  BY <1>4, EndTyped DEF Stop, TypeOK
<1>5. ASSUME NEW i \in Importers, ReadTable(i) PROVE TypeOK'
  <2> DEFINE rows == RowsOf(ImportOrder[next[i]])
             kept == {x \in rows : Admitted(x, filter[i])}
  <2>1. CASE Stop(i, "failed")
    BY <1>4, <2>1
  <2>2. CASE Keep(i, kept)
    <3>1. kept \subseteq Range(history) /\ kept \subseteq Rows
      <4>1. written \in 0..written
        BY HistoryType
      <4> QED BY <4>1, WrittenType DEF RowsOf
    <3>2. PICK s \in Listings(kept) : objects' = [objects EXCEPT ![i] = @ \o Made(s)]
      BY <2>2 DEF Keep
    <3>3. Made(s) \in Seq(Objects)
      <4> HIDE DEF kept
      <4> QED BY <3>1, ListingType
    <3>4. objects' \in [Importers -> Seq(Objects)]
      <4>1. objects[i] \o Made(s) \in Seq(Objects)
        BY <3>3, ConcatProperties DEF TypeOK
      <4> QED BY <3>2, <4>1 DEF TypeOK
    <3>5. next[i] \in 1..Len(ImportOrder) /\ Len(ImportOrder) = 5
      BY <1>5 DEF ReadTable, TypeOK, ImportOrder
    <3>6. next' \in [Importers -> 1..(Len(ImportOrder) + 1)]
      BY <2>2, <3>5 DEF Keep, TypeOK
    <3>7. \A j \in Importers :
         /\ pc'[j] = "read" => next'[j] <= Len(ImportOrder)
         /\ pc'[j] = "idle" => next'[j] = 1
         /\ next'[j] = 1 => objects'[j] = <<>> /\ added'[j] = {}
      BY <2>2, <3>2, <3>5 DEF Keep, TypeOK
    <3>8. pc' \in [Importers -> {"idle", "read", "store"}]
      BY <2>2 DEF Keep, TypeOK
    <3> QED BY <2>2, <3>4, <3>6, <3>7, <3>8 DEF Keep, TypeOK, Objects
  <2> QED BY <1>5, <2>1, <2>2 DEF ReadTable
<1>6. ASSUME NEW i \in Importers, Add(i) PROVE TypeOK'
  <2>1. CASE Stop(i, "failed")
    BY <1>4, <2>1
  <2>2. CASE ~Stop(i, "failed")
    <3> DEFINE o == Head(objects[i])
               entry == [id |-> o.id, made |-> o.made, before |-> before[i]]
    <3>1. o \in Objects /\ Tail(objects[i]) \in Seq(Objects)
      BY <1>6, HeadTailProperties DEF Add, TypeOK
    <3>2. entry \in Entries
      BY <3>1, HistoryType DEF Entries, Objects, TypeOK
    <3>3. ledger' \in {ledger, Append(ledger, entry)}
      BY <1>6, <2>2 DEF Add
    <3>4. ledger' \in Seq(Entries)
      <4>1. ledger \in Seq(Entries)
        BY DEF TypeOK, Entries
      <4> HIDE DEF entry
      <4>2. Append(ledger, entry) \in Seq(Entries)
        BY <3>2, <4>1, AppendProperties
      <4> QED BY <3>3, <4>1, <4>2
    <3>5. /\ objects' = [objects EXCEPT ![i] = Tail(@)]
          /\ added' = [added EXCEPT ![i] = @ \cup {o}]
          /\ UNCHANGED <<history, written, clock, pc, filter, next, before, outcome, imports, acked>>
      BY <1>6, <2>2 DEF Add
    <3>6. objects' \in [Importers -> Seq(Objects)] /\ added' \in [Importers -> SUBSET Objects]
      BY <3>1, <3>5 DEF TypeOK
    <3>7. \A j \in Importers : next[j] = 1 => objects'[j] = <<>> /\ added'[j] = {}
      BY <1>6, <3>5 DEF Add, TypeOK
    <3> HIDE DEF o, entry
    <3> QED BY <3>4, <3>5, <3>6, <3>7 DEF TypeOK, Entries, Objects
  <2> QED BY <2>1, <2>2
<1>7. ASSUME NEW i \in Importers, Return(i) PROVE TypeOK'
  <2>1. acked' \subseteq Objects
    BY <1>7 DEF Return, TypeOK
  <2> QED BY <1>7, <2>1, EndTyped DEF Return
<1>8. CASE UNCHANGED vars
  BY <1>8 DEF vars, importer, TypeOK, Objects
<1> QED BY <1>1, <1>2, <1>3, <1>4, <1>5, <1>6, <1>7, <1>8 DEF Next, Work, Break

\* The state keeps its types, and an import starts without anything of an earlier
\* one (Begin, End and Keep in the model; import_state makes its lists anew).
THEOREM TypeCorrectness == Spec => []TypeOK
<1>1. Init => TypeOK
  BY InitTyped
<1>2. TypeOK /\ [Next]_vars => TypeOK'
  BY NextTyped
<1> QED BY <1>1, <1>2, PTL DEF Spec

----------------------------------------------------------------------------
(* References                                                              *)

\* What an importer holds stays in order while others add to the ledger.
LEMMA OthersKept ==
  ASSUME NEW i \in Importers, ManifestsAreHeld(i), ObjectsAreInOrder(i),
         history' = history, LedgerIds \subseteq LedgerIds',
         pc'[i] = pc[i], next'[i] = next[i], before'[i] = before[i], objects'[i] = objects[i]
  PROVE  ManifestsAreHeld(i)' /\ ObjectsAreInOrder(i)'
<1>1. Held(i)' = Held(i)
  BY DEF Held
<1>2. Written(before[i])' = Written(before[i]) /\ RowIds(before[i])' = RowIds(before[i])
  BY DEF Written, RowIds
<1>3. ManifestsAreHeld(i)'
  BY <1>1, <1>2 DEF ManifestsAreHeld
<1>4. ObjectsAreInOrder(i)'
  BY <1>2 DEF ObjectsAreInOrder
<1> QED BY <1>3, <1>4

\* An importer that is idle, or has not read a table, has nothing to keep in order.
LEMMA NothingToKeep ==
  ASSUME NEW i \in Importers, objects[i] = <<>>, pc[i] = "idle" \/ next[i] = 1
  PROVE  ManifestsAreHeld(i) /\ ObjectsAreInOrder(i)
BY DEF ManifestsAreHeld, ObjectsAreInOrder

\* The ledger as it was: its references are what they were.
LEMMA SameLedger ==
  ASSUME ReferencesComeFirst, ledger' = ledger, history' = history
  PROVE  ReferencesComeFirst' /\ LedgerIds' = LedgerIds
BY DEF ReferencesComeFirst, LedgerIds, RowIds, Written

\* Reading a table: all manifests are taken up, and what refers to them comes later.
LEMMA KeepInOrder ==
  ASSUME TypeOK, NEW i \in Importers, pc[i] = "read",
         ManifestsAreHeld(i), ObjectsAreInOrder(i),
         Keep(i, {x \in RowsOf(ImportOrder[next[i]]) : Admitted(x, filter[i])})
  PROVE  ManifestsAreHeld(i)' /\ ObjectsAreInOrder(i)'
<1> DEFINE table == ImportOrder[next[i]]
           kept == {x \in RowsOf(table) : Admitted(x, filter[i])}
           n == Len(objects[i])
<1>1. kept \subseteq Range(history) /\ kept \subseteq Rows
  <2>1. written \in 0..written
    BY HistoryType
  <2> QED BY <2>1, WrittenType DEF RowsOf
<1>2. PICK s \in Listings(kept) : objects' = [objects EXCEPT ![i] = @ \o Made(s)]
  BY DEF Keep
<1> DEFINE m == Len(Made(s))
<1>3. /\ Made(s) \in Seq(Objects) /\ m \in Nat
      /\ \A k \in 1..m : s[k] \in kept /\ Made(s)[k].id = s[k].id
      /\ \A x \in kept : \E k \in 1..m : s[k] = x
  <2> HIDE DEF kept
  <2>1. /\ Made(s) \in Seq(Objects) /\ m \in Nat
        /\ \A k \in 1..m : s[k] \in kept /\ Made(s)[k] = [id |-> s[k].id, made |-> clock]
        /\ \A x \in kept : \E k \in 1..m : s[k] = x
    BY <1>1, ListingType
  <2> HIDE DEF m
  <2>2. ASSUME NEW k \in 1..m PROVE Made(s)[k].id = s[k].id
    <3>1. Made(s)[k] = [id |-> s[k].id, made |-> clock]
      BY <2>1
    <3> QED BY <3>1
  <2> QED BY <2>1, <2>2
<1>4. /\ objects[i] \in Seq(Objects) /\ n \in Nat /\ DOMAIN objects[i] = 1..n
      /\ objects'[i] = objects[i] \o Made(s)
  BY <1>2, LenProperties DEF TypeOK
<1>5. /\ DOMAIN objects'[i] = 1..(n + m)
      /\ \A k \in 1..n : objects'[i][k] = objects[i][k]
      /\ \A k \in 1..m : objects'[i][n + k] = Made(s)[k]
  <2> HIDE DEF kept
  <2> QED BY <1>3, <1>4
<1>6. /\ next[i] \in 1..5 /\ next'[i] = next[i] + 1 /\ before'[i] = before[i]
      /\ history' = history /\ LedgerIds' = LedgerIds
      /\ before[i] \in 0..written
  BY DEF Keep, TypeOK, ImportOrder, LedgerIds
<1>7. Written(before[i])' = Written(before[i]) /\ RowIds(before[i])' = RowIds(before[i])
  BY <1>6 DEF Written, RowIds
<1>8. Written(before[i]) \subseteq Written(written) /\ Written(written) \subseteq Range(history)
  <2>1. written \in 0..written /\ before[i] \in Nat /\ before[i] <= written
    BY <1>6, HistoryType
  <2>2. 1..before[i] \subseteq 1..written
    BY <2>1
  <2>3. Written(written) \subseteq Range(history)
    BY <2>1, WrittenType
  <2> QED BY <2>2, <2>3 DEF Written
<1>9. Held(i) \subseteq Held(i)'
  <2>1. \A k \in 1..n : k \in 1..(n + m)
    BY <1>3, <1>4
  <2> HIDE DEF n, m
  <2> QED BY <1>4, <1>5, <2>1 DEF Held
<1>10. ManifestsAreHeld(i)'
  <2> SUFFICES ASSUME next'[i] > 2, NEW x \in Written(before[i]), x.table = "evidence_manifests"
               PROVE  x.id \in LedgerIds \cup Held(i)'
    BY <1>6, <1>7 DEF ManifestsAreHeld
  <2>1. CASE next[i] > 2
    BY <1>9, <2>1 DEF ManifestsAreHeld
  <2>2. CASE next[i] = 2
    <3>1. x \in kept
      BY <1>8, <2>2 DEF RowsOf, Admitted, ImportOrder
    <3>2. PICK k \in 1..m : s[k] = x
      BY <1>3, <3>1
    <3>3. n + k \in 1..(n + m) /\ objects'[i][n + k].id = x.id
      <4>1. n + k \in 1..(n + m)
        BY <1>3, <1>4, <3>2
      <4>2. objects'[i][n + k] = Made(s)[k] /\ Made(s)[k].id = s[k].id
        BY <1>3, <1>5, <3>2
      <4> QED BY <3>2, <4>1, <4>2
    <3> QED BY <1>5, <3>3 DEF Held
  <2> QED BY <1>6, <2>1, <2>2
<1>11. ObjectsAreInOrder(i)'
  <2> SUFFICES ASSUME NEW k \in 1..(n + m), NEW x \in Range(history), x.id = objects'[i][k].id,
                      NEW id \in x.needs \cap RowIds(before[i])
               PROVE  id \in LedgerIds \/ \E j \in 1..(k - 1) : objects'[i][j].id = id
    BY <1>5, <1>6, <1>7, SMTT(30) DEF ObjectsAreInOrder
  <2>1. CASE k \in 1..n
    <3>1. id \in LedgerIds \/ \E j \in 1..(k - 1) : objects[i][j].id = id
      BY <1>4, <1>5, <2>1 DEF ObjectsAreInOrder
    <3>2. \A j \in 1..(k - 1) : objects'[i][j] = objects[i][j]
      BY <1>4, <1>5, <2>1
    <3> QED BY <3>1, <3>2
  <2>2. CASE k \notin 1..n
    <3>1. k - n \in 1..m /\ n + (k - n) = k
      BY <1>3, <1>4, <2>2
    <3>2. s[k - n] \in kept /\ objects'[i][k].id = s[k - n].id
      <4>1. s[k - n] \in kept /\ Made(s)[k - n].id = s[k - n].id
        BY <1>3, <3>1
      <4>2. objects'[i][n + (k - n)] = Made(s)[k - n]
        BY <1>5, <3>1
      <4> HIDE DEF kept, n, m
      <4> QED BY <3>1, <4>1, <4>2
    <3>3. x = s[k - n]
      BY <1>1, <3>2, HistoryType
    <3>4. x.table = table
      BY <3>2, <3>3 DEF RowsOf
    <3>5. PICK y \in Written(before[i]) : y.id = id
      BY DEF RowIds
    <3>6. x.table \in {"promotion_receipts", "memory_records"} /\ y.table = "evidence_manifests"
      BY <1>8, <3>5, HistoryType
    <3>7. next[i] > 2
      BY <1>6, <3>4, <3>6 DEF ImportOrder
    <3>8. id \in LedgerIds \cup Held(i)
      BY <3>5, <3>6, <3>7 DEF ManifestsAreHeld
    <3>9. \A j \in 1..n : j \in 1..(k - 1) /\ objects'[i][j] = objects[i][j]
      BY <1>3, <1>4, <1>5, <2>2
    <3> QED BY <1>4, <3>8, <3>9 DEF Held
  <2> QED BY <2>1, <2>2
<1> QED BY <1>10, <1>11

\* Adding an object: it was at the head, so what it refers to is stored.
LEMMA AddInOrder ==
  ASSUME TypeOK, NEW i \in Importers, Add(i), ~Stop(i, "failed"),
         OrderIsKept, ReferencesComeFirst
  PROVE  OrderIsKept' /\ ReferencesComeFirst'
<1> DEFINE o == Head(objects[i])
           entry == [id |-> o.id, made |-> o.made, before |-> before[i]]
           n == Len(objects[i])
<1>1. /\ objects[i] \in Seq(Objects) /\ n \in Nat /\ n > 0 /\ DOMAIN objects[i] = 1..n
      /\ o = objects[i][1]
      /\ DOMAIN Tail(objects[i]) = 1..(n - 1)
      /\ \A k \in 1..(n - 1) : Tail(objects[i])[k] = objects[i][k + 1]
  BY DEF Add, TypeOK
<1>2. /\ ledger' = IF StoredIn(o) = {} THEN Append(ledger, entry) ELSE ledger
      /\ objects' = [objects EXCEPT ![i] = Tail(@)]
      /\ UNCHANGED <<history, pc, next, before>>
  BY DEF Add
<1>3. ledger \in Seq(Entries) /\ Len(ledger) \in Nat /\ DOMAIN ledger = 1..Len(ledger)
  BY LenProperties DEF TypeOK, Entries
<1>4. ASSUME StoredIn(o) = {}
      PROVE  ReferencesComeFirst' /\ LedgerIds \subseteq LedgerIds' /\ o.id \in LedgerIds'
  <2>1. /\ ledger' = Append(ledger, entry)
        /\ DOMAIN ledger' = 1..(Len(ledger) + 1)
        /\ \A k \in 1..Len(ledger) : ledger'[k] = ledger[k]
        /\ ledger'[Len(ledger) + 1] = entry
    <3> HIDE DEF entry, o
    <3> QED BY <1>2, <1>3, <1>4
  <2>2. LedgerIds \subseteq LedgerIds' /\ o.id \in LedgerIds'
    BY <1>3, <2>1 DEF LedgerIds
  <2>3. ReferencesComeFirst'
    <3>0. history' = history /\ DOMAIN ledger' = 1..(Len(ledger) + 1)
      BY <1>2, <2>1
    <3> SUFFICES ASSUME NEW k \in 1..(Len(ledger) + 1), NEW x \in Range(history),
                        x.id = ledger'[k].id, NEW id \in x.needs \cap RowIds(ledger'[k].before)
                 PROVE  \E j \in 1..(k - 1) : ledger'[j].id = id
      <4> HIDE DEF o, entry
      <4> QED BY <3>0 DEF ReferencesComeFirst, RowIds, Written
    <3>1. CASE k \in 1..Len(ledger)
      <4>1. \E j \in 1..(k - 1) : ledger[j].id = id
        BY <1>3, <2>1, <3>1 DEF ReferencesComeFirst
      <4>2. \A j \in 1..(k - 1) : ledger'[j] = ledger[j]
        BY <1>3, <2>1, <3>1
      <4> QED BY <4>1, <4>2
    <3>2. CASE k = Len(ledger) + 1
      <4>1. x.id = objects[i][1].id /\ id \in x.needs \cap RowIds(before[i])
        BY <1>1, <2>1, <3>2
      <4>2. id \in LedgerIds \/ \E j \in 1..(1 - 1) : objects[i][j].id = id
        BY <1>1, <4>1 DEF OrderIsKept, ObjectsAreInOrder
      <4>3. PICK j \in 1..Len(ledger) : ledger[j].id = id
        BY <1>3, <4>2 DEF LedgerIds
      <4> QED BY <1>3, <2>1, <3>2, <4>3
    <3> QED BY <1>3, <3>1, <3>2
  <2> QED BY <2>2, <2>3
<1>5. ASSUME StoredIn(o) # {}
      PROVE  ReferencesComeFirst' /\ LedgerIds \subseteq LedgerIds' /\ o.id \in LedgerIds'
  <2>1. ledger' = ledger
    BY <1>2, <1>5
  <2>2. ReferencesComeFirst' /\ LedgerIds' = LedgerIds
    BY <1>2, <2>1, SameLedger
  <2>3. o.id \in LedgerIds
    BY <1>5 DEF StoredIn, LedgerIds
  <2> QED BY <2>2, <2>3
<1>6. ReferencesComeFirst' /\ LedgerIds \subseteq LedgerIds' /\ o.id \in LedgerIds'
  BY <1>4, <1>5
<1>7. objects'[i] = Tail(objects[i]) /\ \A j \in Importers : j # i => objects'[j] = objects[j]
  BY <1>2 DEF TypeOK
<1>8. RowIds(before[i])' = RowIds(before[i]) /\ Written(before[i])' = Written(before[i])
  BY <1>2 DEF RowIds, Written
<1>9. Held(i) \subseteq Held(i)' \cup {o.id}
  <2> SUFFICES ASSUME NEW k \in 1..n, k # 1 PROVE objects[i][k].id \in Held(i)'
    BY <1>1 DEF Held
  <2>1. k - 1 \in 1..(n - 1) /\ (k - 1) + 1 = k
    BY <1>1
  <2>2. objects'[i][k - 1] = objects[i][k]
    BY <1>1, <1>7, <2>1
  <2> QED BY <1>1, <1>7, <2>1, <2>2 DEF Held
<1>10. ManifestsAreHeld(i)'
  BY <1>2, <1>6, <1>8, <1>9 DEF OrderIsKept, ManifestsAreHeld
<1>11. ObjectsAreInOrder(i)'
  <2> SUFFICES ASSUME NEW k \in 1..(n - 1), NEW x \in Range(history),
                      x.id = objects[i][k + 1].id, NEW id \in x.needs \cap RowIds(before[i])
               PROVE  id \in LedgerIds' \/ \E j \in 1..(k - 1) : objects'[i][j].id = id
    <3>1. DOMAIN objects'[i] = 1..(n - 1) /\ \A k \in 1..(n - 1) : objects'[i][k] = objects[i][k + 1]
      BY <1>1, <1>7
    <3>2. history' = history
      BY <1>2
    <3> HIDE DEF o, n
    <3> QED BY <1>8, <3>1, <3>2 DEF ObjectsAreInOrder
  <2>1. k + 1 \in 1..n /\ (k + 1) - 1 = k
    BY <1>1
  <2>2. id \in LedgerIds \/ \E j \in 1..k : objects[i][j].id = id
    BY <1>1, <2>1 DEF OrderIsKept, ObjectsAreInOrder
  <2>3. CASE id \in LedgerIds
    BY <1>6, <2>3
  <2>4. ASSUME NEW j \in 1..k, objects[i][j].id = id
        PROVE  id \in LedgerIds' \/ \E l \in 1..(k - 1) : objects'[i][l].id = id
    <3>1. CASE j = 1
      BY <1>1, <1>6, <2>4, <3>1
    <3>2. CASE j # 1
      <4>1. j - 1 \in 1..(k - 1) /\ j - 1 \in 1..(n - 1) /\ (j - 1) + 1 = j
        BY <1>1, <3>2
      <4>2. objects'[i][j - 1] = objects[i][j]
        BY <1>1, <1>7, <4>1
      <4> QED BY <2>4, <4>1, <4>2
    <3> QED BY <3>1, <3>2
  <2> QED BY <2>2, <2>3, <2>4
<1>12. ASSUME NEW j \in Importers, j # i PROVE ManifestsAreHeld(j)' /\ ObjectsAreInOrder(j)'
  BY <1>2, <1>6, <1>7, <1>12, OthersKept DEF OrderIsKept
<1> QED BY <1>6, <1>10, <1>11, <1>12 DEF OrderIsKept

\* The end of an import takes its objects with it.
LEMMA EndInOrder ==
  ASSUME TypeOK, NEW i \in Importers, NEW how, End(i, how), UNCHANGED <<history, ledger>>,
         OrderIsKept, ReferencesComeFirst
  PROVE  OrderIsKept' /\ ReferencesComeFirst'
<1>1. ReferencesComeFirst' /\ LedgerIds' = LedgerIds
  BY SameLedger
<1>2. objects'[i] = <<>> /\ pc'[i] = "idle"
  BY DEF End, TypeOK
<1>3. ManifestsAreHeld(i)' /\ ObjectsAreInOrder(i)'
  BY <1>2 DEF ManifestsAreHeld, ObjectsAreInOrder
<1>4. ASSUME NEW j \in Importers, j # i PROVE ManifestsAreHeld(j)' /\ ObjectsAreInOrder(j)'
  <2>1. pc'[j] = pc[j] /\ next'[j] = next[j] /\ before'[j] = before[j] /\ objects'[j] = objects[j]
    BY <1>4 DEF End, TypeOK
  <2> QED BY <1>1, <2>1, OthersKept DEF OrderIsKept
<1> QED BY <1>1, <1>3, <1>4 DEF OrderIsKept

\* The order of the reads and of the appends is kept by every step.
LEMMA NextInOrder ==
  TypeOK /\ OrderIsKept /\ ReferencesComeFirst /\ [Next]_vars => OrderIsKept' /\ ReferencesComeFirst'
<1> SUFFICES ASSUME TypeOK, OrderIsKept, ReferencesComeFirst, [Next]_vars
             PROVE  OrderIsKept' /\ ReferencesComeFirst'
  OBVIOUS
<1>1. ASSUME UNCHANGED <<history, ledger, pc, next, before, objects>>
      PROVE  OrderIsKept' /\ ReferencesComeFirst'
  <2>1. ReferencesComeFirst' /\ LedgerIds' = LedgerIds
    BY <1>1, SameLedger
  <2>2. ASSUME NEW j \in Importers PROVE ManifestsAreHeld(j)' /\ ObjectsAreInOrder(j)'
    BY <1>1, <2>1, OthersKept DEF OrderIsKept
  <2> QED BY <2>1, <2>2 DEF OrderIsKept
<1>2. CASE Write
  BY <1>1, <1>2 DEF Write, importer
<1>3. CASE Tick
  BY <1>1, <1>3 DEF Tick, importer
<1>4. ASSUME NEW i \in Importers, NEW run \in Filters, Begin(i, run)
      PROVE  OrderIsKept' /\ ReferencesComeFirst'
  <2>1. ReferencesComeFirst' /\ LedgerIds' = LedgerIds
    BY <1>4, SameLedger DEF Begin
  <2>2. objects'[i] = <<>> /\ next'[i] = 1
    BY <1>4 DEF Begin, TypeOK
  <2>3. ManifestsAreHeld(i)' /\ ObjectsAreInOrder(i)'
    BY <2>2 DEF ManifestsAreHeld, ObjectsAreInOrder
  <2>4. ASSUME NEW j \in Importers, j # i PROVE ManifestsAreHeld(j)' /\ ObjectsAreInOrder(j)'
    <3>1. /\ pc'[j] = pc[j] /\ next'[j] = next[j] /\ before'[j] = before[j]
          /\ objects'[j] = objects[j] /\ history' = history
      BY <1>4, <2>4 DEF Begin, TypeOK
    <3> QED BY <2>1, <3>1, OthersKept DEF OrderIsKept
  <2> QED BY <2>1, <2>3, <2>4 DEF OrderIsKept
<1>5. ASSUME NEW i \in Importers, NEW how, Stop(i, how)
      PROVE  OrderIsKept' /\ ReferencesComeFirst'
  BY <1>5, EndInOrder DEF Stop
<1>6. ASSUME NEW i \in Importers, ReadTable(i) PROVE OrderIsKept' /\ ReferencesComeFirst'
  <2>1. CASE Stop(i, "failed")
    BY <1>5, <2>1
  <2>2. CASE Keep(i, {x \in RowsOf(ImportOrder[next[i]]) : Admitted(x, filter[i])})
    <3>1. ReferencesComeFirst' /\ LedgerIds' = LedgerIds
      BY <2>2, SameLedger DEF Keep
    <3>2. ManifestsAreHeld(i)' /\ ObjectsAreInOrder(i)'
      BY <1>6, <2>2, KeepInOrder DEF ReadTable, OrderIsKept
    <3>3. ASSUME NEW j \in Importers, j # i PROVE ManifestsAreHeld(j)' /\ ObjectsAreInOrder(j)'
      <4>1. /\ pc'[j] = pc[j] /\ next'[j] = next[j] /\ before'[j] = before[j]
            /\ objects'[j] = objects[j] /\ history' = history
        BY <2>2, <3>3 DEF Keep, TypeOK
      <4> QED BY <3>1, <4>1, OthersKept DEF OrderIsKept
    <3> QED BY <3>1, <3>2, <3>3 DEF OrderIsKept
  <2> QED BY <1>6, <2>1, <2>2 DEF ReadTable
<1>7. ASSUME NEW i \in Importers, Add(i) PROVE OrderIsKept' /\ ReferencesComeFirst'
  BY <1>5, <1>7, AddInOrder
<1>8. ASSUME NEW i \in Importers, Return(i) PROVE OrderIsKept' /\ ReferencesComeFirst'
  BY <1>8, EndInOrder DEF Return
<1>9. CASE UNCHANGED vars
  BY <1>1, <1>9 DEF vars, importer
<1> QED BY <1>2, <1>3, <1>4, <1>5, <1>6, <1>7, <1>8, <1>9 DEF Next, Work, Break

\* Whatever is written meanwhile, and wherever imports stop: a receipt or memory
\* record is never stored before a row it refers to that was there when its
\* import began (import_state and import_oawm).
THEOREM ReferencesAreFirst == Spec => []ReferencesComeFirst
<1> DEFINE IInv == TypeOK /\ OrderIsKept /\ ReferencesComeFirst
<1>1. Init => IInv
  <2>1. Init => OrderIsKept /\ ReferencesComeFirst
    BY DEF Init, OrderIsKept, ManifestsAreHeld, ObjectsAreInOrder, ReferencesComeFirst
  <2> QED BY <2>1, InitTyped
<1>2. IInv /\ [Next]_vars => IInv'
  BY NextTyped, NextInOrder
<1>3. IInv => ReferencesComeFirst
  OBVIOUS
<1> QED BY <1>1, <1>2, <1>3, PTL DEF Spec

----------------------------------------------------------------------------
(* The write-once ledger                                                   *)

\* An object is stored with its very content.
Stored(o) == \E k \in DOMAIN ledger : ledger[k].id = o.id /\ ledger[k].made = o.made

\* No id twice; what an import has added, and what it has returned, is stored.
LedgerIsKept ==
  /\ \A j, k \in DOMAIN ledger : ledger[j].id = ledger[k].id => j = k
  /\ \A i \in Importers : \A o \in added[i] : Stored(o)
  /\ \A o \in acked : Stored(o)

\* A step leaves the ledger alone or puts one entry under a fresh id at its end.
LedgerStep ==
  \/ ledger' = ledger
  \/ \E e \in Entries : ledger' = Append(ledger, e) /\ \A k \in DOMAIN ledger : ledger[k].id # e.id

\* Every step is such a step.
LEMMA LedgerGrows ==
  ASSUME TypeOK, [Next]_vars
  PROVE  LedgerStep
<1>1. ASSUME NEW i \in Importers, Add(i), ~Stop(i, "failed") PROVE LedgerStep
  <2> DEFINE o == Head(objects[i])
             entry == [id |-> o.id, made |-> o.made, before |-> before[i]]
  <2>1. o \in Objects
    BY <1>1, HeadTailProperties DEF Add, TypeOK
  <2>2. entry \in Entries
    BY <2>1, HistoryType DEF Entries, Objects, TypeOK
  <2>3. ledger' = IF StoredIn(o) = {} THEN Append(ledger, entry) ELSE ledger
    BY <1>1 DEF Add
  <2>4. StoredIn(o) = {} => \A k \in DOMAIN ledger : ledger[k].id # o.id
    BY DEF StoredIn
  <2>5. entry.id = o.id
    OBVIOUS
  <2> HIDE DEF o, entry
  <2> QED BY <2>2, <2>3, <2>4, <2>5 DEF LedgerStep
<1>2. ASSUME NEW i \in Importers, Add(i), Stop(i, "failed") PROVE LedgerStep
  BY <1>2 DEF Stop, LedgerStep
<1> QED BY <1>1, <1>2 DEF Next, Work, Write, Tick, Begin, ReadTable, Keep, Return, Break,
                          Stop, vars, LedgerStep

\* What such a step does to the ledger.
LEMMA LedgerStepExtends ==
  ASSUME TypeOK, LedgerStep
  PROVE  /\ Len(ledger) \in Nat /\ DOMAIN ledger = 1..Len(ledger) /\ Len(ledger') \in Nat
         /\ DOMAIN ledger' = 1..Len(ledger') /\ Len(ledger) <= Len(ledger')
         /\ \A k \in DOMAIN ledger : k \in DOMAIN ledger' /\ ledger'[k] = ledger[k]
         /\ \A j \in DOMAIN ledger' : j \notin DOMAIN ledger =>
              j = Len(ledger) + 1 /\ \A k \in DOMAIN ledger : ledger[k].id # ledger'[j].id
<1>1. ledger \in Seq(Entries)
  BY DEF TypeOK, Entries
<1>2. Len(ledger) \in Nat /\ DOMAIN ledger = 1..Len(ledger)
  BY <1>1, LenProperties
<1>3. CASE ledger' = ledger
  BY <1>2, <1>3
<1>4. ASSUME NEW e \in Entries, ledger' = Append(ledger, e), \A k \in DOMAIN ledger : ledger[k].id # e.id
      PROVE  /\ Len(ledger') = Len(ledger) + 1 /\ DOMAIN ledger' = 1..(Len(ledger) + 1)
             /\ \A k \in DOMAIN ledger : ledger'[k] = ledger[k]
             /\ ledger'[Len(ledger) + 1] = e
  BY <1>1, <1>4, AppendProperties
<1>5. ASSUME NEW e \in Entries, ledger' = Append(ledger, e), \A k \in DOMAIN ledger : ledger[k].id # e.id
      PROVE  /\ Len(ledger') \in Nat
             /\ DOMAIN ledger' = 1..Len(ledger') /\ Len(ledger) <= Len(ledger')
             /\ \A k \in DOMAIN ledger : k \in DOMAIN ledger' /\ ledger'[k] = ledger[k]
             /\ \A j \in DOMAIN ledger' : j \notin DOMAIN ledger =>
                  j = Len(ledger) + 1 /\ \A k \in DOMAIN ledger : ledger[k].id # ledger'[j].id
  <2>1. /\ Len(ledger') = Len(ledger) + 1 /\ DOMAIN ledger' = 1..(Len(ledger) + 1)
        /\ \A k \in DOMAIN ledger : ledger'[k] = ledger[k]
        /\ ledger'[Len(ledger) + 1] = e
    BY <1>4, <1>5
  <2>2. \A j \in DOMAIN ledger' : j \notin DOMAIN ledger => j = Len(ledger) + 1
    BY <1>2, <2>1
  <2> QED BY <1>2, <1>5, <2>1, <2>2
<1> QED BY <1>2, <1>3, <1>5 DEF LedgerStep

\* Objects are added only when they are stored, and returned only when added.
LEMMA NextKeepsLedger ==
  ASSUME TypeOK, LedgerIsKept, [Next]_vars
  PROVE  LedgerIsKept'
<1>1. LedgerStep
  BY LedgerGrows
<1>2. \A o : Stored(o) => Stored(o)'
  BY <1>1, LedgerStepExtends DEF Stored
<1>3. ASSUME NEW j \in DOMAIN ledger', NEW k \in DOMAIN ledger', ledger'[j].id = ledger'[k].id
      PROVE  j = k
  <2>1. CASE j \in DOMAIN ledger /\ k \in DOMAIN ledger
    BY <1>1, <1>3, <2>1, LedgerStepExtends DEF LedgerIsKept
  <2>2. CASE j \notin DOMAIN ledger \/ k \notin DOMAIN ledger
    BY <1>1, <1>3, <2>2, LedgerStepExtends
  <2> QED BY <2>1, <2>2
<1>4. ASSUME NEW i \in Importers, Add(i), ~Stop(i, "failed")
      PROVE  /\ \A j \in Importers : \A o \in added'[j] : Stored(o)'
             /\ \A o \in acked' : Stored(o)'
  <2>0. PICK o : o = Head(objects[i])
    OBVIOUS
  <2>1. /\ StoredIn(o) = SameIn(o) /\ added' = [added EXCEPT ![i] = @ \cup {o}] /\ acked' = acked
        /\ ledger' = IF StoredIn(o) = {}
                     THEN Append(ledger, [id |-> o.id, made |-> o.made, before |-> before[i]])
                     ELSE ledger
    BY <1>4, <2>0 DEF Add
  <2>2. Stored(o)'
    <3>1. CASE StoredIn(o) = {}
      <4> DEFINE entry == [id |-> o.id, made |-> o.made, before |-> before[i]]
      <4>1. ledger' = Append(ledger, entry) /\ entry.id = o.id /\ entry.made = o.made
        BY <2>1, <3>1
      <4> HIDE DEF entry
      <4>2. ledger \in Seq(Entries)
        BY DEF TypeOK, Entries
      <4>3. entry \in Entries
        <5>1. o \in Objects
          BY <1>4, <2>0, HeadTailProperties DEF Add, TypeOK
        <5> QED BY <5>1, HistoryType DEF entry, Entries, Objects, TypeOK
      <4>4. Len(ledger) + 1 \in DOMAIN ledger' /\ ledger'[Len(ledger) + 1] = entry
        BY <4>1, <4>2, <4>3, AppendProperties, LenProperties
      <4> QED BY <4>1, <4>4 DEF Stored
    <3>2. CASE StoredIn(o) # {}
      <4>1. ledger' = ledger
        BY <2>1, <3>2
      <4>2. Stored(o)
        BY <2>1, <3>2 DEF Stored, SameIn, StoredIn
      <4> QED BY <4>1, <4>2, <1>2
    <3> QED BY <3>1, <3>2
  <2>3. \A j \in Importers : added'[j] \subseteq added[j] \cup {o}
    BY <2>1 DEF TypeOK
  <2> QED BY <1>2, <2>1, <2>2, <2>3 DEF LedgerIsKept
<1>5. ASSUME NEW i \in Importers, NEW how, End(i, how), acked' \subseteq acked \cup added[i]
      PROVE  /\ \A j \in Importers : \A o \in added'[j] : Stored(o)'
             /\ \A o \in acked' : Stored(o)'
  <2>1. \A j \in Importers : added'[j] \subseteq added[j]
    BY <1>5 DEF End, TypeOK
  <2> QED BY <1>2, <1>5, <2>1 DEF LedgerIsKept
<1>6. ASSUME added' = added, acked' = acked
      PROVE  /\ \A j \in Importers : \A o \in added'[j] : Stored(o)'
             /\ \A o \in acked' : Stored(o)'
  BY <1>2, <1>6 DEF LedgerIsKept
<1>7. /\ \A j \in Importers : \A o \in added'[j] : Stored(o)'
      /\ \A o \in acked' : Stored(o)'
  <2>1. ASSUME NEW i \in Importers, NEW how, Stop(i, how)
        PROVE  /\ \A j \in Importers : \A o \in added'[j] : Stored(o)'
               /\ \A o \in acked' : Stored(o)'
    BY <1>5, <2>1 DEF Stop
  <2>2. ASSUME NEW i \in Importers, Work(i)
        PROVE  /\ \A j \in Importers : \A o \in added'[j] : Stored(o)'
               /\ \A o \in acked' : Stored(o)'
    BY <1>4, <1>5, <1>6, <2>1, <2>2 DEF Work, ReadTable, Keep, Return
  <2> QED BY <1>6, <2>1, <2>2 DEF Next, Write, Tick, Begin, Break, importer, vars
<1> QED BY <1>3, <1>7 DEF LedgerIsKept

\* The ledger as the abstract store sees it.
StoreRows == [k \in DOMAIN ledger |-> [id |-> ledger[k].id, body |-> ledger[k].made]]
StoreAnswers == {[table |-> "evidence", id |-> o.id, body |-> o.made, seq |-> 0] : o \in acked}

\* Such a step adds rows at the end, under fresh ids.
LEMMA StepExtends ==
  ASSUME TypeOK, TypeOK', LedgerStep, LedgerIsKept'
  PROVE  Ledger!Extend
<1>1. ledger \in Seq(Entries) /\ ledger' \in Seq(Entries')
  BY DEF TypeOK, Entries
<1>2. /\ Len(ledger) \in Nat /\ Len(ledger') \in Nat /\ Len(ledger) <= Len(ledger')
      /\ DOMAIN ledger = 1..Len(ledger) /\ DOMAIN ledger' = 1..Len(ledger')
      /\ \A k \in 1..Len(ledger) : ledger'[k] = ledger[k]
  BY LedgerStepExtends
<1> DEFINE D == [id : STRING, body : 0..MaxTime]
<1>3. StoreRows \in Seq(D) /\ Len(StoreRows) = Len(ledger)
  <2>1. ASSUME NEW k \in 1..Len(ledger)
        PROVE  [id |-> ledger[k].id, body |-> ledger[k].made] \in D
    <3>1. ledger[k] \in Entries
      BY <1>1, <1>2, ElementOfSeq
    <3> QED BY <3>1 DEF Entries
  <2> HIDE DEF D
  <2>2. StoreRows \in [1..Len(ledger) -> D]
    BY <1>2, <2>1 DEF StoreRows
  <2> QED BY <1>2, <2>2
<1>4. StoreRows' \in Seq(D) /\ Len(StoreRows') = Len(ledger')
  <2>1. ASSUME NEW k \in 1..Len(ledger')
        PROVE  [id |-> ledger'[k].id, body |-> ledger'[k].made] \in D
    <3>1. ledger'[k] \in Entries'
      BY <1>1, <1>2, ElementOfSeq
    <3> QED BY <3>1 DEF Entries
  <2> HIDE DEF D
  <2>2. StoreRows' \in [1..Len(ledger') -> D]
    BY <1>2, <2>1 DEF StoreRows
  <2> QED BY <1>2, <2>2
<1>5. \A k \in 1..Len(ledger) : StoreRows'[k] = StoreRows[k]
  <2>1. \A k \in 1..Len(ledger) : k \in 1..Len(ledger')
    BY <1>2
  <2> QED BY <1>2, <2>1 DEF StoreRows
<1>6. SubSeq(StoreRows, 1, Len(StoreRows)) = SubSeq(StoreRows', 1, Len(StoreRows))
  <2> HIDE DEF D
  <2> QED BY <1>2, <1>3, <1>4, <1>5, SubSeqProperties
<1>7. Ledger!IsPrefix(StoreRows, StoreRows')
  BY <1>2, <1>3, <1>4, <1>6 DEF Ledger!IsPrefix
<1>8. Ledger!UniqueIds(StoreRows')
  <2>1. \A j \in DOMAIN ledger' : StoreRows'[j].id = ledger'[j].id
    BY DEF StoreRows
  <2>2. DOMAIN StoreRows' = DOMAIN ledger'
    BY DEF StoreRows
  <2> QED BY <2>1, <2>2 DEF Ledger!UniqueIds, LedgerIsKept
<1>9. ([evidence |-> StoreRows])["evidence"] = StoreRows /\ ([evidence |-> StoreRows]')["evidence"] = StoreRows'
  OBVIOUS
<1> QED BY <1>7, <1>8, <1>9 DEF Ledger!Extend, StoreRows

\* What is returned is stored, and is never taken back.
LEMMA StepAnswers ==
  ASSUME TypeOK, [Next]_vars, LedgerIsKept'
  PROVE  Ledger!Answer
<1>1. acked \subseteq acked'
  BY DEF Next, Write, Tick, Work, Begin, Break, ReadTable, Keep, Add, Stop, Return, vars
<1>2. ASSUME NEW o \in acked'
      PROVE  Ledger!Backed([evidence |-> StoreRows]',
                           [table |-> "evidence", id |-> o.id, body |-> o.made, seq |-> 0])
  <2>1. PICK k \in DOMAIN ledger' : ledger'[k].id = o.id /\ ledger'[k].made = o.made
    BY <1>2 DEF LedgerIsKept, Stored
  <2>2. k \in DOMAIN StoreRows' /\ StoreRows'[k] = [id |-> o.id, body |-> o.made]
    BY <2>1 DEF StoreRows
  <2> QED BY <2>2 DEF Ledger!Backed
<1>3. StoreAnswers \subseteq StoreAnswers'
  BY <1>1 DEF StoreAnswers
<1>4. \A a \in StoreAnswers' : Ledger!Backed([evidence |-> StoreRows]', a)
  BY <1>2 DEF StoreAnswers
<1> QED BY <1>3, <1>4 DEF Ledger!Answer, StoreAnswers, StoreRows

\* Concurrent, broken and repeated imports implement the write-once ledger: the
\* evidence table only grows, under fresh ids, and what an import returned as
\* stored is stored for good (import_oawm, add_evidence).
THEOREM ImportImplementsLedger == Spec => ImportsKeepLedger
<1>1. Init => TypeOK /\ LedgerIsKept /\ Ledger!Init
  <2> SUFFICES ASSUME Init PROVE TypeOK /\ LedgerIsKept /\ Ledger!Init
    OBVIOUS
  <2>1. ledger = <<>> /\ acked = {} /\ \A i \in Importers : added[i] = {}
    BY DEF Init
  <2>2. LedgerIsKept
    BY <2>1 DEF LedgerIsKept
  <2>3. StoreRows = <<>> /\ StoreAnswers = {}
    BY <2>1 DEF StoreRows, StoreAnswers
  <2>4. [evidence |-> StoreRows] = [t \in {"evidence"} |-> <<>>]
    BY <2>3
  <2> QED BY <2>2, <2>3, <2>4, InitTyped DEF Ledger!Init, StoreRows, StoreAnswers
<1>2. TypeOK /\ LedgerIsKept /\ [Next]_vars => (TypeOK /\ LedgerIsKept)' /\ [Ledger!Next]_(Ledger!vars)
  <2> SUFFICES ASSUME TypeOK, LedgerIsKept, [Next]_vars
               PROVE  (TypeOK /\ LedgerIsKept)' /\ Ledger!Next
    OBVIOUS
  <2>1. (TypeOK /\ LedgerIsKept)'
    BY NextTyped, NextKeepsLedger
  <2>2. Ledger!Extend /\ Ledger!Answer
    BY <2>1, LedgerGrows, StepExtends, StepAnswers
  <2> QED BY <2>1, <2>2 DEF Ledger!Next
<1> QED BY <1>1, <1>2, PTL DEF Spec, ImportsKeepLedger, Ledger!Spec

----------------------------------------------------------------------------
(* Outcomes                                                                *)

\* The ids of the objects an importer has made, added or not.
Taken(i) == Held(i) \cup {o.id : o \in added[i]}

\* All of them are of rows it may admit, and every row that was there when it
\* began and may be admitted is among them, table by table.
OnlyAdmitted(i) ==
  \A id \in Taken(i) : \E x \in Written(written) : x.id = id /\ Admitted(x, filter[i])

TablesAreTaken(i) ==
  \A x \in Written(before[i]) :
    Admitted(x, filter[i]) /\ (\E k \in 1..(next[i] - 1) : x.table = ImportOrder[k]) =>
      x.id \in Taken(i)

ImportIsExact(i) ==
  pc[i] # "idle" =>
    OnlyAdmitted(i) /\ TablesAreTaken(i) /\ (pc[i] = "store" => next[i] = Len(ImportOrder) + 1)

ImportsAreExact == \A i \in Importers : ImportIsExact(i)

\* What an importer has taken stays right while others go on.
LEMMA OthersStayExact ==
  ASSUME NEW i \in Importers, ImportIsExact(i),
         history' = history, Written(written) \subseteq Written(written)',
         pc'[i] = pc[i], next'[i] = next[i], before'[i] = before[i], filter'[i] = filter[i],
         objects'[i] = objects[i], added'[i] = added[i]
  PROVE  ImportIsExact(i)'
<1>1. Taken(i)' = Taken(i)
  BY DEF Taken, Held
<1>2. Written(before[i])' = Written(before[i])
  BY DEF Written
<1>3. \A x : Admitted(x, filter[i])' <=> Admitted(x, filter[i])
  BY DEF Admitted
<1>4. OnlyAdmitted(i) => OnlyAdmitted(i)'
  BY <1>1, <1>3 DEF OnlyAdmitted
<1>5. TablesAreTaken(i) => TablesAreTaken(i)'
  BY <1>1, <1>2, <1>3 DEF TablesAreTaken
<1> QED BY <1>4, <1>5 DEF ImportIsExact

\* More rows are written, and none is lost.
LEMMA WrittenGrows ==
  ASSUME TypeOK, history' = history, written' \in {written, written + 1}
  PROVE  Written(written) \subseteq Written(written)'
<1>1. written \in Nat
  BY HistoryType
<1>2. 1..written \subseteq 1..written'
  BY <1>1
<1> QED BY <1>2 DEF Written

\* Reading a table takes exactly the rows of it that may be admitted.
LEMMA KeepIsExact ==
  ASSUME TypeOK, NEW i \in Importers, pc[i] = "read", ImportIsExact(i),
         Keep(i, {x \in RowsOf(ImportOrder[next[i]]) : Admitted(x, filter[i])})
  PROVE  ImportIsExact(i)'
<1> DEFINE table == ImportOrder[next[i]]
           kept == {x \in RowsOf(table) : Admitted(x, filter[i])}
           n == Len(objects[i])
<1>1. kept \subseteq Range(history) /\ kept \subseteq Rows
  <2>1. written \in 0..written
    BY HistoryType
  <2> QED BY <2>1, WrittenType DEF RowsOf
<1>2. PICK s \in Listings(kept) : objects' = [objects EXCEPT ![i] = @ \o Made(s)]
  BY DEF Keep
<1> DEFINE m == Len(Made(s))
<1>3. /\ Made(s) \in Seq(Objects) /\ m \in Nat
      /\ \A k \in 1..m : s[k] \in kept /\ Made(s)[k].id = s[k].id
      /\ \A x \in kept : \E k \in 1..m : s[k] = x
  <2> HIDE DEF kept
  <2>1. /\ Made(s) \in Seq(Objects) /\ m \in Nat
        /\ \A k \in 1..m : s[k] \in kept /\ Made(s)[k] = [id |-> s[k].id, made |-> clock]
        /\ \A x \in kept : \E k \in 1..m : s[k] = x
    BY <1>1, ListingType
  <2> HIDE DEF m
  <2>2. ASSUME NEW k \in 1..m PROVE Made(s)[k].id = s[k].id
    <3>1. Made(s)[k] = [id |-> s[k].id, made |-> clock]
      BY <2>1
    <3> QED BY <3>1
  <2> QED BY <2>1, <2>2
<1>4. /\ objects[i] \in Seq(Objects) /\ n \in Nat /\ DOMAIN objects[i] = 1..n
      /\ objects'[i] = objects[i] \o Made(s)
  BY <1>2, LenProperties DEF TypeOK
<1>5. /\ DOMAIN objects'[i] = 1..(n + m)
      /\ \A k \in 1..n : objects'[i][k] = objects[i][k]
      /\ \A k \in 1..m : objects'[i][n + k] = Made(s)[k]
  <2> HIDE DEF kept
  <2> QED BY <1>3, <1>4
<1>6. /\ next[i] \in 1..5 /\ next'[i] = next[i] + 1 /\ before'[i] = before[i]
      /\ UNCHANGED <<history, written, filter, added>>
      /\ pc'[i] = IF next[i] = Len(ImportOrder) THEN "store" ELSE "read"
      /\ before[i] \in 0..written
  BY DEF Keep, TypeOK, ImportOrder
<1>7. Written(before[i])' = Written(before[i]) /\ Written(written)' = Written(written)
  BY <1>6 DEF Written
<1>8. \A x : Admitted(x, filter[i])' <=> Admitted(x, filter[i])
  BY <1>6 DEF Admitted
<1>9. Written(before[i]) \subseteq Written(written)
  <2>1. 1..before[i] \subseteq 1..written
    BY <1>6, HistoryType
  <2> QED BY <2>1 DEF Written
<1>10. \A id : id \in Held(i)' <=> id \in Held(i) \/ \E x \in kept : x.id = id
  <2>1. ASSUME NEW k \in 1..n PROVE k \in 1..(n + m) /\ objects'[i][k].id = objects[i][k].id
    BY <1>3, <1>4, <1>5, <2>1
  <2>2. ASSUME NEW k \in 1..m PROVE n + k \in 1..(n + m) /\ objects'[i][n + k].id = s[k].id
    <3>1. n + k \in 1..(n + m)
      BY <1>3, <1>4, <2>2
    <3>2. objects'[i][n + k] = Made(s)[k] /\ Made(s)[k].id = s[k].id
      BY <1>3, <1>5, <2>2
    <3> QED BY <3>1, <3>2
  <2>3. \A k \in 1..(n + m) : k \in 1..n \/ \E j \in 1..m : k = n + j
    <3> SUFFICES ASSUME NEW k \in 1..(n + m), k \notin 1..n PROVE k - n \in 1..m /\ k = n + (k - n)
      OBVIOUS
    <3> QED BY <1>3, <1>4
  <2>4. DOMAIN objects'[i] = 1..(n + m) /\ DOMAIN objects[i] = 1..n
    BY <1>4, <1>5
  <2>5. /\ \A k \in 1..m : s[k] \in kept
        /\ \A x \in kept : \E k \in 1..m : s[k] = x
    BY <1>3
  <2> HIDE DEF kept, n, m
  <2>6. ASSUME NEW id \in Held(i)' PROVE id \in Held(i) \/ \E x \in kept : x.id = id
    <3>1. PICK k \in 1..(n + m) : objects'[i][k].id = id
      BY <2>4, <2>6 DEF Held
    <3>2. CASE k \in 1..n
      BY <2>1, <2>4, <3>1, <3>2 DEF Held
    <3>3. ASSUME NEW j \in 1..m, k = n + j PROVE \E x \in kept : x.id = id
      BY <2>2, <2>5, <3>1, <3>3
    <3> QED BY <2>3, <3>2, <3>3
  <2>7. ASSUME NEW id \in Held(i) PROVE id \in Held(i)'
    <3>1. PICK k \in 1..n : objects[i][k].id = id
      BY <2>4, <2>7 DEF Held
    <3> QED BY <2>1, <2>4, <3>1 DEF Held
  <2>8. ASSUME NEW x \in kept PROVE x.id \in Held(i)'
    <3>1. PICK k \in 1..m : s[k] = x
      BY <2>5
    <3> QED BY <2>2, <2>4, <3>1 DEF Held
  <2> QED BY <2>6, <2>7, <2>8
<1>11. \A id : id \in Taken(i)' <=> id \in Taken(i) \/ \E x \in kept : x.id = id
  BY <1>6, <1>10 DEF Taken
<1>12. OnlyAdmitted(i)'
  <2> SUFFICES ASSUME NEW id \in Taken(i)'
               PROVE  \E x \in Written(written) : x.id = id /\ Admitted(x, filter[i])
    BY <1>7, <1>8 DEF OnlyAdmitted
  <2>1. CASE id \in Taken(i)
    BY <2>1 DEF ImportIsExact, OnlyAdmitted
  <2>2. CASE \E x \in kept : x.id = id
    BY <2>2 DEF RowsOf
  <2> QED BY <1>11, <2>1, <2>2
<1>13. TablesAreTaken(i)'
  <2> SUFFICES ASSUME NEW x \in Written(before[i]), Admitted(x, filter[i]),
                      NEW k \in 1..next[i], x.table = ImportOrder[k]
               PROVE  x.id \in Taken(i)'
    <3>1. next'[i] - 1 = next[i]
      BY <1>6
    <3> QED BY <1>7, <1>8, <3>1 DEF TablesAreTaken
  <2>1. CASE k = next[i]
    <3>1. x \in kept
      BY <1>9, <2>1 DEF RowsOf
    <3> QED BY <1>11, <3>1
  <2>2. CASE k # next[i]
    <3>1. k \in 1..(next[i] - 1)
      BY <1>6, <2>2
    <3>2. x.id \in Taken(i)
      BY <3>1 DEF ImportIsExact, TablesAreTaken
    <3> QED BY <1>11, <3>2
  <2> QED BY <2>1, <2>2
<1>14. pc'[i] = "store" => next'[i] = Len(ImportOrder) + 1
  BY <1>6
<1> QED BY <1>12, <1>13, <1>14 DEF ImportIsExact

\* Adding an object moves it from one list to the other.
LEMMA AddIsExact ==
  ASSUME TypeOK, NEW i \in Importers, Add(i), ~Stop(i, "failed"), ImportIsExact(i)
  PROVE  ImportIsExact(i)'
<1> DEFINE o == Head(objects[i])
           n == Len(objects[i])
<1>1. /\ objects[i] \in Seq(Objects) /\ n \in Nat /\ n > 0 /\ DOMAIN objects[i] = 1..n
      /\ o = objects[i][1]
      /\ DOMAIN Tail(objects[i]) = 1..(n - 1)
      /\ \A k \in 1..(n - 1) : Tail(objects[i])[k] = objects[i][k + 1]
  BY DEF Add, TypeOK
<1>2. /\ objects'[i] = Tail(objects[i]) /\ added'[i] = added[i] \cup {o}
      /\ UNCHANGED <<history, written, pc, filter, next, before>>
  BY DEF Add, TypeOK
<1> HIDE DEF o, n
<1>3. Held(i) = Held(i)' \cup {o.id}
  <2>1. DOMAIN objects'[i] = 1..(n - 1) /\ \A k \in 1..(n - 1) : objects'[i][k] = objects[i][k + 1]
    BY <1>1, <1>2
  <2>2. ASSUME NEW id \in Held(i), id # o.id PROVE id \in Held(i)'
    <3>1. PICK k \in 1..n : objects[i][k].id = id
      BY <1>1, <2>2 DEF Held
    <3>2. k - 1 \in 1..(n - 1) /\ (k - 1) + 1 = k
      BY <1>1, <2>2, <3>1
    <3>3. objects'[i][k - 1] = objects[i][k]
      BY <2>1, <3>2
    <3> QED BY <2>1, <3>1, <3>2, <3>3 DEF Held
  <2>3. ASSUME NEW id \in Held(i)' PROVE id \in Held(i)
    <3>1. PICK k \in 1..(n - 1) : objects'[i][k].id = id
      BY <2>1, <2>3 DEF Held
    <3>2. k + 1 \in 1..n /\ objects'[i][k] = objects[i][k + 1]
      BY <1>1, <2>1, <3>1
    <3> QED BY <1>1, <3>1, <3>2 DEF Held
  <2>4. o.id \in Held(i)
    <3>1. 1 \in 1..n
      BY <1>1
    <3> QED BY <1>1, <3>1 DEF Held
  <2> QED BY <2>2, <2>3, <2>4
<1>4. Taken(i)' = Taken(i)
  <2>1. {x.id : x \in added[i] \cup {o}} = {x.id : x \in added[i]} \cup {o.id}
    OBVIOUS
  <2>2. Taken(i)' = Held(i)' \cup {x.id : x \in added[i] \cup {o}}
    BY <1>2 DEF Taken
  <2> QED BY <1>3, <2>1, <2>2 DEF Taken
<1>5. Written(before[i])' = Written(before[i]) /\ Written(written)' = Written(written)
  BY <1>2 DEF Written
<1>6. \A x : Admitted(x, filter[i])' <=> Admitted(x, filter[i])
  BY <1>2 DEF Admitted
<1>7. OnlyAdmitted(i) => OnlyAdmitted(i)'
  BY <1>4, <1>5, <1>6 DEF OnlyAdmitted
<1>8. TablesAreTaken(i) => TablesAreTaken(i)'
  BY <1>2, <1>4, <1>5, <1>6 DEF TablesAreTaken
<1> QED BY <1>2, <1>7, <1>8 DEF ImportIsExact

\* Every step keeps what the importers have taken exact.
LEMMA NextIsExact ==
  ASSUME TypeOK, ImportsAreExact, [Next]_vars
  PROVE  ImportsAreExact'
<1>1. ASSUME UNCHANGED <<history, pc, next, before, filter, objects, added>>,
             written' \in {written, written + 1}
      PROVE  ImportsAreExact'
  BY <1>1, WrittenGrows, OthersStayExact DEF ImportsAreExact
<1>2. CASE Write
  BY <1>1, <1>2 DEF Write, importer
<1>3. CASE Tick
  BY <1>1, <1>3 DEF Tick, importer
<1>4. ASSUME NEW i \in Importers, NEW run \in Filters, Begin(i, run) PROVE ImportsAreExact'
  <2>1. objects'[i] = <<>> /\ next'[i] = 1 /\ added'[i] = {} /\ pc'[i] = "read"
    BY <1>4 DEF Begin, TypeOK
  <2>2. Taken(i)' = {}
    BY <2>1 DEF Taken, Held
  <2>3. ImportIsExact(i)'
    BY <2>1, <2>2 DEF ImportIsExact, OnlyAdmitted, TablesAreTaken
  <2>4. ASSUME NEW j \in Importers, j # i PROVE ImportIsExact(j)'
    <3>1. /\ pc'[j] = pc[j] /\ next'[j] = next[j] /\ before'[j] = before[j] /\ filter'[j] = filter[j]
          /\ objects'[j] = objects[j] /\ added'[j] = added[j] /\ history' = history
          /\ written' = written
      BY <1>4, <2>4 DEF Begin, TypeOK
    <3> QED BY <3>1, WrittenGrows, OthersStayExact DEF ImportsAreExact
  <2> QED BY <2>3, <2>4 DEF ImportsAreExact
<1>5. ASSUME NEW i \in Importers, NEW how, End(i, how), UNCHANGED <<history, written>>
      PROVE  ImportsAreExact'
  <2>1. ImportIsExact(i)'
    BY <1>5 DEF End, TypeOK, ImportIsExact
  <2>2. ASSUME NEW j \in Importers, j # i PROVE ImportIsExact(j)'
    <3>1. /\ pc'[j] = pc[j] /\ next'[j] = next[j] /\ before'[j] = before[j] /\ filter'[j] = filter[j]
          /\ objects'[j] = objects[j] /\ added'[j] = added[j]
      BY <1>5, <2>2 DEF End, TypeOK
    <3> QED BY <1>5, <3>1, WrittenGrows, OthersStayExact DEF ImportsAreExact
  <2> QED BY <2>1, <2>2 DEF ImportsAreExact
<1>6. ASSUME NEW i \in Importers, NEW how, Stop(i, how) PROVE ImportsAreExact'
  BY <1>5, <1>6 DEF Stop
<1>7. ASSUME NEW i \in Importers, ReadTable(i) PROVE ImportsAreExact'
  <2>1. CASE Stop(i, "failed")
    BY <1>6, <2>1
  <2>2. CASE Keep(i, {x \in RowsOf(ImportOrder[next[i]]) : Admitted(x, filter[i])})
    <3>1. ImportIsExact(i)'
      BY <1>7, <2>2, KeepIsExact DEF ReadTable, ImportsAreExact
    <3>2. ASSUME NEW j \in Importers, j # i PROVE ImportIsExact(j)'
      <4>1. /\ pc'[j] = pc[j] /\ next'[j] = next[j] /\ before'[j] = before[j]
            /\ filter'[j] = filter[j] /\ objects'[j] = objects[j] /\ added'[j] = added[j]
            /\ history' = history /\ written' = written
        BY <2>2, <3>2 DEF Keep, TypeOK
      <4> QED BY <4>1, WrittenGrows, OthersStayExact DEF ImportsAreExact
    <3> QED BY <3>1, <3>2 DEF ImportsAreExact
  <2> QED BY <1>7, <2>1, <2>2 DEF ReadTable
<1>8. ASSUME NEW i \in Importers, Add(i) PROVE ImportsAreExact'
  <2>1. CASE Stop(i, "failed")
    BY <1>6, <2>1
  <2>2. CASE ~Stop(i, "failed")
    <3>1. ImportIsExact(i)'
      BY <1>8, <2>2, AddIsExact DEF ImportsAreExact
    <3>2. ASSUME NEW j \in Importers, j # i PROVE ImportIsExact(j)'
      <4>1. /\ pc'[j] = pc[j] /\ next'[j] = next[j] /\ before'[j] = before[j]
            /\ filter'[j] = filter[j] /\ objects'[j] = objects[j] /\ added'[j] = added[j]
            /\ history' = history /\ written' = written
        BY <1>8, <2>2, <3>2 DEF Add, TypeOK
      <4> QED BY <4>1, WrittenGrows, OthersStayExact DEF ImportsAreExact
    <3> QED BY <3>1, <3>2 DEF ImportsAreExact
  <2> QED BY <2>1, <2>2
<1>9. ASSUME NEW i \in Importers, Return(i) PROVE ImportsAreExact'
  BY <1>5, <1>9 DEF Return
<1>10. CASE UNCHANGED vars
  BY <1>1, <1>10 DEF vars, importer
<1> QED BY <1>2, <1>3, <1>4, <1>6, <1>7, <1>8, <1>9, <1>10 DEF Next, Work, Break

\* What one import's end says of it.
OutcomeOf(i) ==
  LET due(n) == {x.id : x \in {y \in Written(n) : Admitted(y, filter[i])}}
      ids == {o.id : o \in added[i]} IN
  /\ ids \subseteq due(written)
  /\ outcome'[i] = "done" => due(before[i]) \subseteq ids
  /\ outcome'[i] = "failed" =>
       \/ \E x \in Written(written) : x.broken
       \/ objects[i] # <<>> /\ \E k \in StoredIn(Head(objects[i])) :
            ledger[k].made # Head(objects[i]).made

\* An import that ends tells the truth.
LEMMA EndTellsTruth ==
  ASSUME TypeOK, ImportsAreExact, [Next]_vars, NEW i \in Importers, pc[i] # "idle", pc'[i] = "idle"
  PROVE  OutcomeOf(i)
<1> DEFINE due(n) == {x.id : x \in {y \in Written(n) : Admitted(y, filter[i])}}
           ids == {o.id : o \in added[i]}
           broken == \E x \in Written(written) : x.broken
           other == objects[i] # <<>> /\ \E k \in StoredIn(Head(objects[i])) :
                      ledger[k].made # Head(objects[i]).made
<1>1. ids \subseteq due(written)
  <2>1. OnlyAdmitted(i) /\ ids \subseteq Taken(i)
    BY DEF ImportsAreExact, ImportIsExact, Taken
  <2>2. \A id \in Taken(i) : id \in due(written)
    BY <2>1 DEF OnlyAdmitted
  <2> QED BY <2>1, <2>2
<1>2. CASE ReadTable(i)
  <2>1. outcome'[i] = "failed" /\ broken
    BY <1>2 DEF ReadTable, Keep, Stop, End, TypeOK, RowsOf
  <2> QED BY <1>1, <2>1 DEF OutcomeOf
<1>3. CASE Add(i)
  <2>1. StoredIn(Head(objects[i])) # SameIn(Head(objects[i])) /\ objects[i] # <<>>
        /\ outcome'[i] = "failed"
    BY <1>3 DEF Add, Stop, End, TypeOK
  <2>2. other
    BY <2>1 DEF SameIn
  <2> QED BY <1>1, <2>1, <2>2 DEF OutcomeOf
<1>4. CASE Return(i)
  <2>1. /\ pc[i] = "store" /\ objects[i] = <<>> /\ outcome'[i] = "done"
    BY <1>4 DEF Return, End, TypeOK
  <2>2. next[i] = 6 /\ TablesAreTaken(i) /\ Taken(i) = ids
    BY <2>1 DEF ImportsAreExact, ImportIsExact, ImportOrder, Taken, Held
  <2>3. \A x \in Written(before[i]) : \E k \in 1..5 : x.table = ImportOrder[k]
    <3>1. Written(before[i]) \subseteq Rows
      BY WrittenType DEF TypeOK
    <3> QED BY <3>1 DEF Rows, Tables, ImportOrder
  <2>4. due(before[i]) \subseteq ids
    BY <2>2, <2>3 DEF TablesAreTaken
  <2> QED BY <1>1, <2>1, <2>4 DEF OutcomeOf
<1>5. CASE Break(i)
  <2>1. outcome'[i] = "broken"
    BY <1>5 DEF Break, Stop, End, TypeOK
  <2> QED BY <1>1, <2>1 DEF OutcomeOf
<1>6. ASSUME NEW j \in Importers, j # i, Work(j) \/ Break(j) \/ \E run \in Filters : Begin(j, run)
      PROVE  pc'[i] = pc[i]
  BY <1>6 DEF Work, ReadTable, Keep, Add, Return, Break, Stop, End, Begin, TypeOK
<1>7. ASSUME NEW run \in Filters, Begin(i, run) PROVE FALSE
  BY <1>7 DEF Begin
<1>8. CASE Write \/ Tick \/ UNCHANGED vars
  BY <1>8 DEF Write, Tick, vars, importer
<1> QED BY <1>2, <1>3, <1>4, <1>5, <1>6, <1>7, <1>8 DEF Next, Work

\* However imports interleave with the program that writes, with each other and
\* with crashes: an import that returns has stored every row that was there when
\* it began and may be admitted, and nothing that may not; one that fails met a
\* broken row or an object made in another second (import_state and add_evidence).
THEOREM OutcomesAreTrue == Spec => OutcomeIsTrue
<1> DEFINE IInv == TypeOK /\ ImportsAreExact
<1>1. Init => IInv
  <2>1. Init => ImportsAreExact
    BY DEF Init, ImportsAreExact, ImportIsExact
  <2> QED BY <2>1, InitTyped
<1>2. IInv /\ [Next]_vars => IInv'
  BY NextTyped, NextIsExact
<1>3. IInv /\ [Next]_vars =>
        \A i \in Importers : pc[i] # "idle" /\ pc'[i] = "idle" => OutcomeOf(i)
  BY EndTellsTruth
<1> QED BY <1>1, <1>2, <1>3, PTL DEF Spec, OutcomeIsTrue, OutcomeOf
=============================================================================
