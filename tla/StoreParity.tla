---------------------------- MODULE StoreParity ----------------------------
(***************************************************************************)
(* The two backends side by side: one process makes the same calls on the  *)
(* SQLite store and on the in-memory store.  testing/contracts.py runs one *)
(* such sequence of calls against each; here it is every sequence.  A      *)
(* single process, outside transactions, that may not die between the two. *)
(***************************************************************************)
EXTENDS SQLiteStore, InMemoryStore

parityVars == <<vars, memVars>>

ParityInit == Init /\ MemInit

\* A call is made on both stores; the in-memory one answers at once.
CallBoth(c, x) == Call(c, x) /\ MemAppend(x)

SQLiteSteps(c) == Proceed(c) /\ UNCHANGED memVars

ParityNext ==
  \E c \in Clients :
    \/ \E x \in Items : pc[c] = "idle" /\ CallBoth(c, x)
    \/ SQLiteSteps(c)

ParitySpec == ParityInit /\ [][ParityNext]_parityVars

Quiet == \A c \in Clients : pc[c] = "idle"

\* At the end of every call both backends hold the same evidence, claims and
\* reports in the same observable order, so that whatever is compiled or
\* exported from one is compiled or exported from the other.
SameTables ==
  Quiet => \A t \in {"evidence", "claims", "reports"} : db[t] = mem[t]

\* Networks agree up to the creation time that content_digest leaves out: the
\* in-memory store lets a later registration replace the earlier one.
SameNetworks ==
  Quiet =>
    /\ Len(db["networks"]) = Len(mem["networks"])
    /\ \A i \in DOMAIN mem["networks"] :
         /\ mem["networks"][i].id = db["networks"][i].id
         /\ Content(mem["networks"][i].body) = Content(db["networks"][i].body)

\* Why they agree.  Nobody holds a lock between calls, and while SQLite is still
\* at work on a call the in-memory store already holds what the call will leave
\* behind: the new row, or the same rows and a reply that says if it was the same.
Alike(f, g) ==
  /\ \A t \in {"evidence", "claims", "reports"} : f[t] = g[t]
  /\ Len(f["networks"]) = Len(g["networks"])
  /\ \A i \in DOMAIN g["networks"] :
       /\ g["networks"][i].id = f["networks"][i].id
       /\ Content(g["networks"][i].body) = Content(f["networks"][i].body)

NoTransaction == \A c \in Clients : depth[c] = 0

IsRepeat(tables, x) ==
  LET found == Lookup(tables, x.table, x.id) IN
  \/ found = x.body
  \/ x.table = "networks" /\ Content(found) = Content(x.body)

CallIsMirrored ==
  \A c \in Clients :
    LET x == item[c] IN
    /\ pc[c] = "idle" => Alike(db, mem)
    /\ pc[c] = "commit" => Alike(dirty, mem) /\ reply = "stored"
    /\ pc[c] \in {"select", "insert", "conflict"} =>
         IF Has(db, x.table, x.id) THEN Alike(db, mem) /\ (reply = "stored" <=> IsRepeat(db, x))
                                   ELSE Alike(WithRow(db, x), mem) /\ reply = "stored"
    /\ pc[c] = "insert" /\ x.table # "evidence" => Lookup(db, x.table, x.id) \in {NoBody, x.body}
    /\ pc[c] = "select" => x.table # "evidence"
    /\ pc[c] = "conflict" => x.table = "evidence" /\ Has(db, x.table, x.id)

\* A call on evidence, claims or reports ends the same way on both backends:
\* it is accepted by SQLite exactly if the in-memory store accepted it.  For
\* networks SQLite accepts no more than the in-memory store does.
SameAnswers ==
  [][\A c \in Clients : pc[c] # "idle" /\ pc'[c] = "idle" =>
       LET accepted == Commit(c) IN
       /\ accepted => reply = "stored"
       /\ reply = "stored" /\ item[c].table # "networks" => accepted]_parityVars
=============================================================================
