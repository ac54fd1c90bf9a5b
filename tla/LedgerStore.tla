---------------------------- MODULE LedgerStore ----------------------------
(***************************************************************************)
(* What a storage backend promises (ports/storage.py,                      *)
(* docs/backend_author_guide.md): every table is a list of rows in the     *)
(* order they were observed, an id is written once and never again, and    *)
(* whatever a caller was told is stored is stored, with the content and    *)
(* the observation number it was told.  A step may add the rows of a whole *)
(* transaction at once.                                                    *)
(***************************************************************************)
EXTENDS SequencesExt

CONSTANT Tables      \* the tables the promise is made for

VARIABLES
  rows,   \* rows[t]: the rows of table t, oldest first; [id, body] records
  acked   \* the answers given: [table, id, body, seq]; seq 0 = not numbered

vars == <<rows, acked>>

\* The answer a is backed by the table contents rs.
Backed(rs, a) ==
  \E i \in DOMAIN rs[a.table] :
    /\ rs[a.table][i] = [id |-> a.id, body |-> a.body]
    /\ a.seq \in {0, i}

\* No id occurs twice in the list of rows s.
UniqueIds(s) == \A i, j \in DOMAIN s : s[i].id = s[j].id => i = j

Init ==
  /\ rows = [t \in Tables |-> <<>>]
  /\ acked = {}

\* New rows go to the end, under fresh ids.
Extend ==
  \A t \in Tables : IsPrefix(rows[t], rows'[t]) /\ UniqueIds(rows'[t])

\* Answers are never taken back, and each is backed from now on.
Answer ==
  /\ acked \subseteq acked'
  /\ \A a \in acked' : Backed(rows', a)

Next == Extend /\ Answer

Spec == Init /\ [][Next]_vars
=============================================================================
