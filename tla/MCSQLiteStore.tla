--------------------------- MODULE MCSQLiteStore ---------------------------
(* Small instances of SQLiteStore for TLC.                                 *)
EXTENDS SQLiteStore

CONSTANTS p1, p2

MCClients == {p1, p2}

Row(t, i, b) == [table |-> t, id |-> i, body |-> b]

\* Two evidence objects, one of them in two versions under one id (say, with
\* another confidence or creation time), a report in two versions and a claim.
MCItems ==
  {Row("evidence", "e1", "v1"), Row("evidence", "e1", "v2"),
   Row("evidence", "e2", "v1"), Row("reports", "r1", "v1"),
   Row("reports", "r1", "v2"), Row("claims", "k1", "v1")}

\* One network, registered with two different contents.
MCNetworkItems == {Row("networks", "n1", "v1"), Row("networks", "n1", "v2")}
=============================================================================
