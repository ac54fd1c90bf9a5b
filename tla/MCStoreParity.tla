--------------------------- MODULE MCStoreParity ---------------------------
(* One client, networks with a content and a creation time.                *)
EXTENDS StoreParity

CONSTANT p1

MCClients == {p1}

Body(content, created) == [content |-> content, created |-> created]
MCContent(b) == b.content

\* Objects of every table that share an id and differ in content, or only in
\* the second they were created.
MCItems ==
  [table : {"evidence", "networks", "reports"}, id : {"x"},
   body : {Body("v1", 1), Body("v1", 2), Body("v2", 2)}]
  \cup [table : {"evidence", "networks", "claims"}, id : {"y"}, body : {Body("v1", 1)}]
=============================================================================
