----------------------------- MODULE MCAnalysis -----------------------------
(* Small instances of Analysis for TLC.                                    *)
EXTENDS Analysis

CONSTANTS a1, a2

\* cap supports claims until it expires.
MCEvidence == {"cap"}
MCProfile ==
  [e \in MCEvidence |->
    [scope |-> "svc", status |-> "active", expiry |-> 1,
     external_refs |-> {}, dependencies |-> {}, attests |-> {}]]

Part(k, es, bad) == [kind |-> k, evidence |-> es, failed |-> bad]
Edge(id, es, ps) == [named |-> id, evidence |-> es, parts |-> ps]

\* A network with a queue, and one with a failed gate, both given as objects.
MCPayload ==
  [open  |-> [named |-> TRUE,
              edges |-> {Edge(TRUE, {"cap"}, {Part("queue", {"cap"}, FALSE)})}],
   gated |-> [named |-> FALSE,
              edges |-> {Edge(TRUE, {"cap"}, {Part("gate", {"cap"}, TRUE)})}]]
Want(n) == [network |-> n, scopes |-> {}, evidence |-> {}, tcb |-> {}]
MCRequires == [open |-> Want("open")]

Query(n, r, i, m) == [network |-> n, request |-> r, nth |-> i, mode |-> m]
MCQueries ==
  {Query("open", "open", 0, "diagnostic"), Query("gated", "open", 1, "diagnostic"),
   Query("open", "open", 2, "certified_lower_bound")}

\* One network, claimed and analysed again and again.
OnePayload == [open |-> MCPayload.open]
OneQueries == {Query("open", "open", 0, "diagnostic")}

\* A claim about "open", and a network nobody made a claim about.
OtherPayload ==
  [open |-> MCPayload.open,
   bare |-> [named |-> TRUE, edges |-> {Edge(TRUE, {}, {})}]]
OtherQueries == {Query("bare", "open", 0, "diagnostic")}

ItemsOf(payload) ==
  [n \in DOMAIN payload |-> Obligations(NetworkFromDict(payload[n]))]
MCItems == ItemsOf(MCPayload)
OneItems == ItemsOf(OnePayload)
OtherItems == ItemsOf(OtherPayload)
=============================================================================
