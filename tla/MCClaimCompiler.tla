-------------------------- MODULE MCClaimCompiler --------------------------
(* A small catalog of evidence, networks and requests for TLC.             *)
EXTENDS ClaimCompiler

CONSTANTS c1, c2

OneCompiler == {c1}
TwoCompilers == {c1, c2}

MCEvidence == {"cap", "queue", "root", "stale"}
\* "rec" is an external reference carried by two objects, "gone" an id that is
\* never stored.
MCRefs == MCEvidence \cup {"rec", "gone"}

\* cap and queue depend on each other; queue depends on the record "rec" too,
\* carried by root (which expires) and by stale (quarantined).
MCProfile ==
  [cap   |-> [scope |-> "svc", status |-> "active", expiry |-> Never,
              external_refs |-> {}, dependencies |-> {"queue"}, attests |-> {}],
   queue |-> [scope |-> "ops", status |-> "active", expiry |-> Never,
              external_refs |-> {}, dependencies |-> {"cap", "rec"}, attests |-> {}],
   root  |-> [scope |-> "ops", status |-> "active", expiry |-> 1,
              external_refs |-> {"rec"}, dependencies |-> {}, attests |-> {"vault"}],
   stale |-> [scope |-> "old", status |-> "quarantined", expiry |-> Never,
              external_refs |-> {"rec"}, dependencies |-> {"gone"}, attests |-> {}]]

MCNetworks == {"net", "bare"}
MCItems == [net |-> {{"cap"}}, bare |-> {{"root"}, {}}]

Want(n, ss, es, ts) == [network |-> n, scopes |-> ss, evidence |-> es, tcb |-> ts]
MCRequires ==
  [chain |-> Want("net", {}, {}, {"vault"}),
   scope |-> Want("net", {"ops"}, {}, {}),
   ids   |-> Want("net", {"old"}, {"root", "gone"}, {"vault"}),
   bare  |-> Want("bare", {"ops"}, {}, {})]
MCRequests == DOMAIN MCRequires

\* A smaller catalog: a required scope with one good and one quarantined object.
ScopeEvidence == {"good", "held"}
ScopeProfile ==
  [e \in ScopeEvidence |->
    [scope |-> "svc", status |-> IF e = "good" THEN "active" ELSE "quarantined",
     expiry |-> Never, external_refs |-> {}, dependencies |-> {}, attests |-> {}]]
ScopeItems == [net |-> {{"good"}}]
ScopeRequires == [scope |-> Want("net", {"svc"}, {}, {})]
=============================================================================
