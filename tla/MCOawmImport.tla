---------------------------- MODULE MCOawmImport ----------------------------
(* Small instances of OawmImport for TLC.                                  *)
EXTENDS OawmImport

CONSTANTS i1, i2

MCImporters == {i1, i2}

Row(id, table, needs) ==
  [id |-> id, table |-> table, run |-> "a", good |-> TRUE, broken |-> FALSE, needs |-> needs]

Event == Row("event", "events", {})
Other == [Row("other", "events", {}) EXCEPT !.run = "b"]
Manifest == Row("manifest", "evidence_manifests", {})
Receipt == Row("receipt", "promotion_receipts", {"manifest"})
Failed == [Row("failed", "promotion_receipts", {"manifest"}) EXCEPT !.good = FALSE]
Memory == Row("memory", "memory_records", {"manifest"})
Candidate == [Row("candidate", "memory_records", {}) EXCEPT !.good = FALSE]
WorkContract == Row("contract", "workflow_contracts", {})
Broken == [Row("broken", "promotion_receipts", {}) EXCEPT !.broken = TRUE]

\* OAWM writes a row after the rows it refers to.
MCHistories ==
  {<<Manifest, Receipt>>,
   <<Manifest, Failed, Memory>>,
   <<Event, Other>>,
   <<Candidate, WorkContract>>,
   <<Candidate, Broken>>}
=============================================================================
