CONSTANTS
  i1 = i1
  i2 = i2
  Importers <- MCImporters
  Histories <- MCHistories
  Filters = {"a", "any"}
  AnyRun = "any"
  MaxImports = 2
  MaxTime = 1
SPECIFICATION Spec
INVARIANTS
  TypeOK
  ReferencesComeFirst
PROPERTIES
  OutcomeIsTrue
  ImportsKeepLedger
  EveryImportEnds
CHECK_DEADLOCK FALSE
