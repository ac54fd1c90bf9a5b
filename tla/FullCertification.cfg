CONSTANTS
  Bundles <- MCBundles
  NetNodes <- MCNetNodes
  GraphNodes <- MCGraphNodes
  Unit = 2
  Million = 100
  Micro = 2
  Radius <- MCRadius
  MaxTime = 2
SPECIFICATION Spec
INVARIANTS
  TypeOK
  FullBoundIsSound
  OkRestsOnFitEvidence
  SplitIsHonest
  EveryTermIsWitnessed
  ConfidenceIsPaid
  RootedCapital
  BottlenecksContainMinCuts
PROPERTY EveryReportEnds
CHECK_DEADLOCK FALSE
