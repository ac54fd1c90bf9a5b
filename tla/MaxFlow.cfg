CONSTANTS
  Networks <- MCNetworks
  Targets = {1, 5}
  Units = 2
  Nodes <- MCNodes
  Source = "__cwc_source__"
  Sink = "__cwc_sink__"
  Ids = {"sa", "sb", "ad", "bd", "ae", "dt", "et", "at", "ab", "ba", "bt", "aa", "st"}
  NoEdge = NoEdge
  MaxStep = 2
SPECIFICATION Spec
INVARIANTS
  TypeOK
  ResidualIsAFlow
  BoundIsMinCut
  ScoresAreMarginal
  ProposalsAreBest
PROPERTY AnalysisEnds
CHECK_DEADLOCK FALSE
