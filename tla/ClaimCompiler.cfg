CONSTANTS
  c1 = c1
  c2 = c2
  Compilers <- OneCompiler
  Evidence <- MCEvidence
  Refs <- MCRefs
  Scopes = {"svc", "ops", "old"}
  Tcbs = {"vault"}
  Networks <- MCNetworks
  Requests <- MCRequests
  Profile <- MCProfile
  Items <- MCItems
  Requires <- MCRequires
  Never = Never
  NoDep = NoDep
  MaxTime = 1
  MaxClaims = 1
SPECIFICATION Spec
INVARIANTS
  TypeOK
  SupportIsSound
  ObligationsAreKept
  RefusalIsJustified
  QuietCompileIsExact
PROPERTY EveryCompileEnds
CHECK_DEADLOCK FALSE
