CONSTANTS
  c1 = c1
  c2 = c2
  Compilers <- OneCompiler
  Evidence <- ScopeEvidence
  Refs <- ScopeEvidence
  Scopes = {"svc"}
  Tcbs = {}
  Networks = {"net"}
  Requests = {"scope"}
  Profile <- ScopeProfile
  Items <- ScopeItems
  Requires <- ScopeRequires
  Never = Never
  NoDep = NoDep
  MaxTime = 0
  MaxClaims = 2
SPECIFICATION Spec
INVARIANT CompilerIsMonotone
CHECK_DEADLOCK FALSE
