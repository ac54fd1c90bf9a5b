CONSTANTS
  a1 = a1
  a2 = a2
  Compilers = {"c1"}
  Evidence <- MCEvidence
  Refs <- MCEvidence
  Scopes = {"svc"}
  Tcbs = {}
  Networks = {"open", "bare"}
  Requests = {"open"}
  Items <- OtherItems
  Profile <- MCProfile
  Requires <- MCRequires
  Never = Never
  NoDep = NoDep
  MaxTime = 0
  MaxClaims = 1
  Analysts = {a1}
  Queries <- OtherQueries
  Payload <- OtherPayload
  MaxAnalyses = 1
  NoClaim = NoClaim
SPECIFICATION AnalysisSpec
INVARIANT ReportedNetworkIsBacked
CHECK_DEADLOCK FALSE
