CONSTANTS
  a1 = a1
  a2 = a2
  Compilers = {"c1"}
  Evidence <- MCEvidence
  Refs <- MCEvidence
  Scopes = {"svc"}
  Tcbs = {}
  Networks = {"open"}
  Requests = {"open"}
  Items <- OneItems
  Profile <- MCProfile
  Requires <- MCRequires
  Never = Never
  NoDep = NoDep
  MaxTime = 1
  MaxClaims = 1
  Analysts = {a1}
  Queries <- OneQueries
  Payload <- OnePayload
  MaxAnalyses = 2
  NoClaim = NoClaim
SPECIFICATION AnalysisSpec
INVARIANT RepeatedReportIsAccepted
CHECK_DEADLOCK FALSE
