CONSTANTS
  a1 = a1
  a2 = a2
  Compilers = {"c1"}
  Evidence <- MCEvidence
  Refs <- MCEvidence
  Scopes = {"svc"}
  Tcbs = {}
  Networks = {"open", "gated"}
  Requests = {"open"}
  Items <- MCItems
  Profile <- MCProfile
  Requires <- MCRequires
  Never = Never
  NoDep = NoDep
  MaxTime = 1
  MaxClaims = 2
  Analysts = {a1, a2}
  Queries <- MCQueries
  Payload <- MCPayload
  MaxAnalyses = 2
  NoClaim = NoClaim
SPECIFICATION AnalysisSpec
INVARIANTS
  AnalysisTypeOK
  OkReportIsBacked
  AnalysisFindsItsEvidence
  ReportIsFresh
  StoredReportIsAnswered
CHECK_DEADLOCK FALSE
