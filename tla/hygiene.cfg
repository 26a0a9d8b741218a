SPECIFICATION HygieneSpec
CONSTANTS
  p = p
  q = q
  e1 = e1
  e2 = e2
  e3 = e3
  Tickets = {1, 2}
  Paths = {p, q}
  Edits = {e1, e2, e3}
  PathOf <- MCPathOf
  EditsBy <- MCEditsBy
  Requests <- MCRequests
  MaxMoves = 2
  RegionOf <- MCRegionOf
  Methods = {"merge", "squash", "rebase"}
  MaxCommits = 4
  Recorders = {"r1"}
  RecordersTakeTurns = TRUE
  Derive = TRUE
  Primary = 0
  AllowedOf <- MCAllowedOf
  ConflictsWith <- MCConflictsWith
  MergeTreeWorks = TRUE
  Workstream <- MCWorkstream
  Limit = 1
  WritersPause = TRUE
INVARIANTS
  ReleasedIsIntegrated
  OverlapIsExact
  
  AdmittedIsUncontested
PROPERTIES
  
  DirtySurvives
CHECK_DEADLOCK FALSE
