SPECIFICATION DecisionsSpec
CONSTANTS
  Parts = {"repo"}
  Unknown = Unknown
  Free = Free
  Absent = Absent
  Workers = {"w1", "w2"}
  Accounts <- ThreeAccounts
  Dir <- Directory
  Keep = 1
  Retention = 1
  MaxTime = 2
  Paths = {"in", "new", "out"}
  Scope = {"in", "new"}
  Untracked = {"new"}
  Tests = TRUE
  NoChange = TRUE
  MaxRuns = 2
  MaxFaults = 1
  Verdict = {"completed", "interrupted"}
  Write = TRUE
PROPERTY RunStartsClean
CHECK_DEADLOCK FALSE
