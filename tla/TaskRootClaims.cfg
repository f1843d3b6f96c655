SPECIFICATION MCSpec
CONSTANTS
  p1 = p1  p2 = p2  p3 = p3
  e1 = e1  e2 = e2
  h1 = h1  h2 = h2
  Proc = {p1, p2, p3}
  Exec = {e1, e2}
  ExecOf <- MCExecOf
  Hash = {h1, h2}
  View = {handoff}
  Offers = {TRUE, FALSE}
  FacetGoals = {"release_pending", "released"}
  Threshold = 2
  MaxTries = 2
  MaxGen = 5
  NoProc = NoProc  NoExec = NoExec  NoHash = NoHash
SYMMETRY SymTwinsHashes
INVARIANTS RootInv ExclusiveAuthority HistoryComplete MaterializationBudget
PROPERTIES VerdictImmutable ImplementsAuthority
CHECK_DEADLOCK FALSE
