SPECIFICATION Spec
CONSTANTS
  r1 = r1  r2 = r2  o1 = o1  w1 = w1
  e1 = e1  e2 = e2
  Runner = {r1, r2}
  Operator = {}
  Watcher = {w1}
  Exec = {e1, e2}
  ExecOf <- MCExecOf
  Repository = {"a"}
  RepoOf <- MCRepoOf
  Session = {"s"}
  Ttl = 1
  MaxTurn = 2
  MaxTries = 2
  MaxNow = 2
  MaxVer = 3
  NoProc = NoProc  NoExec = NoExec  NoSession = NoSession
CHECK_DEADLOCK FALSE
INVARIANTS OneProviderPerRepository
