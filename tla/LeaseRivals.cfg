SPECIFICATION Spec
CONSTANTS
  r1 = r1  r2 = r2  o1 = o1  w1 = w1
  e1 = e1  e2 = e2
  Runner = {r1, r2}
  Operator = {o1}
  Watcher = {w1}
  Exec = {e1, e2}
  ExecOf <- MCExecOfTwins
  Repository = {"a"}
  RepoOf <- MCRepoOf
  Session = {"s"}
  Ttl = 1
  MaxTurn = 1
  MaxTries = 2
  MaxNow = 1
  MaxVer = 3
  NoProc = NoProc  NoExec = NoExec  NoSession = NoSession
SYMMETRY AlikeRunners
CONSTRAINT TwoCalls
CHECK_DEADLOCK FALSE
INVARIANTS  WriterExclusion
 
