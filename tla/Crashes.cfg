SPECIFICATION Spec
CONSTANTS
  c1 = c1  c2 = c2  w1 = w1  k1 = k1  k2 = k2
  Command = {c1}
  First = c1
  Prior <- MCPrior
  Worker = {k1, k2}
  Watcher = {w1}
  Verdict = {"completed"}
  Write = TRUE
  Async = TRUE
  Threshold = 1
  Unreliable = {}
  MaxFaults = 0
  Mortal = {k1, k2, w1}
  MaxCrashes = 1
  NoCommand = NoCommand  NoProc = NoProc
INVARIANTS OneVerdict AttemptInv OneProvider
 
