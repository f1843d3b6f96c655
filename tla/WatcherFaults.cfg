SPECIFICATION Spec
CONSTANTS
  c1 = c1  c2 = c2  w1 = w1  k1 = k1  k2 = k2
  Command = {c1, c2}
  First = c1
  Prior <- MCPrior
  Worker = {k1}
  Watcher = {w1}
  Verdict = {"completed"}
  Write = FALSE
  Async = TRUE
  Threshold = 1
  Unreliable = {k1}
  MaxFaults = 1
  Mortal = {}
  MaxCrashes = 0
  NoCommand = NoCommand  NoProc = NoProc
INVARIANT FailureContained
CONSTRAINT RetryUntaken
