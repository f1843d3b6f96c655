SPECIFICATION HostSpec
CONSTANTS
  l1 = l1
  l2 = l2
  l3 = l3
  d1 = d1
  d2 = d2
  c1 = c1  c2 = c2  w1 = w1
  NoCommand = NoCommand  NoProc = NoProc
  Launches = {l1, l2, l3}
  Directories = {d1, d2}
  Process <- TwoProcesses
  Free = Free
  MaxAsks = 1
  Commands = {1, 2}  Pids = {1, 2}
  Components = {"a", "b"}  Sound = {"a"}
  MaxFaults = 1
CHECK_DEADLOCK FALSE
INVARIANT Exclusive
PROPERTY EntryKept
INVARIANT AppSafe
INVARIANT CenterSafe
 
INVARIANT RetryContained
 
