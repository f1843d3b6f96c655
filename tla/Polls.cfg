SPECIFICATION FairSpec
CONSTANTS
  ProjectList <- Two
  TaskList <- MixedTasks
  CommandList <- MixedCommands
  FirstStatus <- MixedStatus
  Promotable = {"t1"}
  Window = 2
  RecentBatch = 2
  MaxCommands = 2
  MinHydrated = 2
  MinServed = 2
  VisitCycle = 2
  MaxFaults = 1
CHECK_DEADLOCK FALSE
INVARIANT TickInv
 
 
