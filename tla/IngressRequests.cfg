SPECIFICATION FairSpec
CONSTANTS
  r1 = r1
  r2 = r2
  p1 = p1
  p2 = p2
  s1 = s1
  Requests = {r1}
  Others = {"other"}
  Pollers = {p1, p2}
  Sweepers = {s1}
  Scopes = {"read", "write"}
  ReadOnly = "read"
  MaxFaults = 1
  MaxGenerations = 5
CHECK_DEADLOCK FALSE
INVARIANT RequestInv
INVARIANT OneCreator
 
 
