SPECIFICATION FairSpec
CONSTANTS
  w1 = w1
  w2 = w2
  Writers = {w1, w2}
  Projects = {"p", "q"}
  Serialised = TRUE
  ForeignGens = {1, 3}
  MaxGeneration = 3
  MaxCount = 2
  MaxCrashes = 1
  MaxErrors = 1
  MaxForeign = 1
CHECK_DEADLOCK FALSE
INVARIANT CursorInv
PROPERTY SavesAreSwaps
PROPERTY Advances
