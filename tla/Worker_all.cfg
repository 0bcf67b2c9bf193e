SPECIFICATION FairSpec
CONSTANTS
  Plans <- AllPlans
  Numbers = {1, 2, 3}
INVARIANTS
  OneTaskRuns
  SwapIsQuiet
  CancelHolds
  ExitIsReal
  RootHeld
PROPERTIES
  TasksSettle
  RootsGo
CHECK_DEADLOCK FALSE
