SPECIFICATION Spec
CONSTANTS
  Plans <- LostPlans
  MaxGen = 1
INVARIANTS
  PendingIsHeld
CHECK_DEADLOCK FALSE
