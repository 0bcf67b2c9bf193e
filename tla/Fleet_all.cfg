SPECIFICATION FairSpec
CONSTANTS
  Plans <- AllPlans
  MaxGen = 2
INVARIANTS
  WatermarkIsHonest
  PendingIsHeld
  QueueIsClassed
  CommandsFit
PROPERTIES
  ParkedMovesOn
  FleetConverges
CHECK_DEADLOCK FALSE
