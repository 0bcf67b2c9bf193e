SPECIFICATION Spec
CONSTANTS
  Plans <- DeafPlans
  Numbers = {1, 2, 3}
INVARIANTS
  OneTaskRuns
CHECK_DEADLOCK FALSE
