\* One request and its answer per behaviour, which then ends.
SPECIFICATION Spec
CHECK_DEADLOCK FALSE
CONSTANTS
  Scenarios <- Milestones
INVARIANTS MilestoneWaits
