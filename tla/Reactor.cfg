SPECIFICATION Spec
CONSTANTS
  Node = {1, 2, 3, 4}
  NoNode = 0
  UsizeMod = 16
  OverflowChecks = TRUE
  Workflow <- AllShapes
INVARIANTS AtMostOnce DependencyOrder BranchExclusive SkippedNeverRuns NeverUnderflows EdgesObeyed SchedulerInv
PROPERTIES FollowsPlan
