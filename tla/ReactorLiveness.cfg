SPECIFICATION FairSpec
CONSTANTS
  Node = {1, 2, 3, 4}
  NoNode = 0
  UsizeMod = 16
  OverflowChecks = TRUE
  Workflow <- KindsAndJoins
INVARIANTS TypeOK JoinQuorum NoLostNode
PROPERTIES Termination
