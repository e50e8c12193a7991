SPECIFICATION Spec
CONSTANTS
  Node = {1, 2, 3, 4}
  NoNode = 0
  UsizeMod = 16
  OverflowChecks = FALSE
  Workflow <- CascadeCase
INVARIANTS NoLostNode
