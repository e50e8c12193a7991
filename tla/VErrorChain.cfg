SPECIFICATION Spec
CONSTANTS
  Node = {1, 2, 3}
  NoNode = 0
  UsizeMod = 16
  OverflowChecks = FALSE
  Workflow <- ErrorChainCase
INVARIANTS ErrorEdgesOnlyOnFailure
