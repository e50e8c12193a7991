SPECIFICATION Spec
CONSTANTS
  R = R
  A = A
  B = B
  Workflow = {R, A, B}
  NoWorkflow = NoWorkflow
  Program <- Programs
  MaxDepth = 2
  MaxHistory = 2
INVARIANTS
  PauseStops
