SPECIFICATION FairDispatch
CONSTANTS
  MaxRetries = 3
INVARIANTS FreshRetries
PROPERTIES KeepsPromise CallEnds
