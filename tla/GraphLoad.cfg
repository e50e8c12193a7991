SPECIFICATION Spec
CONSTANTS
  Llm = TRUE
  Id = {1, 2, 3, 4, 5}
  Trigger = 0
  Cap = 4
  KindValue <- Kinds
  RawNode <- RawNodes
  MaxDocNodes = 2
  MaxDocId = 3
  MaxExtras = 2
  MaxEdges = 4
INVARIANTS TypeOK LoadsWhatWasBuilt KindsSurvive ReferencesPrefetched ChainsAreLinear ChainsAreDisjoint
PROPERTIES TriggerFeedsRoots
CHECK_DEADLOCK FALSE
