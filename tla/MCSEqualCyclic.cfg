CONSTANTS
  NULL = NULL
  Fatal = Fatal
  Node <- CycNode
  Type <- CycType
  Fields <- CycFields
  Reducer <- CycReducer
  Roots <- CycRoots
  AllowReuse = FALSE
SPECIFICATION Spec
INVARIANT ReducerCallsBounded
