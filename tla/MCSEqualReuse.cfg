CONSTANTS
  NULL = NULL
  Fatal = Fatal
  Node <- MCNode
  Type <- MCType
  Fields <- MCFields
  Reducer <- MCReducer
  Roots <- MCReuseRoots
  AllowReuse = TRUE
SPECIFICATION Spec
INVARIANTS
  DispatchOrderIsRecursive
  EqualReflexive
PROPERTIES
  
  Termination
