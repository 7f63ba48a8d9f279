CONSTANTS
  NULL = NULL
  Fatal = Fatal
  Node <- MCNode
  Type <- MCType
  Fields <- MCFields
  Reducer <- MCReducer
  Roots <- MCRoots
  AllowReuse = FALSE
SPECIFICATION Spec
INVARIANT ReturnLeavesHandlerReusable
