CONSTANTS
  NULL = NULL
  Magic = Magic
  Version = Version
  Garbled = Garbled
  Uninit = Uninit
  Execs <- MCExecsNoFloat
  Indices <- MCIndices
  Words <- MCWords
  ValueBit <- MCValueBit
SPECIFICATION Spec
INVARIANT AsPythonSkipsUnknownKinds
