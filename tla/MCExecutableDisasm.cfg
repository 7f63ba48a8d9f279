CONSTANTS
  NULL = NULL
  Magic = Magic
  Version = Version
  Garbled = Garbled
  Uninit = Uninit
  Execs <- MCExecsNoFloat
  Indices <- MCDisasmIndices
  Words <- MCDisasmWords
  ValueBit <- MCValueBit
SPECIFICATION Spec
INVARIANT DisasmInBounds
