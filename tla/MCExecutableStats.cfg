CONSTANTS
  NULL = NULL
  Magic = Magic
  Version = Version
  Garbled = Garbled
  Uninit = Uninit
  Execs <- MCExecs
  Indices <- MCIndices
  Words <- MCWords
  ValueBit <- MCValueBit
SPECIFICATION Spec
INVARIANT StatsTotal
