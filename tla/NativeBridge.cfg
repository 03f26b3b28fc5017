CONSTANTS
  empty = empty  few = few  many = many
  Sector <- MCSector
  Size <- MCSize
  ModeCap = 2
  DefaultCap = 3
SPECIFICATION Spec
INVARIANTS GpuShadowsCpu AnswerDescribesView PublishedIsWhole
PROPERTY DrawsCompleteExports
