SPECIFICATION Spec
CONSTANTS
  Index = {0, 1}
  Root <- MCRoot
  Mapped <- MCMapped
INVARIANTS TypeOK TranslationIsExact FaultsAreReal
PROPERTIES AccessEnds
CHECK_DEADLOCK FALSE
