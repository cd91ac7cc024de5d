SPECIFICATION Spec
CONSTANTS
  Ids = {1, 2, 3}
  Texts <- Written
  Library <- OneOwn
  Sets = {"set"}
  Selections <- Choices
  Writers = {ann, bob}
  Freezers = {eve, joe}
  GraphLoaded = FALSE
SYMMETRY Interchangeable
INVARIANTS
  FrozenIsReconstructible
  EditsAreKept
PROPERTIES
  FrozenNeverChanges
CHECK_DEADLOCK FALSE
