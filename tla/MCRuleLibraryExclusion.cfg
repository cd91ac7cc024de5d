SPECIFICATION Spec
CONSTANTS
  Ids = {1, 2, 3}
  Texts <- Written
  Library <- OneOwn
  Sets = {"set"}
  Selections <- Choices
  Writers = {ann, bob}
  Freezers = {eve, joe}
  GraphLoaded = FALSE
INVARIANT RefusalHasACause
CHECK_DEADLOCK FALSE
