SPECIFICATION FairSpec
CONSTANTS
  MaxWrite = 2
  PipeCap = 1
  StdoutLimit = 1
  StderrLimit = 1
  Docs <- Documents
INVARIANTS
  TypeOK
  ReportsAreEarned
  NoiseDiscardsNothing
  EveryGapHasAReason
  MirrorOutlivesOnlyAKill
PROPERTIES
  ImplementsContract
  RunEnds
CHECK_DEADLOCK FALSE
