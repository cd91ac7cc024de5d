SPECIFICATION FairSpec
CONSTANTS
  Scans = {"first", "second"}
  Host <- OneHost
  Second <- TwoSeconds
  Earlier = {"second"}
  Importers = {"ann", "bob"}
  Repeaters = {"second"}
INVARIANTS
  NoFolderIsAbandoned
  IntegrityIsTrue
PROPERTIES
  ImplementsArchive
  ImportEnds
CHECK_DEADLOCK FALSE
