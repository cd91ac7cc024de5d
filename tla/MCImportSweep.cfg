SPECIFICATION Spec
CONSTANTS
  Scans = {"first", "second"}
  Host <- TwoHosts
  Second <- OneSecond
  Earlier = {}
  Importers = {"ann"}
  Repeaters = {}
INVARIANT AlreadyPresentIsPresent
CHECK_DEADLOCK FALSE
