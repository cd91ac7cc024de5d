SPECIFICATION MCSpec
CONSTANTS
  Ids = {1}
  Texts = {}
  Library <- OneRule
  Sets = {"set"}
  Selections <- WholeLibrary
  Writers = {}
  Freezers = {eve}
  GraphLoaded = FALSE
  Folders <- Unpacked
  Declares <- Declarations
  Targets = {"linux"}
  Versions = {"v1"}
  Asked <- Requests
  Seconds = {0}
  Truncated <- ShortId
  Publishers = {pat}
  Builders = {ann, bob}
  MaxFaults = 1
  ScanFindings <- TwoScans
  CaseOf <- TwoCases
  Verdicts = {"malicious", "nonsense"}
  Analysts = {cy, di}
  MaxDecisions = 2
  MaxClock = 1
SYMMETRY Interchangeable
INVARIANTS
  ReleaseIsWhole
  AgentIsSelfContained
  AnswerIsTheRecord
  PageIsWhole
CHECK_DEADLOCK FALSE
