SPECIFICATION MCSpec
CONSTANTS
  Table <- MemoryTable
  Platforms <- Both
  Strangers = {"ghost"}
  Main = "dotnet-mem"
  Companion = "dotnet-mem-x86"
  Answers <- FewAnswers
  Reporters <- Probes
  Pool <- ThreePools
  MaxPerProbe <- ThreeBounds
  ScanHost = "host"
  Scanners = {"p", "q"}
  Jvms = {1, 2}
  JvmHosts <- MCJvmHosts
  MaxCapture = 2
  LoadedClasses <- MCLoadedClasses
INVARIANTS
  ZeroIsAllClear
  NoViewIsRetiredQuietly
  ReportIsOrderFree
  ConfirmedIsEarned
  MoreEvidenceNeverLowers
  OwnFootprintIsNotEvidence
  NothingIsLeftBehind
  RanIsEarned
  SilenceIsEarned
PROPERTIES
  ScanEnds
  JvmScanEnds
CHECK_DEADLOCK FALSE
