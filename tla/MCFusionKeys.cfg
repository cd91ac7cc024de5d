SPECIFICATION FusionSpec
CONSTANTS
  Reporters = {"diskprobe", "javaprobe"}
  Pool <- KeyedPools
  MaxPerProbe <- OneEach
  ScanHost = "host"
INVARIANT DefaultKeyIsAttribution
CHECK_DEADLOCK FALSE
