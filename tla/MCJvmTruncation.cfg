SPECIFICATION JvmSpec
CONSTANTS
  Scanners = {"p", "q"}
  Jvms = {1, 2}
  JvmHosts <- MCJvmHosts
  MaxCapture = 2
INVARIANT TruncationIsTold
CHECK_DEADLOCK FALSE
