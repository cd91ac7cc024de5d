SPECIFICATION Spec
CONSTANTS
  Table <- DotnetTable
  Platforms <- Both
  Strangers = {}
  Main = "dotnet-mem"
  Companion = "dotnet-mem-x86"
  Answers <- TwoAnswers
INVARIANT OneRecordPerView
CHECK_DEADLOCK FALSE
