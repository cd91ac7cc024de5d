------------------------------- MODULE MCScan -------------------------------
(***************************************************************************)
(* Instances of Scan for TLC. Their tables take rows of probeSpecs, so     *)
(* that each kind of row occurs: a required view of every platform, an     *)
(* optional one that needs a host runtime on one platform, and the .NET    *)
(* pair.                                                                   *)
(***************************************************************************)
EXTENDS Scan

Both == {"linux", "windows"}

Row(os, optional, default, needsHost) ==
  [os |-> os, optional |-> optional, default |-> default, needsHost |-> needsHost]

MemoryTable == [v \in {"java-mem", "dotnet-mem", "dotnet-mem-x86"} |->
  CASE v = "java-mem"   -> Row(Both, TRUE, TRUE, {"windows"})
    [] v = "dotnet-mem" -> Row({"windows"}, FALSE, TRUE, {})
    [] OTHER            -> Row({"windows"}, TRUE, FALSE, {})]

DotnetTable == [v \in {"disk", "dotnet-mem", "dotnet-mem-x86"} |->
  CASE v = "disk"       -> Row(Both, FALSE, TRUE, {})
    [] v = "dotnet-mem" -> Row({"windows"}, FALSE, TRUE, {})
    [] OTHER            -> Row({"windows"}, TRUE, FALSE, {})]

Answer(status, found, truncated) == [status |-> status, found |-> found, truncated |-> truncated]

\* Findings may leave the worst tier as it is, so the last answer stands for one
\* without findings too.
FewAnswers == { Answer("ran", FALSE, FALSE), Answer("failed", FALSE, FALSE), Answer("degraded", TRUE, TRUE) }

TwoAnswers == { Answer("ran", TRUE, FALSE), Answer("failed", FALSE, FALSE) }
=============================================================================
