---------------------------- MODULE MCScanParts ----------------------------
(***************************************************************************)
(* The driver, the report and the java-mem probe in one instance. They      *)
(* share no state, and what each may expect of the others is part of its    *)
(* own initial states and inputs: TLC explores each by itself, while the    *)
(* others rest in a state of theirs. For JvmEvidence, of the classes those  *)
(* that make a difference to some rung of its ladder.                       *)
(***************************************************************************)
EXTENDS MCScan, MCFusion, MCJvm, JvmEvidence

MCLoadedClasses ==
  {c \in [codeSource : {"none", "nested", "file"}, origin : Origins,
          literals : {{}, {"X-Accel-Buffering"}, {"e45e329feb5d925b"}}, names : {{}, {"Runtime"}, {"Method", "ClassLoader"}},
          wired : {"no", "direct", "deep"}, outside : BOOLEAN, generated : BOOLEAN, watched : BOOLEAN,
          differs : {FALSE}, loaderAnswers : BOOLEAN] :
     /\ c.codeSource # "file" => ~c.outside /\ c.origin = "missing"
     /\ c.names # {} => c.literals = {}}

VARIABLE part

\* A scan that was refused has nothing left to do.
driverRests ==
  /\ goos = "linux" /\ package = [v \in Views |-> "absent"] /\ hostReady = FALSE /\ config = None /\ flag = None
  /\ pc = "done" /\ probes = {} /\ coverage = {} /\ tier = 0 /\ exit = 1
reportRests == outputs = [v \in Reporters |-> <<>>] /\ gap = FALSE /\ FusionInit
jvmRests == jvmHost = HostOf(Other, Other, Privileged, Each({1}), 1) /\ JvmInit
classRests == loaded = (CHOOSE c \in LoadedClasses : TRUE) /\ EvidenceInit

\* Bounds on the driver's inputs: declarations of one, two or all names, at most two
\* names asked for, a stranger alone; no view needs a runtime of a Linux host, and what a
\* package holds of another platform's views is not looked at.
DriverInit ==
  /\ Init
  /\ Cardinality(config.views) # 3
  /\ Cardinality(flag.views) <= (IF flag.views \cap Strangers = {} THEN 2 ELSE 1)
  /\ goos = "linux" => hostReady
  /\ \A v \in Views : AppliesTo(v) \/ package[v] = "absent"

\* A bound: at most three findings in all, and two beside a gap, which only the verdict reads.
ReportInit ==
  /\ FusionInit
  /\ Len(outputs["diskprobe"]) + Len(outputs["dotnetmem"]) + Len(outputs["dotnetmem-x86"]) <= (IF gap THEN 2 ELSE 3)

\* Who rests comes first: a resting part has one state.
MCInit ==
  \/ part = "driver" /\ reportRests /\ jvmRests /\ classRests /\ DriverInit
  \/ part = "report" /\ driverRests /\ jvmRests /\ classRests /\ ReportInit
  \/ part = "jvm"    /\ driverRests /\ reportRests /\ classRests /\ JvmInit
  \/ part = "class"  /\ driverRests /\ reportRests /\ jvmRests /\ EvidenceInit

mcVars == <<part, vars, fusionVars, jvmVars, evidenceVars>>

DriverStep == part = "driver" /\ Next /\ UNCHANGED <<part, fusionVars, jvmVars, evidenceVars>>
InJvm(A) == part = "jvm" /\ A /\ UNCHANGED <<part, vars, fusionVars, evidenceVars>>

MCNext ==
  \/ DriverStep
  \/ part = "report" /\ FusionNext /\ UNCHANGED <<part, vars, jvmVars, evidenceVars>>
  \/ InJvm(JvmNext)
  \/ part = "class" /\ EvidenceNext /\ UNCHANGED <<part, vars, fusionVars, jvmVars>>

\* FairSpec's and JvmSpec's.
MCFairness ==
  /\ WF_mcVars(DriverStep)
  /\ \A s \in Scanners : WF_mcVars(InJvm(ScannerStep(s))) /\ WF_mcVars(InJvm(DeadlinePasses(s)))

MCSpec == MCInit /\ [][MCNext]_mcVars /\ MCFairness
=============================================================================
