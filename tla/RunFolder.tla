----------------------------- MODULE RunFolder -----------------------------
(***************************************************************************)
(* The run folders scans leave behind: prepareRunDir and cleanupScratch of *)
(* cmd/shellsight/scratch.go around the probes, and output.Write, which    *)
(* writes the report and then the manifest of hashes. The folder's name    *)
(* holds the host and the UTC second the scan started, so scans that start *)
(* together may share one. A scan may die between any two steps.           *)
(* summary.txt and findings.ndjson are written after report.json and       *)
(* hashed beside it in the same way; no reader looks at them, and they are *)
(* left out.                                                               *)
(***************************************************************************)
EXTENDS Naturals, FiniteSets

CONSTANTS Scans,      \* names of the scans
          Host,       \* the host each runs on
          Second,     \* the second each starts in, which is its run id
          Earlier     \* scans that ended well before the others start

\* RunDirFor.
FolderOf(s) == [host |-> Host[s], run |-> Second[s]]
Folders == {FolderOf(s) : s \in Scans}

\* A report.json holds what one scan wrote, or that with a change made later
\* ("edited"), or a part of something ("torn").
Contents == Scans \cup {"none", "torn", "edited"}

ASSUME ScansAssumption ==
  /\ Scans \cap {"none", "torn", "edited"} = {}
  /\ Earlier \subseteq Scans
  /\ \A s \in Earlier, t \in Scans : FolderOf(s) = FolderOf(t) => s = t

VARIABLES
  stage,     \* per scan: what it does next
  hashed,    \* per scan: the report.json that buildManifest hashed
  report,    \* per folder: its report.json
  manifest,  \* per folder: its manifest.json, and the report that it names
  scratch    \* per folder: the scratch directory exists

folderVars == <<stage, hashed, report, manifest, scratch>>

Stages == {"idle", "probe", "cutReport", "fillReport", "hash", "cutManifest", "fillManifest", "done", "dead"}

EarlierIn(d) == {s \in Earlier : FolderOf(s) = d}
WrittenIn(d) == IF EarlierIn(d) = {} THEN "none" ELSE CHOOSE s \in EarlierIn(d) : TRUE

FolderInit ==
  /\ stage = [s \in Scans |-> IF s \in Earlier THEN "done" ELSE "idle"]
  /\ hashed = [s \in Scans |-> IF s \in Earlier THEN s ELSE "none"]
  /\ report = [d \in Folders |-> WrittenIn(d)]
  /\ manifest = [d \in Folders |-> [state |-> IF EarlierIn(d) = {} THEN "none" ELSE "whole",
                                    names |-> WrittenIn(d)]]
  /\ scratch = [d \in Folders |-> FALSE]

Step(s, from, to) == stage[s] = from /\ stage' = [stage EXCEPT ![s] = to]

-----------------------------------------------------------------------------
\* The run folder is made before the probes run.
PrepareRunDir(s) ==
  /\ Step(s, "idle", "probe")
  /\ scratch' = [scratch EXCEPT ![FolderOf(s)] = TRUE]
  /\ UNCHANGED <<hashed, report, manifest>>

\* The probes have ended.
CleanupScratch(s) ==
  /\ Step(s, "probe", "cutReport")
  /\ scratch' = [scratch EXCEPT ![FolderOf(s)] = FALSE]
  /\ UNCHANGED <<hashed, report, manifest>>

\* os.WriteFile opens the file and truncates it ...
CutReport(s) ==
  /\ Step(s, "cutReport", "fillReport")
  /\ report' = [report EXCEPT ![FolderOf(s)] = "torn"]
  /\ UNCHANGED <<hashed, manifest, scratch>>

\* ... and writes. Over what another scan has filled in meanwhile the longer
\* text keeps its tail.
FillReport(s) ==
  /\ Step(s, "fillReport", "hash")
  /\ \E c \in (IF report[FolderOf(s)] = "torn" THEN {s} ELSE {s, "torn"}) :
       report' = [report EXCEPT ![FolderOf(s)] = c]
  /\ UNCHANGED <<hashed, manifest, scratch>>

\* buildManifest.
HashReport(s) ==
  /\ Step(s, "hash", "cutManifest")
  /\ hashed' = [hashed EXCEPT ![s] = report[FolderOf(s)]]
  /\ UNCHANGED <<report, manifest, scratch>>

CutManifest(s) ==
  /\ Step(s, "cutManifest", "fillManifest")
  /\ manifest' = [manifest EXCEPT ![FolderOf(s)] = [state |-> "torn", names |-> "none"]]
  /\ UNCHANGED <<hashed, report, scratch>>

\* One manifest is as long as the other, so the last one written stands whole.
FillManifest(s) ==
  /\ Step(s, "fillManifest", "done")
  /\ manifest' = [manifest EXCEPT ![FolderOf(s)] = [state |-> "whole", names |-> hashed[s]]]
  /\ UNCHANGED <<hashed, report, scratch>>

\* The process ends here: a crash, a power cut, or a write that fails (exit 1).
Die(s) ==
  /\ stage[s] \notin {"idle", "done", "dead"}
  /\ stage' = [stage EXCEPT ![s] = "dead"]
  /\ UNCHANGED <<hashed, report, manifest, scratch>>

\* A finished folder is not under the scanner's control any more: report.json is
\* edited, or damaged on its way to the console, in a form that still parses.
Edit(d) ==
  /\ \A s \in Scans : FolderOf(s) = d => stage[s] \in {"done", "dead"}
  /\ report[d] \in Scans
  /\ report' = [report EXCEPT ![d] = "edited"]
  /\ UNCHANGED <<stage, hashed, manifest, scratch>>

ScanStep(s) ==
  \/ PrepareRunDir(s) \/ CleanupScratch(s) \/ CutReport(s) \/ FillReport(s)
  \/ HashReport(s) \/ CutManifest(s) \/ FillManifest(s)

FolderNext == (\E s \in Scans : ScanStep(s) \/ Die(s)) \/ (\E d \in Folders : Edit(d))

-----------------------------------------------------------------------------
Alone(s) == \A t \in Scans \ {s} : FolderOf(t) # FolderOf(s)
=============================================================================
