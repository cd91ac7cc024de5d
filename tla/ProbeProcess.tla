---------------------------- MODULE ProbeProcess ----------------------------
(***************************************************************************)
(* One run of one probe: runProbe and runProbeProcess in                   *)
(* internal/orchestrator/probe.go, the capture goroutines of observe.go    *)
(* and the polite termination of terminate.go.                             *)
(*                                                                         *)
(* Five parties interleave: the runner, one capture goroutine per stream,  *)
(* the goroutine of os/exec that watches the context, and the child, which *)
(* may write any amount on either stream, hang, crash or answer late.      *)
(* Stream contents are counted in units; what the child's document says is *)
(* one record.                                                             *)
(***************************************************************************)
EXTENDS Naturals

CONSTANTS MaxWrite,         \* bound: units a child may want to write on one stream
          PipeCap,          \* capacity of a pipe
          StdoutLimit,      \* probeStdoutCaptureLimit
          StderrLimit,      \* probeStderrCaptureLimit
          Docs              \* the documents a child may write, some of Documents

ASSUME SizesAssumption ==
  /\ MaxWrite \in Nat /\ PipeCap \in Nat \ {0}
  /\ StdoutLimit \in Nat \ {0} /\ StderrLimit \in Nat \ {0}

Streams == {"out", "err"}
Limit(s) == IF s = "out" THEN StdoutLimit ELSE StderrLimit

Known    == {"ran", "n/a", "degraded", "failed"}
Statuses == Known \cup {"other"}

\* A finished document: the object form with an optional self-reported status
\* and reason, the legacy array form, or something that does not parse.
\* `coherent` says that validateArtifactCoverage finds no contradiction in it.
Documents ==
  [form : {"object"}, status : Statuses \cup {""}, reason : BOOLEAN, coherent : BOOLEAN, found : BOOLEAN]
    \cup [form : {"array"}, status : {""}, reason : {FALSE}, coherent : {TRUE}, found : BOOLEAN]
    \cup [form : {"garbage"}, status : {""}, reason : {FALSE}, coherent : {TRUE}, found : {FALSE}]

ASSUME DocsAssumption == Docs \subseteq Documents

Reports == [status : Statuses \cup {"none"}, reason : BOOLEAN, found : BOOLEAN]
NoReport == [status |-> "none", reason |-> FALSE, found |-> FALSE]

VARIABLES
  cannotRun, notApplicable,  \* Probe.CannotRun # "" and Probe.NotApplicable # ""
  sigterm,    \* the platform delivers SIGTERM; on Windows Signal returns an error
  doc,        \* what the child writes on stdout when it gets to the end
  pc,         \* the runner: "check", "start", "read", "wait", "classify", "done"
  child,      \* "none", "running", or how it ended: "zero", "nonzero", "crash", "killed"
  left,       \* units the child still wants to write, per stream
  pipe,       \* units in each pipe
  total,      \* units its capture goroutine has read (captureBounded's total)
  published,  \* the capture goroutine handed its result over
  startErr,   \* cmd.Start, or making a pipe, failed
  expired,    \* the context's deadline has passed
  watch,      \* the context watcher: "idle", "armed", "cancelled", "overdue", "gone"
  mirror,     \* the probe's decoded mirror is on disk
  report      \* the coverage record

vars == <<cannotRun, notApplicable, sigterm, doc, pc, child, left, pipe, total,
          published, startErr, expired, watch, mirror, report>>

Probe   == <<cannotRun, notApplicable, sigterm, doc>>
Streamv == <<left, pipe, total, published>>
Alive == child = "running"
Ended == child \in {"zero", "nonzero", "crash", "killed"}

Init ==
  /\ cannotRun \in BOOLEAN /\ notApplicable \in BOOLEAN /\ sigterm \in BOOLEAN
  /\ doc \in Docs
  /\ pc = "check"
  /\ child = "none"
  /\ left \in [Streams -> 0 .. MaxWrite]
  /\ left["out"] > 0                  \* even an empty answer is a document, "[]"
  /\ pipe = [s \in Streams |-> 0]
  /\ total = [s \in Streams |-> 0]
  /\ published = [s \in Streams |-> FALSE]
  /\ startErr = FALSE /\ expired = FALSE
  /\ watch = "idle"
  /\ mirror = FALSE
  /\ report = NoReport

-----------------------------------------------------------------------------
(* Classification: what the runner concludes from what it holds.            *)

Overflow(s) == total[s] > Limit(s)

Failed == [status |-> "failed", reason |-> TRUE, found |-> FALSE]

\* parseProbeOutputDetailed, with withReason applied to the object form only.
Parsed(d) ==
  CASE d.form = "garbage" \/ ~d.coherent -> Failed
    [] d.form = "array" -> [status |-> "ran", reason |-> FALSE, found |-> d.found]
    [] OTHER ->
         LET status == IF d.status = "" THEN "ran" ELSE d.status
         IN  [status |-> status, reason |-> d.reason \/ status # "ran", found |-> d.found]

\* Mutant: the status is lowered and no reason is appended.
DegradeSilently(r) == IF Overflow("err") /\ r.status # "failed"
                      THEN [r EXCEPT !.status = "degraded"]
                      ELSE r

\* A flood of warnings degrades a parsed result, and never discards it.
Degrade(r) == IF Overflow("err") /\ r.status # "failed"
              THEN [r EXCEPT !.status = "degraded", !.reason = TRUE]
              ELSE r

\* proc.err: Start's error, a non-zero exit or a signal, or the watcher's error
\* when Wait finds that the context was cancelled under a child that exited 0.
ProcErr == startErr \/ child # "zero" \/ watch \in {"cancelled", "overdue"}

\* Mutants: the checks of runProbe in another order, a limit taken for an error.
VerdictIgnoresDeadline ==
  CASE startErr \/ child # "zero" -> Failed
    [] Overflow("out")            -> Failed
    [] OTHER                      -> Degrade(Parsed(doc))
VerdictFailsOnNoise ==
  CASE expired \/ ProcErr                   -> Failed
    [] Overflow("out") \/ Overflow("err")   -> Failed
    [] OTHER                                -> Parsed(doc)

Verdict == CASE expired           -> Failed
             [] ProcErr           -> Failed
             [] Overflow("out")   -> Failed
             [] OTHER             -> Degrade(Parsed(doc))

-----------------------------------------------------------------------------
(* The runner.                                                              *)

\* Mutant: n/a is looked at before CannotRun.
RefuseQuietly ==
  /\ pc = "check" /\ (cannotRun \/ notApplicable)
  /\ report' = [status |-> IF notApplicable THEN "n/a" ELSE "failed", reason |-> TRUE, found |-> FALSE]
  /\ pc' = "done"
  /\ UNCHANGED <<Probe, child, Streamv, startErr, expired, watch, mirror>>

\* A probe that cannot run, or does not apply, is reported and never spawned.
Refuse ==
  /\ pc = "check" /\ (cannotRun \/ notApplicable)
  /\ report' = [status |-> IF cannotRun THEN "failed" ELSE "n/a", reason |-> TRUE, found |-> FALSE]
  /\ pc' = "done"
  /\ UNCHANGED <<Probe, child, Streamv, startErr, expired, watch, mirror>>

Begin ==
  /\ pc = "check" /\ ~cannotRun /\ ~notApplicable
  /\ pc' = "start"
  /\ UNCHANGED <<Probe, child, Streamv, startErr, expired, watch, mirror, report>>

StartFails ==
  /\ pc = "start"
  /\ startErr' = TRUE
  /\ pc' = "classify"
  /\ UNCHANGED <<Probe, child, Streamv, expired, watch, mirror, report>>

\* os/exec refuses to start under a context that is already done.
Start ==
  /\ pc = "start" /\ ~expired
  /\ child' = "running" /\ watch' = "armed"
  /\ pc' = "read"
  /\ UNCHANGED <<Probe, Streamv, startErr, expired, mirror, report>>

\* Both streams are received before Wait, which closes the pipes.
StreamsRead ==
  /\ pc = "read" /\ \A s \in Streams : published[s]
  /\ pc' = "wait"
  /\ UNCHANGED <<Probe, child, Streamv, startErr, expired, watch, mirror, report>>

\* Wait returns once the child is reaped and the watcher has answered.
Wait ==
  /\ pc = "wait" /\ Ended
  /\ watch' = IF watch = "armed" THEN "gone" ELSE watch
  /\ pc' = "classify"
  /\ UNCHANGED <<Probe, child, Streamv, startErr, expired, mirror, report>>

Classify ==
  /\ pc = "classify"
  /\ report' = Verdict
  /\ pc' = "done"
  /\ UNCHANGED <<Probe, child, Streamv, startErr, expired, watch, mirror>>

-----------------------------------------------------------------------------
(* The capture goroutines.                                                  *)

\* Mutants: a read of an empty pipe; reading stops once the buffer is full.
DrainEmpty(s) ==
  /\ child # "none" /\ ~published[s]
  /\ pipe' = [pipe EXCEPT ![s] = @ - 1]
  /\ total' = [total EXCEPT ![s] = @ + 1]
  /\ UNCHANGED <<Probe, pc, child, left, published, startErr, expired, watch, mirror, report>>

\* Reading goes on past the limit (the excess is discarded).
Drain(s) ==
  /\ child # "none" /\ ~published[s] /\ pipe[s] > 0
  /\ pipe' = [pipe EXCEPT ![s] = @ - 1]
  /\ total' = [total EXCEPT ![s] = @ + 1]
  /\ UNCHANGED <<Probe, pc, child, left, published, startErr, expired, watch, mirror, report>>

EndOfFile(s) ==
  /\ Ended /\ ~published[s] /\ pipe[s] = 0
  /\ published' = [published EXCEPT ![s] = TRUE]
  /\ UNCHANGED <<Probe, pc, child, left, pipe, total, startErr, expired, watch, mirror, report>>

-----------------------------------------------------------------------------
(* Time, and the watcher os/exec starts with the child.                     *)

Deadline ==
  /\ pc \in {"start", "read", "wait", "classify"} /\ ~expired
  /\ expired' = TRUE
  /\ UNCHANGED <<Probe, pc, child, Streamv, startErr, watch, mirror, report>>

\* Mutant: the context's default, SIGKILL at once.
CancelKills ==
  /\ watch = "armed" /\ expired
  /\ watch' = "cancelled"
  /\ child' = IF Alive THEN "killed" ELSE child
  /\ UNCHANGED <<Probe, pc, Streamv, startErr, expired, mirror, report>>

\* politeTermination's Cancel: SIGTERM, or Kill where SIGTERM is not supported.
Cancel ==
  /\ watch = "armed" /\ expired
  /\ watch' = "cancelled"
  /\ child' = IF Alive /\ ~sigterm THEN "killed" ELSE child
  /\ UNCHANGED <<Probe, pc, Streamv, startErr, expired, mirror, report>>

\* Mutant: no WaitDelay.
GraceNeverOver == FALSE /\ UNCHANGED vars

\* WaitDelay has passed since Cancel and Wait has not returned: Kill.
GraceOver ==
  /\ watch = "cancelled" /\ pc \in {"read", "wait"}
  /\ watch' = "overdue"
  /\ child' = IF Alive THEN "killed" ELSE child
  /\ UNCHANGED <<Probe, pc, Streamv, startErr, expired, mirror, report>>

-----------------------------------------------------------------------------
(* The child. It owes nobody progress: it may hang at any point.            *)

Write(s) ==
  /\ Alive /\ left[s] > 0 /\ pipe[s] < PipeCap
  /\ left' = [left EXCEPT ![s] = @ - 1]
  /\ pipe' = [pipe EXCEPT ![s] = @ + 1]
  /\ UNCHANGED <<Probe, pc, child, total, published, startErr, expired, watch, mirror, report>>

MakeMirror ==
  /\ Alive /\ ~mirror
  /\ mirror' = TRUE
  /\ UNCHANGED <<Probe, pc, child, Streamv, startErr, expired, watch, report>>

\* Every return of runDiskProbe removes the mirror on its way out.
Finish ==
  /\ Alive /\ \A s \in Streams : left[s] = 0
  /\ child' = "zero" /\ mirror' = FALSE
  /\ UNCHANGED <<Probe, pc, Streamv, startErr, expired, watch, report>>

\* An error exit, or the return that follows a SIGTERM.
GiveUp ==
  /\ Alive
  /\ child' = "nonzero" /\ mirror' = FALSE
  /\ UNCHANGED <<Probe, pc, Streamv, startErr, expired, watch, report>>

\* Killed from outside, or a fatal error of its runtime: no deferred call runs.
Crash ==
  /\ Alive
  /\ child' = "crash"
  /\ UNCHANGED <<Probe, pc, Streamv, startErr, expired, watch, mirror, report>>

-----------------------------------------------------------------------------
Next ==
  \/ Refuse \/ Begin \/ StartFails \/ Start \/ StreamsRead \/ Wait \/ Classify
  \/ \E s \in Streams : Drain(s) \/ EndOfFile(s) \/ Write(s)
  \/ Deadline \/ Cancel \/ GraceOver
  \/ MakeMirror \/ Finish \/ GiveUp \/ Crash

\* The Go runtime runs the runner, the captures and the watcher, and timers
\* fire. Nothing is assumed of the child, nor of Start succeeding.
Fairness ==
  /\ WF_vars(Refuse) /\ WF_vars(Begin) /\ WF_vars(Start \/ StartFails)
  /\ WF_vars(StreamsRead) /\ WF_vars(Wait) /\ WF_vars(Classify)
  /\ \A s \in Streams : WF_vars(Drain(s)) /\ WF_vars(EndOfFile(s))
  /\ WF_vars(Deadline) /\ WF_vars(Cancel) /\ WF_vars(GraceOver)

Spec == Init /\ [][Next]_vars
FairSpec == Spec /\ Fairness

-----------------------------------------------------------------------------
(* Properties.                                                              *)

TypeOK ==
  /\ cannotRun \in BOOLEAN /\ notApplicable \in BOOLEAN /\ sigterm \in BOOLEAN
  /\ doc \in Docs
  /\ pc \in {"check", "start", "read", "wait", "classify", "done"}
  /\ child \in {"none", "running", "zero", "nonzero", "crash", "killed"}
  /\ left \in [Streams -> Nat] /\ pipe \in [Streams -> 0 .. PipeCap]
  /\ total \in [Streams -> Nat]
  /\ published \in [Streams -> BOOLEAN]
  /\ startErr \in BOOLEAN /\ expired \in BOOLEAN /\ mirror \in BOOLEAN
  /\ watch \in {"idle", "armed", "cancelled", "overdue", "gone"}
  /\ report \in Reports

\* The child answered: it exited 0 and every byte of the document was read.
Answered ==
  /\ child = "zero"
  /\ left["out"] = 0 /\ pipe["out"] = 0

\* A record other than a failure, and any finding, comes from a child that
\* answered in full, in time and within the capture bound: never from a partial
\* document, a crash or an answer that arrived after the deadline. "Any error
\* (spawn, timeout, non-zero exit, bad JSON) yields a failed coverage entry and
\* zero findings" (the comment on RunProbe, probe.go).
ReportsAreEarned ==
  (report.found \/ (report.status \notin {"none", "failed"} /\ ~notApplicable)) =>
    /\ ~cannotRun /\ ~notApplicable
    /\ Answered
    /\ ~expired
    /\ total["out"] <= StdoutLimit
    /\ doc.form # "garbage" /\ doc.coherent

\* A child that answered in time, in full and coherently keeps its findings,
\* however loud it was on stderr and however slowly its streams were read
\* (probe.go, the comment above the stderr branch of runProbe).
NoiseDiscardsNothing ==
  (pc = "done" /\ Answered /\ ~expired /\ total["out"] <= StdoutLimit
    /\ doc.form # "garbage" /\ doc.coherent) =>
    /\ report.found = doc.found
    /\ report.status = "failed" => doc.status = "failed"

\* Every record that is not `ran` says why (FR-012, the comment on withReason),
\* also when the probe supplied no reason and when noise degraded the run.
EveryGapHasAReason ==
  report.status \notin {"none", "ran"} => report.reason

\* A decoded mirror outlives the run only when the child died without unwinding:
\* where SIGTERM exists that takes a crash or the whole grace period going by,
\* and never a timeout alone (terminate.go).
MirrorOutlivesOnlyAKill ==
  (pc = "done" /\ mirror) =>
    \/ child = "crash"
    \/ child = "killed" /\ (sigterm => watch = "overdue")

\* Whatever the child does, hang included, the run ends ("the previous behaviour
\* at least always terminated", terminate.go).
RunEnds == <>(pc = "done")

\* The run implements the contract the rest of the scan relies on.
Contract == INSTANCE ProbeContract WITH
  kind   <- IF cannotRun THEN "cannotRun" ELSE IF notApplicable THEN "notApplicable" ELSE "run",
  ended  <- CASE child \in {"none", "running"} -> "no" [] child = "zero" -> "clean" [] OTHER -> "broken",
  report <- [status |-> report.status, found |-> report.found]

\* Every step of the run is a step of the contract or a stutter of it.
ImplementsContract == Contract!ContractSpec
=============================================================================
