--------------------------- MODULE ProbeContract ---------------------------
(***************************************************************************)
(* What running one probe promises to the rest of a scan, whatever happens *)
(* between the two processes: exactly one coverage record, and findings    *)
(* only from a child that finished by itself with exit code 0              *)
(* (internal/orchestrator/probe.go, the comment on RunProbe).              *)
(***************************************************************************)

\* The statuses a coverage record may carry (internal/finding/finding.go).
Known == {"ran", "n/a", "degraded", "failed"}

\* The aggregate status is copied from the probe's own words unchecked, so a
\* word outside the vocabulary can reach the report.
Statuses == Known \cup {"other"}

\* What a probe is, as selectProbes hands it over.
Kinds == {"run", "notApplicable", "cannotRun"}

\* The records one probe may leave behind. `found` says that findings came with it.
Outcomes(kind) ==
  CASE kind = "cannotRun"     -> {[status |-> "failed", found |-> FALSE]}
    [] kind = "notApplicable" -> {[status |-> "n/a", found |-> FALSE]}
    [] OTHER                  -> [status : Statuses, found : BOOLEAN]

\* A probe that did not finish cleanly is reported as failed and brings nothing.
Broken == [status |-> "failed", found |-> FALSE]

NoReport == [status |-> "none", found |-> FALSE]

VARIABLES kind,    \* what the probe is
          ended,   \* how its child ended: "no" (not yet, or never started), "clean", "broken"
          report   \* the record handed to the scan

contract == <<kind, ended, report>>

ContractInit ==
  /\ kind \in Kinds
  /\ ended = "no"
  /\ report = NoReport

End ==
  /\ kind = "run" /\ ended = "no" /\ report = NoReport
  /\ ended' \in {"clean", "broken"}
  /\ UNCHANGED <<kind, report>>

Conclude ==
  /\ report = NoReport
  /\ report' \in Outcomes(kind)
  /\ (kind = "run" /\ ended # "clean") => report' = Broken
  /\ UNCHANGED <<kind, ended>>

ContractNext == End \/ Conclude

ContractSpec == ContractInit /\ [][ContractNext]_contract
=============================================================================
