-------------------------------- MODULE Scan --------------------------------
(***************************************************************************)
(* One scan, from the build's declaration to the exit code: the capability *)
(* table, registry and probe selection of cmd/shellsight/registry.go,      *)
(* runScan in main.go, the parallel probes of orchestrator.Scan, and the   *)
(* rollup. What one probe may leave behind is ProbeContract's promise,     *)
(* which ProbeProcess implements; how findings earn their tier is Fusion.  *)
(***************************************************************************)
EXTENDS Naturals, FiniteSets

CONSTANTS Table,      \* probeSpecs: view -> [os, optional, default, needsHost]
          Platforms,  \* supportedGOOS
          Strangers,  \* names the table does not hold
          Main,       \* the view runScan pairs with ...
          Companion,  \* ... this one (dotnet-mem and dotnet-mem-x86)
          Answers     \* what an executed probe may leave behind, some of AnyAnswer

Views == DOMAIN Table
Names == Views \cup Strangers

Contract == INSTANCE ProbeContract WITH kind <- "run", ended <- "no",
                                        report <- [status |-> "none", found |-> FALSE]

AnyAnswer == [status : Contract!Statuses, found : BOOLEAN, truncated : BOOLEAN]

ASSUME TableAssumption ==
  /\ Views \cap Strangers = {}
  /\ \A v \in Views : /\ Table[v].os \subseteq Platforms
                      /\ Table[v].needsHost \subseteq Table[v].os
                      /\ Table[v].optional \in BOOLEAN /\ Table[v].default \in BOOLEAN
ASSUME AnswersAssumption == Answers \subseteq AnyAnswer

None == [given |-> FALSE, views |-> {}]
Given(vs) == [given |-> TRUE, views |-> vs]

VARIABLES
  goos,      \* the platform
  package,   \* per view: "absent" (no executable), "partial", "whole" (every component)
  hostReady, \* the host has the runtime that needsHost views require
  config,    \* agent.json's views, or None
  flag,      \* -views, or None
  pc,        \* "select", "prepare", "scan", "write", "done"
  probes,    \* the probes selected: view, kind, where from
  coverage,  \* the coverage records so far
  tier,      \* the worst tier: 0 clean, 1 suspicious, 2 likely, 3 confirmed
  exit       \* the exit code, NoExit while running

NoExit == 99
vars == <<goos, package, hostReady, config, flag, pc, probes, coverage, tier, exit>>
Inputs == <<goos, package, hostReady, config, flag>>

-----------------------------------------------------------------------------
(* The capability table and the registry.                                   *)

AppliesTo(v) == goos \in Table[v].os

\* probeRegistryIn: a required view stays registered when its executable is
\* missing, an optional one does not; a view that needs a host runtime is
\* registered when that runtime is found.
Registered(v) ==
  /\ v \in Views /\ AppliesTo(v)
  /\ IF goos \in Table[v].needsHost THEN hostReady
     ELSE Table[v].optional => package[v] # "absent"

PackageCarries(v) == v \in Views /\ package[v] = "whole"

Undeclared(v) == config.given /\ v \notin config.views

\* resolveViews: explicit -views, else agent.json's, else the platform's defaults.
Requested ==
  IF flag.given THEN flag.views
  ELSE IF config.given THEN config.views
  ELSE {v \in Views : AppliesTo(v) /\ Table[v].default}

Probe(v, kind, from) == [view |-> v, kind |-> kind, from |-> from]

\* A view the build does not declare: a disagreement when the package holds it
\* whole, a declared absence otherwise.
Absence(v) == IF PackageCarries(v) THEN "cannotRun" ELSE "notApplicable"

Runnable(v) == v \in Requested /\ Registered(v) /\ ~Undeclared(v)

\* The loop over the requested views. A stranger nobody declared, a view the
\* platform excludes and an undeclared view without component get no record here.
Asked ==
  {Probe(v, "run", "asked") : v \in {v \in Requested : Runnable(v)}}
  \cup {Probe(v, Absence(v), "asked") : v \in {v \in Requested : Registered(v) /\ Undeclared(v)}}
  \cup {Probe(v, "cannotRun", "asked") : v \in {v \in Requested :
          /\ ~Registered(v)
          /\ IF v \in Strangers THEN config.given /\ ~Undeclared(v)
             ELSE AppliesTo(v) /\ ~Undeclared(v)}}

SeenBy(ps) == {p.view : p \in ps}

\* Mutant: the sweep believes the declaration.
NotInBuildCredulous(seen) ==
  {Probe(v, "notApplicable", "build") : v \in {v \in Views : AppliesTo(v) /\ Undeclared(v) /\ v \notin seen}}

\* State every view this build does not carry, asked for or not.
NotInBuild(seen) ==
  {Probe(v, Absence(v), "build") : v \in {v \in Views : AppliesTo(v) /\ Undeclared(v) /\ v \notin seen}}

\* State every view that cannot exist on this platform.
NotOnPlatform ==
  {Probe(v, "notApplicable", "platform") : v \in {v \in Views : ~AppliesTo(v)}}

SelectProbes == Asked \cup NotInBuild(SeenBy(Asked)) \cup NotOnPlatform

\* runScan pairs the companion with a main view that will be executed.
CompanionOf(ps) ==
  IF /\ Probe(Main, "run", "asked") \in ps
     /\ ~ \E p \in ps : p.view = Companion /\ p.kind = "run"
     /\ Registered(Companion)
  THEN {Probe(Companion, "run", "companion")} ELSE {}

-----------------------------------------------------------------------------
(* The steps of runScan.                                                    *)

Init ==
  /\ goos \in Platforms
  /\ package \in [Views -> {"absent", "partial", "whole"}]
  /\ hostReady \in BOOLEAN
  /\ config \in {None} \cup {Given(vs) : vs \in (SUBSET Names) \ {{}}}
  /\ flag \in {None} \cup {Given(vs) : vs \in SUBSET Names}
  /\ pc = "select"
  /\ probes = {} /\ coverage = {}
  /\ tier = 0
  /\ exit = NoExit

\* A scan in which nothing will be executed is a usage error.
Select ==
  /\ pc = "select"
  /\ LET ps == SelectProbes
     IN  IF \A p \in ps : p.kind # "run"
         THEN /\ pc' = "done" /\ exit' = 1 /\ UNCHANGED probes
         ELSE /\ pc' = "prepare" /\ probes' = ps \cup CompanionOf(ps) /\ UNCHANGED exit
  /\ UNCHANGED <<Inputs, coverage, tier>>

\* The run folder exists before the probes run, or the scan does not start.
Prepare ==
  /\ pc = "prepare"
  /\ \/ pc' = "scan" /\ UNCHANGED exit
     \/ pc' = "done" /\ exit' = 1
  /\ UNCHANGED <<Inputs, probes, coverage, tier>>

Record(p, a) == [probe |-> p, status |-> a.status, truncated |-> a.truncated]
Reported == {c.probe : c \in coverage}

\* What a probe may leave behind: an executed one some of its answers, and only
\* a failure when there is nothing to execute; any other what its kind says.
AnswersOf(p) ==
  IF p.kind = "run"
  THEN {a \in Answers : package[p.view] = "absent" => a.status = "failed" /\ ~a.found /\ ~a.truncated}
  ELSE {[status |-> o.status, found |-> o.found, truncated |-> FALSE] : o \in Contract!Outcomes(p.kind)}

\* Mutant: only an executed probe reports.
ReportExecuted(p) ==
  /\ pc = "scan" /\ p \in probes \ Reported /\ p.kind = "run"
  /\ \E a \in AnswersOf(p) :
       /\ coverage' = coverage \cup {Record(p, a)}
       /\ tier' \in IF a.found THEN tier .. 3 ELSE {tier}
  /\ UNCHANGED <<Inputs, pc, probes, exit>>

\* The goroutine of one probe reports; findings may raise the worst tier.
Report(p) ==
  /\ pc = "scan" /\ p \in probes \ Reported
  /\ \E a \in AnswersOf(p) :
       /\ coverage' = coverage \cup {Record(p, a)}
       /\ tier' \in IF a.found THEN tier .. 3 ELSE {tier}
  /\ UNCHANGED <<Inputs, pc, probes, exit>>

\* wg.Wait: every probe has reported.
Assemble ==
  /\ pc = "scan" /\ Reported = probes
  /\ pc' = "write"
  /\ UNCHANGED <<Inputs, probes, coverage, tier, exit>>

\* Mutant: only a failed view counts.
IncompleteOnFailure == \E c \in coverage : c.status = "failed"

\* Assess: a failed view, or one that stopped early.
Incomplete == \E c \in coverage : c.status = "failed" \/ c.truncated

\* exitCode: 4 confirmed, 3 likely, 2 suspicious, 5 nothing found but incomplete.
ExitCode == IF tier > 0 THEN tier + 1 ELSE IF Incomplete THEN 5 ELSE 0

\* output.Write, which may fail, and the exit.
Write ==
  /\ pc = "write"
  /\ exit' \in {1, ExitCode}
  /\ pc' = "done"
  /\ UNCHANGED <<Inputs, probes, coverage, tier>>

Next == Select \/ Prepare \/ (\E p \in probes : Report(p)) \/ Assemble \/ Write

Spec == Init /\ [][Next]_vars

\* Every step is the scanner's own, and a probe run ends (ProbeProcess, RunEnds).
FairSpec == Spec /\ WF_vars(Next)

-----------------------------------------------------------------------------
(* Properties.                                                              *)

StatusesOf(v) == {c.status : c \in {c \in coverage : c.probe.view = v}}

\* Exit code 0 is an all-clear somebody can vouch for: the scan executed a view,
\* no view failed or stopped early, nothing was found, and every view asked for
\* that the table holds has a record that is not a failure ("0 clean ... 5 must
\* never be treated as an all-clear", exitCode; main.go, above the runnable check).
ZeroIsAllClear ==
  exit = 0 =>
    /\ \E c \in coverage : c.probe.kind = "run"
    /\ \A c \in coverage : c.status # "failed" /\ ~c.truncated
    /\ tier = 0
    /\ \A v \in Requested \cap Views : StatusesOf(v) # {} /\ "failed" \notin StatusesOf(v)

\* Editing agent.json cannot retire a view that could have run: when one is on
\* disk whole, fits the platform and is not declared, no scan exits 0, whatever
\* was asked for (selectProbes, "measured 2026-09-04").
NoViewIsRetiredQuietly ==
  exit = 0 => ~ \E v \in Views : AppliesTo(v) /\ Undeclared(v) /\ PackageCarries(v)

\* "one coverage record per requested capability holds by construction" (the
\* comment on Probe.NotApplicable, probe.go).
OneRecordPerView ==
  \A c, d \in coverage : c.probe.view = d.probe.view => c = d

\* Every scan comes to an exit code.
ScanEnds == <>(exit # NoExit)
=============================================================================
