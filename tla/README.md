# ShellSight in TLA+

A verification project for ShellSight: a webshell scanner (`src/shellsight`) and the
web console a team keeps its rules, builds and scan results in (`src/console`). The
modules are translated from the Go source; TLC checks them on small instances, and
TLAPS proves properties of seventeen of them for every value of their constants.

Contents: [the system](#the-system), [modules](#modules-and-the-code), [runs](#the-runs),
[bounds](#bounds-and-why-they-are-enough), [fairness](#fairness), [proofs](#proofs),
[disagreements](#disagreements-between-code-and-comments),
[limits](#what-is-not-modelled), [plan](#plan).

## The system

**The scanner.** `shellsight scan` reads `agent.json` (the views the build declares),
looks which probe executables the package holds, selects the probes for the platform and
runs them side by side, each a child process with a deadline. A probe prints one JSON
document on stdout: findings, and a coverage record that says whether the view was
examined. The findings are fused into one report with a verdict, the report goes into a
run folder with a manifest of hashes, and the exit code tells a scheduler what was found.

**The console.** Analysts edit YARA rules, put them together in rule sets, freeze a set
into a compiled blob, build agents from it, and import the run folders that come back.
State is kept in PostgreSQL and in a content-addressed blob store; requests run
concurrently, and bulk imports are separate processes.

| component | state it keeps | operations | what is hard | what makes it correct |
|---|---|---|---|---|
| probe process (`internal/orchestrator/probe.go`, `observe.go`, `terminate.go`) | child, two pipes, two captures, deadline | spawn, capture, cancel, kill, wait, classify | five concurrent parties; late answers; floods; children that hang or ignore SIGTERM | nothing is reported that was not earned; nothing earned is lost to noise; every gap has a reason; no mirror of live samples left by a timeout; the run ends |
| parallel probes and fusion (`scan.go`, `internal/fusion`) | one slice of findings | append, normalise, deduplicate, score in place, roll up | order of arrival; rewriting a list while reading it | the report is a function of what the probes said; escalation is earned; the verdict is honest |
| scan driver (`cmd/shellsight`) | selected probes, coverage, exit code | resolve views, select, pair, run, assess, exit | package, declaration, flag and platform disagree in many ways | exit 0 is an all-clear; no view is retired in silence |
| run folder (`internal/output`, `scratch.go`) | report, manifest, scratch directory | prepare, clean up, write, hash | a death between two writes; two scans in one second | a reader can tell whole from torn from changed |
| report import (`cmd/console/importreport.go`, `internal/report`, `internal/reports`, `SaveScan`) | cases, scans, open transactions | list, load, look up, insert, commit | several importers; lost answers; folders being written | a run is stored once, whole; answers are true |
| rule library (`internal/rules`, `internal/deps`) | rules and numbered revisions | create, edit, delete | concurrent edits; a check in the context of a library that changes | every accepted edit is kept; the library stays usable |
| rule sets, blobs (`internal/ruleset`, `internal/blob`) | selections, exclusions, frozen members, blobs | select, exclude, freeze | two freezes at once; a stop between blob and record | a frozen set never changes and can be rebuilt |
| agent builds and releases (`internal/agentgen`, `internal/release`) | builds, releases, blobs | publish, verify, build, record, download | partial publish; reads that go stale | a recorded build can be produced again, byte by byte |
| triage and decisions (`internal/triage`) | decisions per finding | decide, carry over | a finding that changes between scans | a decision never hides a new finding |
| disk probe (`cmd/diskprobe`, `internal/weblang`) | list of entries, sign cache, hits, coverage | enumerate, gate, match, taint, decode, report | one list opened by many passes over a live tree; names that lie | what was not examined is not reported as examined; renaming hides nothing |
| web-root discovery (`internal/discover`) | proposals, accounts | propose, judge, merge, credit | links, mounted images, refused mechanisms | no proposal is lost; nothing outside the image is scanned |
| taint passes, decoders (`asptaint`, `perlpytaint`, `ssitaint`, `deobfuscate`) | per page: tainted names, layers | propagate, judge; unwrap, fold | scopes; bounds on rounds, depth, layers, output | a proven finding is a flow; nothing stays wrapped unsaid |
| Java engine (`internal/javadisk`) | facts, scopes; budgets, diagnostics | walk artifacts, read statements | budgets over nested archives; shadowed names; merged diagnostics | "complete" is true; facts are lexical |
| archive reading (`internal/safearchive`) | shared total | validate, read | three descriptions of one entry | all readers see the same |
| JVM memory probe (`cmd/jvmprobe`, `jvmattach`, `jvmtarget`, `jvmtriage`, `jvmprov`, the agent) | channel, staged jar, hand-off directory | snapshot, attach, load, capture, judge | JVMs that hang, exit or are scanned twice; redeployments | no trace left, none taken for an intruder's; `ran` and silence are earned |
| native memory and behaviour probes | none | read memory, logs | privileges | a child of the probe runner |

`PROJECT.json` lists all components with their files and, under `hazards`, what in this
code is hard to test, each at its line, with the property that covers it.

How they interact: the driver hands selected probes to the runner (`Scan` uses the promise
`ProbeContract`, which `ProbeProcess` implements); a probe is a child process, among them the
disk probe (`Discovery` finds its roots, `DiskProbe` is its pipeline, which hands contents to
the taint passes, the decoders and the Java engine) and the java-mem probe (`JvmProbe`, whose
captured classes `JvmEvidence` judges); the probes' findings meet in `Fusion`; the driver
writes the folder of `RunFolder`, which the importers of `Import` read while other scans are
writing, and whose findings `Triage` groups; the library's revisions are what `RuleLibrary`'s
freezes pin, and `AgentBuild` builds agents from those sets.

## Modules and the code

* **`ProbeContract`** - what running one probe promises to the rest of the scan: one
  record, and findings only from a child that finished cleanly.
* **`ProbeProcess`** - one run of one probe in detail. The runner is `pc` (`check` ..
  `done`): `Refuse`, `Begin`, `Start`/`StartFails`, `StreamsRead`, `Wait`, `Classify` are the
  statements of `runProbe` and `runProbeProcess` in their order. `Drain` and `EndOfFile` are
  the goroutines of `captureBounded`; `Deadline`, `Cancel`, `GraceOver` the context, the
  `Cancel` hook of `politeTermination` and `WaitDelay` as os/exec runs them; `Write`,
  `MakeMirror`, `Finish`, `GiveUp`, `Crash` the child, of which nothing is assumed.
  `Verdict`, `Parsed` and `Degrade` are the classification, in the code's order of checks.
* The theorems are in modules of their own: **`ProbeProcessProofs`**, **`ScanProofs`** (of `Scan` and
  `Fusion`), **`ImportProofs`**, **`ConsoleProofs`** (of `RuleLibrary`, `AgentBuild` and `Triage`),
  **`JvmProofs`** (of `JvmProbe` and `JvmEvidence`), **`DiskProofs`** (of `ScriptTaint`, `Deobfuscate`,
  `JavaSource` and `SafeZip`), **`DiskScanProofs`** (of `DiskProbe`, `Discovery` and `JavaArtifacts`), and
  **`NumberLemmas`**, on which several of them rest.
* **`Fusion`** - the appends under the mutex (`Collect`) and `Assess`: `Normalize`, `Dedup`,
  `Score` (one step per finding, because each step reads a list that earlier steps have
  rewritten) and `RollUp`. The reporters are probes, and a finding carries its view: the x86
  companion reports under the view of the probe it goes with (`Program.cs:228`), so two blocks of the
  list may hold equal fingerprints. A finding whose evidence holds several default keys is labelled by
  any of them, as `familyFromEvidence` ranges over a Go map (`first`). `Dedup` states the result of
  the code's loop: what is kept, in the order in which fingerprints were first seen. Scoring is the
  code's table, branch by branch.
* **`Scan`** - from the capability table to the exit code. The inputs (platform, what the
  package holds, `agent.json`, `-views`, a host runtime) are chosen in `Init`; `Select` is
  `selectProbes` with the companion pairing, `Prepare`, `Report` (one per probe, in any
  order), `Assemble` and `Write` the rest of `runScan`.
* **`RunFolder`** - `prepareRunDir`, `cleanupScratch` and `output.Write`, where `os.WriteFile`
  is two steps (truncate, write), a scan may die at any point, and a finished folder may be
  edited. **`Import`** extends it with the importers: `runImportReport`, `findOrCreateCase`,
  `LoadRunFolder`, `IngestFolder`, `SaveScan` statement by statement. **`Archive`** is what
  importing promises, and `Import` is shown to implement it.
* **`RuleLibrary`** - the library with its compile check and numbered revisions, and rule
  sets with exclusion and freeze. A rule text is the name it declares and the names it
  refers to; that is all `yr compile` and the dependency graph tell apart here.
* **`AgentBuild`** extends `RuleLibrary`: `runPublish` (verify, one blob at a time, record),
  `BuildAPI.create` from the selection of the set to the recorded row (one step per
  statement, so that rules are deleted and sets frozen between them), downloads, and a store
  that loses or changes blobs. **`Triage`** - `triage.Groups`, the decisions and the prior
  decisions beside a page that is read in two steps. A finding is its place in its scan, a
  decision its id, and both lists are put in order by how many come before one (`RankOf`,
  `InOrderOf`).
* **`RuleScope`** - what a file may be examined by: the language its name claims, the signs of
  its content, the admission of rules, passes and layers. **`DiskProbe`** extends it with
  `runDiskProbe`: `Enumerate`, `ReadSigns`, the engine's scan of each root (`Engine`), `Taint`,
  `JavaScan`, the decoded layers (`Mirror`) and `ReportDisk`, over a tree whose entries may become
  unreadable in between (`Vanish`). The mirror's life is `ProbeProcess`'s.
* **`Discovery`** - one action per mechanism in the order of `Discover`, each with its own
  account; `Weigh` judges one proposal and lists the refusals as long as there is room
  (`MaxReported`; all are counted), `Nest` merges, `Reconcile` credits, `Gate` is
  `webrootgate.go`. `Resolve` is `evalSymlinksUnder`, link by link.
* **`ScriptTaint`** - `asptaint`, `perlpytaint` and `ssitaint` as rounds over the assignments of
  a page (`Propagate`, `EndRound`) and the judgement of its sinks (`JudgeSinks`); the reference
  `Flows` is the least set of variables closed under assignment, as the language scopes them.
* **`Deobfuscate`** - `Run`: the recursion of `state.walk` is the list `work`, innermost call
  first; `AddLayer` is `state.add` with its bounds; `FoldPass` and `FoldConstants` are `Fold`.
* **`JavaArtifacts`** - the Java pass over artifacts: loose classes in groups, archives and
  nested archives as a stack of frames, every limit of `limits.go`, duplicate digests,
  diagnostics merged by code, and `javaArtifactCoverage`, which reads them back. What is beside the
  artifacts is `aside`: directories that cannot be listed, and pages that another name hides and the
  content shows (`SignedPage`), which are analyzed between the loose files and the archives.
  **`JavaSource`** - the source analyzer's `declare`, `pushScope`, `popScope`, assignments and
  sinks over one flat table. A statement says whether it declares its name in the language, which is
  not what the analyzer goes by. Three ghosts: `env` is an environment per scope as the language has
  it; `strayed` holds the names the analyzer has taken for others, in one of the four ways of
  `Strays`; `due` is what is to be found by names that were not.
* **`SafeZip`** - `ValidateZIPLocalHeaders`, `PrepareZIP` and `ReadZIPEntry` over archives given
  as their records, their offsets and the words that follow an entry's data. Whether a descriptor has a
  signature is a reading of those words, and `c.file.data` is where archive/zip would read.
* **`JvmProbe`** - the scanners (`pc` runs through the sweep, snapshot, sentinel, signal, staging,
  load, hand-off and cleanup), the JVM's attach listener and the agent's `agentmain` (`TakeUp`,
  `CaptureClass`, and the two writes at its end, `WriteLog` and `EndAgent`, each of which may be lost
  or cut on a full disk without the other); JVMs hang or exit, clocks run out and disks fill up. A
  class is its place in the order of the sweep. When a scan gives up while its agent may still run,
  removing the hand-off (`ClearedBeside`) may empty it and leave it there. `littered` remembers the
  JVMs in which a staged jar could not be written and stayed, `outlived` those whose agent a scan has
  given up.
  **`JvmEvidence`** - claim, redeployment, verification and the ladder of `fuse.go`.
* **`MCFusion`, `MCScan`, `MCJvm`, `MCImport`, `MCRuleLibrary`, `MCConsole`, `MCDisk`, `MCJava`** -
  constants for TLC. **`MCScanParts`** and **`MCDiskParts`** put several modules into one
  instance: the parts share no variable, `part` says which one moves, and the others rest in one
  state of theirs, so that the state space is the sum and not the product of the parts'.

Definitions marked "Mutant" are plausible bugs of the definition below them. They are not part of any
specification; substituting one must break the property that `PROJECT.json` names, which
shows that the property looks at the code and does not hold by itself.

## The runs

| run | question | result |
|---|---|---|
| `probe` | every interleaving of runner, captures, watcher and child: reports earned, noise harmless, gaps explained, mirrors gone, contract implemented, run ends | holds |
| `scan` | driver: is exit 0 an all-clear, is no view retired in silence, does every scan end? Report: is it independent of order, escalation earned, evidence monotone? JVM probe: nothing left behind but by an agent that outlived its scan, no false footprint, `ran` earned, does it end? Classes: is silence earned? | holds |
| `disk` | pipeline: is `ran` honest, is a renamed file found? Discovery: every proposal answered, mechanisms credited, confined to the image? Taint: findings proven, includes complete? Decoders: nothing left wrapped unsaid, but by two bounds? Java: "complete" true, scopes lexical? Archives: do all views agree? | holds |
| `import` | two importers, crashes, lost answers, a folder being written, one that cannot be stored: stored once and whole, answers and integrity true, every import ends? | holds |
| `rules` | concurrent edits, freezes, deletions, a restart: edits kept, frozen sets fixed and reconstructible? | holds |
| `console` | interrupted publishes, faulty blobs, colliding build ids, a set frozen while it is read: releases whole, agents self-contained, answers true? Triage: is a page whole? | holds |
| `fusion_keys`, `scan_companion`, `import_sweep`, `rules_library`, `rules_exclusion`, `jvm_truncation` | one statement each of a comment of the repository | violated, see below |

All passing runs together fire every action of every next-state relation. Deadlock checking is
off because each system really stops: a probe run, an assessment, a scan, an analysis of a file
and an import end; a rule library whose requests have all been made, with nothing left to delete
or select, has nothing to do.

What some of the properties say beyond a single branch of the code:

* `ReportsAreEarned` relates the final record to what the child did, several steps of
  several parties earlier. It is what the order of the checks in `runProbe` and of "read
  both streams, then Wait" is for. `NoiseDiscardsNothing` is its converse.
* `ReportIsOrderFree` compares the in-place scoring with a reference that keeps one finding for every
  fingerprint, of those that score highest (`Top`), and scores each once against the others' original
  words. Where two probes of one view report one fingerprint with one score, the order settles
  which of the two is kept, and nothing else. In-place scoring is harmless because no credible peer's
  credibility depends on a field that scoring rewrites.
* `DiskIsHonest` relates the status a probe reports to what the engine and the Java pass had
  open, over a tree that changed between listing and opening. `RenamedIsAsNamed` compares two
  files of one content, through name, signs, rules and layers.
* `EveryProposalIsAnswered` follows each proposal through judging, merging and nesting, and counts the
  refusals of which the list has room for some; `MechanismsAreCredited` compares the accounts
  of the mechanisms and the names a root carries with what was proposed and accepted: no
  mechanism is said to have found what it did not, and none's find is forgotten in a merge.
  `DiscoveryIsConfined` judges the result by where a path leads.
* `ProvenMeansAFlow` and `IncludesMissNothing` compare rounds over keys with what the language
  means. `ScopesAreLexical` compares a flat table with put-back values with the language's
  environments, declarations that the analyzer does not see included, and says which names it
  may be wrong about. `UnwrappingIsClosed` names the two bounds after which a layer may hide
  something though `Truncated` is not set.
* `CompleteIsTrue` compares the coverage read back from merged diagnostics with what happened to
  each artifact, with the members that were really examined, and as what, and with the places
  that could not be listed.
* `ViewsAgree` reads an accepted archive a second time, the way a reader that trusts the local
  headers would, and a third time where archive/zip says the data starts.
* `NothingIsLeftBehind`, `OwnFootprintIsNotEvidence` and `RanIsEarned` speak of two scanners of one
  JVM, several steps of each apart, and of agents that go on after their scanner. The exceptions
  are named in them: the hand-off of such an agent, a jar that could not be written, a sweep
  whose budget was told only in a log that the full disk lost. `SilenceIsEarned` judges by what is on disk at the end, while
  the claim was made before a redeployment.
* `AgentIsSelfContained` and `AnswerIsTheRecord` hold over every order of the build's reads with
  deletions, freezes, faults and a second build; `PageIsWhole` over decisions that arrive between
  the two reads of a page.
* `NoViewIsRetiredQuietly` and `ZeroIsAllClear` quantify over all combinations of inputs.
* `ImplementsArchive` is refinement: each commit, and each answer, maps to a step of a
  specification that knows nothing of transactions.
* `IntegrityIsTrue` relates the integrity an importer stored to the history of a folder
  that changed while it was being read.

## Bounds, and why they are enough

* `probe`: two units of output per stream, a pipe of one unit and capture limits of one:
  a child can stay below, meet and exceed a limit, and must block on a full pipe. The
  documents are all of `Documents`: every form, status, reason, coherence.
* `scan`, report: three probes, two of which report under one view, with at most two findings of the
  first and one of each of the others (`MaxPerProbe`), from pools that meet each branch of the
  scoring, duplicates included. Corroboration is about pairs; this gives pairs within a probe, between two
  probes of one view and between views, and duplicates within a probe and between probes, with one
  score and with two, and both default keys in one finding.
  At most three findings come together, and two when there is a gap in coverage, which only the verdict reads.
* `scan`, driver: three rows of the capability table, one of each kind (required, optional with a
  host runtime, companion), one unknown name, two platforms; declarations of one, two or all four
  names and at most two names asked for, the unknown one alone. Selection treats views one by one except for the
  companion pairing and the rule that something must be runnable. Answers are three: all clear,
  failed, found and truncated.
* `scan`, JVM probe: two scanners, two processes and one incident (a hang, an exit, a kill, a
  spent clock, a full disk), over fourteen hosts that between them have every kind of process, user,
  sentinel, disk and class; the agent captures at most two classes (`MaxCapture`), and one host holds
  more. Collisions are between two scanners of one JVM. Of the classes, those that make a
  difference to some rung of the ladder.
* `disk`, pipeline: pairs of files that share a content under several names, one entry that
  vanishes (`MaxVanish`). Discovery: hosts with one odd thing each, live and mounted, every
  mechanism refused once, two refusals listed (`MaxReported`; the code has 20) and hosts with three,
  links two deep (`MaxHops`; the code has 40). Pages of up to four
  statements, and two rounds (`MaxRounds`, the code's is 8), so that the bound is met. Three texts
  that hide each other in every way, with depth, layer, output and inflation bounds that are all
  exceeded. Three artifacts and archives nested as deep as they are followed, each limit
  exhausted by some disk, beside pages under other names and directories that cannot be listed. Java files
  of five statements, three names, two open blocks, with every way of declaring a name.
  Archives of two entries with up to two wrong fields of 36 kinds.
* `console`: three releases, a view with rules and one without, two builds that share a
  truncated id, one faulty blob; two scans of two cases with findings of one content, two analysts
  and two decisions.
* `import`: two scans, one finished and one in progress, two importers; a crash or a
  database error at any step. The races are between two transactions on one key.
* `rules`: a library of one foundation and one own rule and room for one more, two write
  requests and two freezes, two texts to write, two selections. One request per writer
  bounds the revisions. `Writers` and `Freezers` are symmetric.

## Fairness

* `probe`: weak fairness of the runner's steps, the captures, the watcher and the timers:
  the Go scheduler runs goroutines that can run, and timers fire. Nothing is assumed of the
  child: it may hang and ignore signals; only SIGKILL is taken to work.
* `scan`: weak fairness of the driver's next step: every step is the scanner's own, and that
  each probe reports is `RunEnds` of `ProbeProcess`. Weak fairness of each JVM scanner's own steps
  and of its deadline. Nothing is asked of a JVM: it may hang, exit or never answer.
* `import`: weak fairness of each importer's steps. The database answers or fails; scans
  owe nothing and may die.
* `rules`, `console` and `disk` have safety properties only: their steps are requests that nobody
  owes, or sequential analyses whose loops the models bound by the code's own limits.

## Proofs

Eight modules hold theorems and lemmas. Each theorem is about every value of the constants that the named
assumptions of the model allow: any number of probes' streams, scanners, JVMs, importers, writers
or builders, any table, library or set of folders, and not the instance that TLC looked at.

All follow one pattern. The property a run checks is seldom inductive, because it speaks of the end
of a run or of one table of several; so each proof module defines the strengthening `...Inv` that
says what every state on the way allows, TLC checks that on the run's instance first, and then

    Init => Inv        Inv /\ [Next]_vars => Inv'        Inv => Property

are proved, the middle one with a step per action and below it one per conjunct the action
disturbs.

### The probe process (`ProbeProcessProofs`; `SizesAssumption`, `DocsAssumption`)

| theorem | statement |
|---|---|
| `TypeCorrect` | `Spec => []TypeOK` |
| `ReportsEarned` | `Spec => []ReportsAreEarned` |
| `GapsExplained` | `Spec => []EveryGapHasAReason` |
| `NoiseHarmless` | `Spec => []NoiseDiscardsNothing` |
| `MirrorsRemoved` | `Spec => []MirrorOutlivesOnlyAKill` |
| `ContractImplemented` | `Spec => ImplementsContract` |

Of the four safety properties only `EveryGapHasAReason` is inductive over the types. The invariant
is

    Inv == TypeOK /\ Order /\ Mirrors /\ ReportsAreEarned /\ EveryGapHasAReason /\ NoiseDiscardsNothing

* `Order` says what the runner's place implies: no report before `done`; no child before
  `read` nor for a probe that is refused; a running child only while the runner is in `read`
  or `wait`; a stream published only when the child has ended and its pipe is empty, and both
  published from `wait` on; a child that exits 0 has written all; a cancelled watcher means
  an expired deadline. This is where "streams before Wait" enters.
* `Mirrors` says who can leave a mirror: only a child that crashed or was killed, and a kill
  with SIGTERM available implies that the watcher is overdue.

The refinement proof shows that `Finish`, `GiveUp`, `Crash` and the kills map to the contract's
`End`, `Refuse` and `Classify` to its `Conclude`, and that all other steps stutter; it uses `Inv`
to know that a verdict on a child that did not exit 0 is `Failed`.

### The report (`ScanProofs`; `PoolAssumption`)

| theorem | statement |
|---|---|
| `ReportKeepsInv` | `FusionSpec => []FusionInv` |
| `ReportsAreOrderFree` | `FusionSpec => []ReportIsOrderFree` |
| `ConfirmationsAreEarned` | `FusionSpec => []ConfirmedIsEarned` |
| `EvidenceNeverLowers` | `FusionSpec => []MoreEvidenceNeverLowers` |

For any number of probes and findings, several probes of one view among them. Until deduplication
`FusionInv` says that the list is made of blocks, one per probe that has ended, each with that probe's
output in its order (`Blocks`); the starts of the blocks are all that the order of arrival decides.
What deduplication keeps is, whatever the order, a finding of `Top` for every fingerprint that was said
(`KeptRepresent`): one that its own probe's output has first among its highest, and that no other
probe scored higher. From then on there is a choice `reps` of one such finding for each
place, no two of one fingerprint, and the places before `next` hold `Against(reps[n], Image(reps))`
(`Places`). The step of `Score` needs that a
peer which is already scored is asked only about fields that scoring leaves alone (`RescoredKeeps`);
that is what makes rewriting in place harmless. `ConfirmedIsEarned` and `MoreEvidenceNeverLowers`
then are statements about the scoring table: what makes it answer "confirmed"
(`ConfirmedHasReason`), and that a peer never lowers the tier (`OpinionsOnlyRaise`).

### The scan driver (`ScanProofs`; `TableAssumption`, `AnswersAssumption`)

| theorem | statement |
|---|---|
| `ScanKeepsAccount` | `Spec => []ScanInv` |
| `ZeroIsVouchedFor` | `Spec => []ZeroIsAllClear` |
| `RetiredViewsShow` | `Spec => []NoViewIsRetiredQuietly` |

For any capability table, platform, package and declaration. `ScanInv` follows the account: what is
selected contains `SelectProbes` and a probe to run; from `write` on every selected probe has
exactly the records it may have; and an exit of 0 was decided on a clean tier and complete coverage.
Two lemmas about the selection carry the rest: every view that was asked for has a probe
(`AskedForIsSelected`), and a view on disk whole that the build does not declare is selected as one
that cannot run (`RetiredIsSelected`), so that its record makes the coverage incomplete.

### Imports (`ImportProofs`; `ScansAssumption`, `FoldersAssumption`)

| theorem | statement |
|---|---|
| `ImportKeepsInv` | `Spec => []ImportInv` |
| `EveryFolderIsAnswered` | `Spec => []NoFolderIsAbandoned` |
| `StoredIntegrityIsTrue` | `Spec => []IntegrityIsTrue` |
| `ImportsKeepThePromise` | `Spec => ImplementsArchive` |

For any number of scans, hosts and importers, whichever die and whenever. The parts of `ImportInv`:

* `FoldersAreTheirScans` - a folder that one scan has to itself holds what that scan has written so
  far (`Written`), and a whole manifest names the scan's own report. Two scans of one second share a
  folder; of those nothing is claimed, as in the property.
* `HandIsSound` - what an importer read stays true while the folder goes on changing (`IsTrueOf`): a
  report may be edited after it was read, and what was read is still the scan's or an edit of it.
* `ClaimsAreExclusive` - of two open transactions with rows, the runs differ. This is the unique
  index at work, and what makes a commit store a run once.
* `StoreIsSound` - what is stored is whole and true.

In the refinement, `Commit` maps to the archive's step that stores, answers to its answers, and all
that happens inside a transaction stutters.

### Rules and rule sets (`ConsoleProofs`; `LibraryAssumption`)

| theorem | statement |
|---|---|
| `LibraryKeepsInv` | `Spec => []LibraryInv` |
| `FrozenCanBeRebuilt` | `Spec => []FrozenIsReconstructible` |
| `NoEditIsLost` | `Spec => []EditsAreKept` |
| `FrozenSetsAreImmutable` | `Spec => FrozenNeverChanges` (an action property) |

For any library, any number of writers and freezers. `EditsInOrder` says that one edit of a rule at
a time is past the lock and holds the next number: without it the number could be taken when the
revision is inserted. `FreezesAreSound` carries a freeze from the compile to the record: its pins
are revisions that exist and compile together, and once the blob is put it is in the store. The key
lemma is `SoundStays`: because no step takes back a revision (`RevisionsStay`; deletion only marks),
a sound set of pins stays sound and compiles to the same blob, whatever is edited in between.

### Agent builds (`ConsoleProofs`; `BuildAssumption`)

| theorem | statement |
|---|---|
| `ConsoleKeepsInv` | `ConsoleSpec => []ConsoleInv` |
| `ReleasesAreWhole` | `ConsoleSpec => []ReleaseIsWhole` |
| `AgentsAreSelfContained` | `ConsoleSpec => []AgentIsSelfContained` |
| `AnswersAreTheRecord` | `ConsoleSpec => []AnswerIsTheRecord` |

`ConsoleInv` is `LibraryInv` with `PublishingIsSound` (a publish under way verified its folder, and
what is not left of it is stored) and `BuildingIsSound` (what a request has read is still so). A
build reads over seven steps while rules are deleted, sets frozen and blobs damaged; that what it read
first is still true when it records is `NothingTakenBack`: releases and builds only grow, frozen
sets keep their members, altered blobs stay altered.

### Triage (`ConsoleProofs`; `ScansAssumption`)

| theorem | statement |
|---|---|
| `TriageKeepsAccount` | `TriageSpec => []TriageInv` |
| `PagesAreWhole` | `TriageSpec => []PageIsWhole` |

For any scans, analysts and decisions. A page is read in two steps, and decisions arrive between them
and after them, so `PageIsWhole` says of a page what was decided when the page was asked for.
`TriageInv` is what survives: `PageAsked` (the groups are those of the scan, and what was seen is a
prefix of the table) and `Shown` (of each group all the seen judgements about its content and no
other, latest first). Decisions are only appended, so a page once told stays told (`StaysTold`). The
static half is about the grouping: each finding is in exactly one group and no worse than its group, and
groups come worst first (`GroupsAreTrue`), which needs that sorting by a strict total order loses
nothing (`Ranked`).

### JVM memory probe (`JvmProofs`; `JvmAssumption`)

| theorem | statement |
|---|---|
| `ScansKeepJvmInv` | `JvmSpec => []JvmInv` |
| `ScansReportOthersOnly` | `JvmSpec => []OwnFootprintIsNotEvidence` |
| `ScansLeaveNothing` | `JvmSpec => []NothingIsLeftBehind` |
| `ScansEarnTheirStatus` | `JvmSpec => []RanIsEarned` |
| `SilenceIsAlwaysEarned` | `EvidenceSpec => []SilenceIsEarned` |

For any number of scanners and JVMs on any host, and any number of incidents. Per scanner:

* `PlaceIsSound` - targets are taken up one by one, and the JVM in hand is not among those it has
  been in; `RefusalsAreTold` - a JVM left without having been in it has refused.
* `CapturesAreKept` - what was read from an agent that said it was done is what is in the hand-off,
  for good, because the agent has dropped the hand-off and nobody else writes there; and a log that was
  written says what ended the sweep (`ToldOrLost`), so that only one which was lost or cut is silent of a
  budget.
* `StatusIsEarned` - the coverage record against those two.

And across scanners: `ChannelsAreAccountedFor` (a channel in use was in use before, or a scan that
has got to that JVM did it) and `LeftoversHaveOwners` (each file in a running JVM's filesystem
belongs to a scan at a place where it will remove it, or to one that was killed, or to an agent that
its scan has given up, or is a jar that could not be written). `EvidenceInv` says of a judged
class that its finding is what the ladder gives for the claim, the origin and what is loaded; the
lemma `LeastRung` makes the ladder's first rung a rung that holds.

### Taint passes and decoders (`DiskProofs`; `PagesAssumption`, `StatementsInOrder`, `CorporaAssumption`)

| theorem | statement |
|---|---|
| `OnlyFlowsAreTainted` | `TaintSpec => []TaintInv` |
| `FindingsAreProven` | `TaintSpec => []ProvenMeansAFlow` |
| `IncludesAreWhole` | `TaintSpec => []IncludesMissNothing` |
| `UnwrappingKeepsAccount` | `UnwrapSpec => []UnwrapInv` |
| `OnlyUntoldBoundsLeaveWrapped` | `UnwrapSpec => []UnwrappingIsClosed` |

For any pages and any number of rounds. `ProvenMeansAFlow` speaks of the end; what is carried
through the rounds is `TaintInv`: every key the pass has tainted stands for a variable in
`Flows(page)`. The step rests on three lemmas: the key chosen for a name stands for the variable the
language means, what carries taint for the pass is fed in the sense of the flows, and the flows are
closed under assignment.

The converse does not hold of the first two passes, because their bound on rounds misses flows. The pass
over server-side includes has as many rounds as the page has directives, and there it does:
`IncludesInv` counts. Every round before the last tainted a name more (`Cardinality(tainted) >=
round`), there are no more names than directives, so the rounds cannot run out before one of
them taints nothing; and after such a round every assignment is fulfilled, which makes the tainted names
closed under assignment and so contain the least such set. That a directive sets one name at
most (`StatementsInOrder`) is what the count needs, and what `#set var` is.

Of the decoders, for any texts and all bounds: the invariant keeps the account while there is work. Each
layer is explored (its walk is still on the list, or each text it hides is a layer, is on the
list to be added, or a bound was reported) and, if it was a blob, unpacked in the same sense, where an
inflation longer than its bound counts by its first part. When the list is empty and no bound was
reported, that account is the promise, with what the two silent bounds take from it said in the
theorem's own words: an inflation that was cut, whose beginning is a layer, and a fold that was stopped
by its size or its passes before nothing changed.

### Java sources and archives (`DiskProofs`; `StatementsAssumption`, `ArchivesAssumption`)

| theorem | statement |
|---|---|
| `SourceKeepsScopes` | `JavaSpec => []JavaInv` |
| `FactsAreLexical` | `JavaSpec => []ScopesAreLexical` |
| `ArchiveViewsAgree` | `ZipSpec => []ViewsAgree` |

For any names, statements and any depth of blocks. The analyzer keeps one flat table and puts back what
a block shadowed when it ends; the language has a table per block. `Knows` relates them name by name: the
flat table holds what the name means at the innermost depth, and, which is what makes it inductive, what an
open block has put aside is what it means one depth further out, at every depth; where a block declares
the name and the analyzer has not seen it, the declaration has said nothing yet. Closing a block then restores
the outer meaning, also of a name that was declared twice. A name leaves the relation when the analyzer takes
it for another, and then it is in `strayed`. What a statement finds depends on the names it mentions
(`ExpressionSaysTheSame`), so what is due by names in the relation is found, and `MoreFoundNeverLowers` carries
that to the scores.

For any archive that is accepted: since the central records, the local headers and the
readers' view must each agree with the next, a reader that trusts only the local headers finds the same
entries in the same places, and so does the library the scan reads with. A descriptor that could be
read with a signature and without one is refused. `ZipInv` carries the validation to every state after it; the rest is arithmetic
about offsets, one lemma per form of a size (plain, ZIP64, in a descriptor).

### The disk probe (`DiskScanProofs`; `TreesAssumption`, `RulesAssumption`)

| theorem | statement |
|---|---|
| `DiskKeepsAccount` | `DiskSpec => []DiskInv` |
| `ViewsAreHonest` | `DiskSpec => []DiskIsHonest` |
| `RenamingHidesNothing` | `DiskSpec => []RenamedIsAsNamed` |

For any tree, rules, texts and roots, whatever vanishes while the probe runs. `DiskInv` has three
parts beside the types: `Accounted` (each entry of a root that has been listed is in the list, or in the
skip that names its reason), `Told` (what the coverage record says against those) and, as long as
nothing has vanished and the engine was not cut short, `Found`: what each pass has collected so far is a
function of the list and of the roots it has been through. `RenamedIsAsNamed` compares two files at the
end; with `Found` it is a comparison of two values of those functions, and the proof goes pass by
pass: rules, taint, Java, decoded layers. It shows where the two names matter: not in `SignsFor`, and in `Hits` only through the
language that the content shows anyway. The order in which decoded layers are reported is free
(`Orders`), so what is proved holds of any order.

### Web-root discovery (`DiskScanProofs`; `HostsAssumption`, `ComponentsAssumption`, `SearchesAssumption`, `TablesAssumption`)

| theorem | statement |
|---|---|
| `DiscoveryKeepsAccount` | `DiscoverySpec => []DiscoveryInv` |
| `EveryProposalAnswered` | `DiscoverySpec => []EveryProposalIsAnswered` |
| `DiscoveryStaysConfined` | `DiscoverySpec => []DiscoveryIsConfined` |

For any host, with any links, configurations and refusals. The assumptions say that configurations, the
command line and the tables hold sequences of paths, and paths are sequences of components.
`DiscoveryInv` follows each proposal. While mechanisms take their turns, what is proposed is
a place within the filesystem that is scanned (`Good`: the operator's own paths are the exception). While
proposals are judged, roots differ, each was accepted from some proposal (`Kept`), and what has been
judged is covered by a root, refused and on the list unless that is full, or a silent miss of a convention
(`Answered`); the refusals are as many as the total says (`Counted`). After
`Nest` no root encloses another (`Apart`) and still everything accepted is covered, because of the roots
that enclose a given one there is an outermost (`OutermostCovers`, a greatest-element argument over
`NumberLemmas`). Confinement is then a property of `Verdict`, where links are resolved. How often a link
is followed is bounded by `MaxHops`; the theorem is about whatever that resolution answers.

### The Java pass over artifacts (`DiskScanProofs`; `DisksAssumption`, `ContentsAssumption`, `LimitsAssumption`)

| theorem | statement |
|---|---|
| `CompleteMeansExamined` | `NoPolyglots` implies `ArtifactsSpec => []CompleteIsTrue` |

For any tree of files, contents nested in any way, and limits, of a scan that nobody stopped. The assumptions say that artifacts have
absolute paths of ordinary components, that a class is grouped below a directory or alone, that
the names of classes are no path's beginning, and that what has members opens as an archive and
has finitely many. The difficulty is that the property reads the record of diagnostics, where all with one code have been
merged twice (in a group of classes and in a result) into one with an artifact and a count, and
must find in it everything that ever went wrong. The invariant, `AllIsWell`, holds until the scan is
stopped, and has four parts:

* `Shape`: which of the pass's variables are in use at which stage, and that frames and classes belong
  to the archive being scanned.
* `Telling`: each artifact in `troubled` is reached (`About`, `PointsAt`) by a diagnostic in the record
  or in the result that will be flushed to it. Merging keeps that (`LooseAdds`): a diagnostic that counts
  more than one is about all, and one that counts one is the only occurrence, so it names its artifact
  (`AggregatedIs`).
* `EachAccounted`: each artifact enumerated had trouble, has been examined through and through as what it
  is, or waits.
* `Scanned`: for the archive being scanned, if it had no trouble, there is a set of contents entered so far
  that is closed but for the members still pending in a frame, and everything a digest was kept
  of has been seen to. When no frame is left, the set contains whatever can be reached
  (`FollowedIsWhole`).

A second invariant, `ShutTold`, says that every directory met that could not be listed is in the record of
diagnostics, which no merge removes: so no artifact below it is called complete, and none at all if nothing
was seen there.

For a group of classes, `DecodedSays` shows that a class is analyzed unless it comes after the one that
exceeds the instruction limit (`ChargesAddUp`, `OverIsStopped`), and that whatever keeps a class from being
analyzed is said. `NoPolyglots` is needed: a content is read once, as the member that comes first, so an archive
that was met before under the name of a page or a class would not be entered, and its members would not be
examined. The run's contents satisfy it, and TLC checks that (`ContentsHaveOneKind`).

### Lemmas about numbers (`NumberLemmas`)

The library's induction theorems take the predicate as an operator, which no installed prover can
instantiate. Its theorems on well-founded relations take a set: `LeastNumber` says that a nonempty set of
naturals has a least element, `UpTo` turns that into induction up to a bound, `Recursion` says
that a function defined by steps exists and steps, `HighestNumber` gives greatest elements, `Onto`
compares the sizes of a function's domain and range, and `Ranked` counts off a finite set by a strict
total order, which is what sorting does.

### What the attempts showed

* `JvmProbe` had one flag for "a jar could not be written", overwritten at the next JVM. The proof of
  `NothingIsLeftBehind` did not go through, and TLC refuted it on a host with two full disks; the
  model now keeps the set of JVMs (each staging leaves its own file in the code).
* An earlier form of `OwnFootprintIsNotEvidence` excused a channel that another scan has in hand right
  now. That is not stable: when the other scan moves on, the evidence stays in the report. TLC found
  it on a host with two JVMs and two scanners. The property now says what the code can promise: a
  sign of a channel in use was there before, or comes from a scan that has got to that JVM.
* The classification of integrity and the scoring table were `CASE`s whose arms overlap. TLC takes the
  first that holds; by the definition of `CASE` any may be taken, so they are now written as the code
  has them, one check after the other.
* `DiskProbe` sorted the decoded layers with a helper that said nothing of layers that tie. The code's
  sort leaves those in an order of its own, so the model now has every order (`Orders`), and the theorem holds of each.
* In `DiskProbe`, a Java pass that opened nothing never left its stage: the quantifier over what was opened
  took in the condition that roots were left. Nothing is checked of a probe that does not end, so TLC
  was content; the invariant's account of the roots was not provable. The condition is now outside.
* `RenamedIsAsNamed` did not say what it needs of the two files. A program that the name gives to Perl and
  the first line to Python is read differently under another name, and a rule that declares a
  misspelt language is narrowed by nothing where the name tells the language and refused where none does. Both
  are the code's; the property now leaves them out by name.
* Sorting through a bijection chosen with `CHOOSE` says nothing to the provers. Where order matters
  (`Triage`), the model puts each element at the place given by how many come before it, which says the same of a
  strict total order and can be reasoned about.
* `Place` in `DiskProbe` and `Judge` in `Discovery` had overlapping `CASE` arms, as above.
* `JavaArtifacts` sorted with a library operator of one fixed order among ties, and folded diagnostics in through a sequence
  of a set. Both are recursive, and neither order is the code's to promise. The model now takes any
  order that the comparison allows (`InOrder`, `InTurn`) and merges codes at once (`AddDiagnostics`).
* `CompleteIsTrue` could not be proved of archives whose bytes were first met under another kind of name:
  the digest is kept before the kind is looked at. The theorem has that as its hypothesis.

### Only model-checked

* Liveness: `RunEnds`, `ScanEnds`, `JvmScanEnds`, `ImportEnds`. They need fairness and `ENABLED`.
* `MechanismsAreCredited`: it counts the roots that hold what a mechanism proposed, over the folds of
  `Nest` and `Reconcile`.
* `CompleteIsTrue` of contents that are an archive and something else too: there it is false (see
  below). That the counters stay within the decoders' and the Java pass's budgets is no property of its
  own; what happens at each limit is part of the theorems above.

## Disagreements between code and comments

Each has a run whose counterexample shows it; `PROJECT.json` quotes the lines.

1. `rules_exclusion` - no exclusion can be made through the console, because nothing loads
   the reference graph (`ruleset.go:120`).
2. `rules_library` - deletions and renames are not checked, so rules that were each accepted
   no longer compile together (`rules/service.go:106`).
3. `scan_companion` - a build that declares `dotnet-mem` without its x86 companion gets two
   coverage records for the companion (`main.go:182`), and the console refuses the run.
4. `import_sweep` - run ids are seconds; of two hosts scanned in the same second the second
   is answered "already present" and never stored (`main.go:227`).
5. `fusion_keys` - the memory probes write family labels in lower case, which fusion does
   not count as attributed (`fusion.go:307`).
6. `jvm_truncation` - a sweep that threw, or whose classes timed out, is reported as `ran`: only an
   exhausted budget becomes an "incomplete:" line, and `declined.tsv` is not read
   (`main_linux.go:287`).

Seen while modelling, and left without a run of their own:

* `attach_linux.go:59` says the staged jar's name keeps two concurrent scans from colliding. The
  name is a digest of the jar and the target's pid (`types.go:35`), equal for two scans of one
  JVM; the first to end removes it. `JvmProbe` has the collision; the second scan reports a
  refusal.
* With `--root`, the drop-in directories of Apache and nginx are globbed on the live host
  (`webroot.go:122`, `:194`), so an image's drop-ins are read only where the live host has files of
  the same names; `offlineroot.go:28-30` says every path is read in the scanned filesystem.
* The agent compares a class's bytes with its file and writes `provenance_anomaly`, `claim.go:96`
  parses it, and nothing reads it.
* `finding.go:179` calls an artifact complete when it was "analyzed end to end"; a member whose
  bytes were seen before is skipped (`archive.go:261`), whatever kind it was seen as, and a scan
  that is told to stop may leave artifacts untouched that keep the status. `CompleteIsTrue` speaks
  of contents, and of scans nobody stopped.
* `fskind.go:205` says every other pass consumes the one list; the decoding pass walks the roots
  again (`deobfscan.go`), so a file that appears in between is decoded and not listed.
* `deobfuscate.go:34` says `Truncated` tells whether a bound forced truncation. It is not set when a
  single inflated text is cut (`tryInflaters`, line 259) or when folding stops at its size or its passes
  (`fold.go:265-269`), and the disk probe does not read it at all (`deobfscan.go:88`).
  `UnwrappingIsClosed` has these two as its exceptions. What a layer hides behind escapes, or in
  constants to be folded, is not looked for: only the text itself is normalised and folded.
* The Java analyzer takes for a declaration an assignment with a type in front of it, or a name of three
  known types (`javadisk.go:70-76`, `:131`). `String x;`, an untyped parameter and a local without a
  value declare nothing, so a value given to such a name later stays with it when its block has closed. A
  declaration begins with what the hidden name's declared type said, and without a value with all that was
  known of it; and `else x = y`, `return x = y` and a brace-less loop's variable are taken for
  declarations (`parseAssignment`, 413-425). `strayed` is the set of names to which one of these happened.
* `fusion.go:7` calls assessment deterministic. A finding whose evidence holds both default keys gets either
  family, because `familyFromEvidence` ranges over a map, and the label is part of its fingerprint. Of two
  probes' findings with one fingerprint and one score the one that came first is kept, with its tier and its
  allowlist flag; with two scores, the higher, whatever its tier. The x86 companion leaves to the other
  probe the processes that are not 32-bit (`Acquire.cs:58`), but not those the operator names, dumps, and
  those whose bitness it cannot tell.
* `discovery.go:324-326` wants no mechanism to report a root the scanner never sees. Of three nested places
  the inner one is credited to the middle one, which is itself nested, so one root too many is counted
  (`Deep`). `tomcat-server-xml` reports under another mechanism's name and is never credited: with a sound
  `server.xml` its account ends as "attempted: every path it proposed was rejected by validation". The gate
  says "all %d ... rejected" with the length of the capped list (`webrootgate.go:46-52`).
* With `--root`, a root is judged where its links lead and handed on as it is named (`discovery.go:472`).
  Where an absolute link lies on the way, the kernel takes the walk out of the image.
* `attach_linux.go:67` and the package say that a scan leaves nothing behind. `scanOne` drops the error of
  `os.RemoveAll` (`main_linux.go:169`), and beside an agent that still writes the hand-off stays, with
  what it captures.
* The agent's `errors.log` and `DONE` are two writes whose errors are dropped one by one
  (`ExtractAgent.java:191`, `:197`), and the probe looks at whether `DONE` is there, not at what is in it
  (`main_linux.go:300`). On a full disk the log that tells of the budget may be lost or cut and the marker
  made, empty: the sweep reads as a whole one. `RanIsEarned` names the case.
* `blob.go:4-5` says that integrity checking is inherent because the name is the hash. `Get` (59-65) does not
  hash what it reads. A release file is hashed by the build, a rule blob is not (`builds.go:188`): an
  altered one is shipped under its old hash, which the agent's `yarc_sha256` would show to who computes it.
* A page under another name that cannot be read, or is too large, is passed over in silence
  (`deobfscan.go:515-520`), whatever its comment says of skip accounting; a diagnostic about a page is about
  no artifact of the list, so it lowers the status of all of them.
* `Subsumes` (`discovery.go:97`) is lost when the outer root was proposed before the inner one.
* With `--root`, a configured name is joined to the root as text (`offlineroot.go:53-60`). A name that
  climbs above the root and comes back along the mount's own path is accepted and scanned, and is
  reported as served as a place the configuration does not name (`discovery.go:88`, `output.go:97-98`).
* In the ladder of `fuse.go` more evidence can lower a tier, because the first rung that holds
  wins; a redeployment between claim and check makes an honest class "spoofed"; the jar of a
  failed staging write stays; the sentinel in a JVM's working directory is not seen by `Channel`.

## What is not modelled

Whole components are listed in `PROJECT.json` with the reason: the native memory and behaviour
probes, the rule tool, metadata and packs, the user interface.

Within the modelled components:

* Probes: a grandchild that holds a pipe open after the probe died; the mock probes; resource
  observations. `summary.txt` and `findings.ndjson`, which nothing reads back.
* The tier "likely-malicious" is `"likely"`; texts, techniques and display fields are left out
  throughout.
* Two scans of one host in one second share a run folder. `RunFolder` has the steps; no
  promise of the repository covers the outcome, so no run checks one.
* Disk pipeline: the rule engine's batches and resource limits (it is a process outside the
  repository; a nonzero exit with output counts as a run, as in the code); paths with a line
  break are dropped from its list. What a grammar or decoder finds in a content is data.
* Discovery: regular expressions and XML, the case insensitivity of Windows paths, explicit paths
  that are relative.
* Taint: cutting pages into statements, literals and comments; `constants()`; numeric conversions
  are marked in the statement. `phptaint` walks a syntax tree and is not modelled: its verdict is
  part of a content.
* Decoders: what one decoder or folding rule makes of a text.
* Java: the abstract interpretation of bytecode, the class-file parser, clone tokens (their
  outcome per class is data); directories named with "!/"; the bounded length of diagnostic texts.
* JVM probe: hosts without a namespace pid use the host's; the check of the effective user after `chown`, which cannot be reached; pids that are reused;
  triage signals other than the attach channel are data. A JVM that exits takes its files' owner
  with it, and nothing is claimed about them.
* Rules and builds: the name and version of a rule set, audit and metadata columns, database
  failures in the rule library. `yr compile` is taken not to depend on the order of files.
  `Exclude` can grant nothing while `GraphLoaded` is FALSE, which is what the console's wiring
  gives. A build's rule blob is not hashed again (as in the code), and the count asked of the live
  draft may refuse a frozen set: `AgentBuild` has both. Which of several files with one path is
  stored first is a fixed choice.

## Plan

Done: all modules listed above.

Left, in this order:

1. An abstract specification for the hand-off between JVM probe and agent, and `JvmProbe` as its
   implementation.
2. `phptaint`'s scopes and function summaries as a module beside `ScriptTaint`.
3. The bytecode engine's joins and widening on a small lattice, with its fixpoint bound.
