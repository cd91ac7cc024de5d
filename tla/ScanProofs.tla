------------------------------ MODULE ScanProofs ------------------------------
(***************************************************************************)
(* What a scan says: its exit code 0, for every capability table, platform, *)
(* package, declaration and choice of views; and its report, for any number *)
(* of probes, whatever they report and in whatever order they end.          *)
(***************************************************************************)
EXTENDS Scan, Fusion, NumberLemmas

-----------------------------------------------------------------------------
(* The exit code.                                                           *)

\* Every record is one of the selected probes', and says what that probe may say.
Records == \A c \in coverage : c.probe \in probes /\ \E a \in AnswersOf(c.probe) :
                                 c.status = a.status /\ c.truncated = a.truncated

Selected == /\ SelectProbes \subseteq probes
            /\ \E p \in probes : p.kind = "run"

\* A scan that was not refused has selected its probes; one that is past the probes
\* has a record of each; a clean exit follows from what was assessed.
ScanInv ==
  /\ pc \in {"select", "prepare", "scan", "write", "done"}
  /\ pc # "done" => exit = NoExit
  /\ pc \in {"select", "prepare"} => coverage = {}
  /\ Records
  /\ pc \in {"prepare", "scan", "write"} \/ (pc = "done" /\ exit # 1) => Selected
  /\ pc = "write" \/ (pc = "done" /\ exit # 1) => Reported = probes
  /\ tier \in 0 .. 3
  /\ exit = 0 => tier = 0 /\ ~Incomplete

-----------------------------------------------------------------------------
(* The selection.                                                           *)

\* selectProbes: every view of the table that was asked for has a probe, run or not.
LEMMA AskedForIsSelected ==
  ASSUME NEW v \in Requested \cap Views
  PROVE  \E p \in SelectProbes : p.view = v
<1>1. v \notin Strangers
  BY TableAssumption
<1>2. CASE Registered(v) /\ ~Undeclared(v)
  <2>1. Probe(v, "run", "asked") \in Asked
    BY <1>2 DEF Asked, Runnable
  <2> QED BY <2>1 DEF SelectProbes, Probe
<1>3. CASE Registered(v) /\ Undeclared(v)
  <2>1. Probe(v, Absence(v), "asked") \in Asked
    BY <1>3 DEF Asked
  <2> QED BY <2>1 DEF SelectProbes, Probe
<1>4. CASE ~Registered(v) /\ AppliesTo(v) /\ ~Undeclared(v)
  <2>1. Probe(v, "cannotRun", "asked") \in Asked
    BY <1>1, <1>4 DEF Asked
  <2> QED BY <2>1 DEF SelectProbes, Probe
<1>5. CASE AppliesTo(v) /\ Undeclared(v)
  <2>1. CASE v \in SeenBy(Asked)
    BY <2>1 DEF SeenBy, SelectProbes
  <2>2. CASE v \notin SeenBy(Asked)
    <3>1. Probe(v, Absence(v), "build") \in NotInBuild(SeenBy(Asked))
      BY <1>5, <2>2 DEF NotInBuild
    <3> QED BY <3>1 DEF SelectProbes, Probe
  <2> QED BY <2>1, <2>2
<1>6. CASE ~AppliesTo(v)
  <2>1. Probe(v, "notApplicable", "platform") \in NotOnPlatform
    BY <1>6 DEF NotOnPlatform
  <2> QED BY <2>1 DEF SelectProbes, Probe
<1> QED BY <1>2, <1>3, <1>4, <1>5, <1>6

\* NotInBuild and the loop above it: a view on disk whole that the build does not declare
\* is selected as one that cannot run.
LEMMA RetiredIsSelected ==
  ASSUME NEW v \in Views, AppliesTo(v), Undeclared(v), PackageCarries(v)
  PROVE  \E p \in SelectProbes : p.view = v /\ p.kind = "cannotRun"
<1>1. v \notin Strangers /\ Absence(v) = "cannotRun"
  BY TableAssumption DEF Absence
<1>2. CASE v \in SeenBy(Asked)
  <2>1. PICK p \in Asked : p.view = v
    BY <1>2 DEF SeenBy
  <2>2. p = Probe(v, Absence(v), "asked")
    BY <1>1, <2>1 DEF Asked, Probe, Runnable
  <2> QED BY <1>1, <2>1, <2>2 DEF SelectProbes, Probe
<1>3. CASE v \notin SeenBy(Asked)
  <2>1. Probe(v, Absence(v), "build") \in NotInBuild(SeenBy(Asked))
    BY <1>3 DEF NotInBuild
  <2> QED BY <1>1, <2>1 DEF SelectProbes, Probe
<1> QED BY <1>2, <1>3

\* cannotRunCoverage: a probe that cannot run leaves a failure.
LEMMA CannotRunFails ==
  ASSUME NEW p, p.kind = "cannotRun", NEW a \in AnswersOf(p)
  PROVE  a.status = "failed"
BY DEF AnswersOf, Contract!Outcomes

-----------------------------------------------------------------------------
(* The steps of runScan.                                                    *)

\* What the selection reads does not change while the scan runs.
LEMMA InputsKeepSelection ==
  ASSUME UNCHANGED Inputs
  PROVE  /\ SelectProbes' = SelectProbes
         /\ \A p : AnswersOf(p)' = AnswersOf(p)
<1>1. \A v : /\ AppliesTo(v)' = AppliesTo(v) /\ Undeclared(v)' = Undeclared(v)
             /\ PackageCarries(v)' = PackageCarries(v)
             /\ Registered(v)' = Registered(v)
  BY DEF Inputs, AppliesTo, Undeclared, PackageCarries, Registered
<1>2. Requested' = Requested /\ \A v : Absence(v)' = Absence(v)
  BY <1>1 DEF Inputs, Requested, Absence, AppliesTo
<1>3. \A v : Runnable(v)' = Runnable(v)
  BY <1>1, <1>2 DEF Runnable
<1>4. Asked' = Asked
  BY <1>1, <1>2, <1>3 DEF Inputs, Asked
<1>5. NotInBuild(SeenBy(Asked))' = NotInBuild(SeenBy(Asked)) /\ NotOnPlatform' = NotOnPlatform
  BY <1>1, <1>2, <1>4 DEF NotInBuild, NotOnPlatform, SeenBy
<1>6. \A p : AnswersOf(p)' = AnswersOf(p)
  BY DEF Inputs, AnswersOf
<1> QED BY <1>4, <1>5, <1>6 DEF SelectProbes

\* From the selection to the exit code, each step keeps what the next relies on.
LEMMA ScanStepKeeps == ASSUME ScanInv, [Next]_vars PROVE ScanInv'
<1> USE DEF NoExit
<1>1. CASE Select
  <2>1. UNCHANGED Inputs /\ coverage' = {} /\ tier' = tier /\ exit = NoExit
    BY <1>1 DEF Select, ScanInv
  <2>2. SelectProbes' = SelectProbes
    BY <2>1, InputsKeepSelection
  <2>3. CASE \A p \in SelectProbes : p.kind # "run"
    BY <1>1, <2>1, <2>3 DEF Select, ScanInv, Records, Incomplete
  <2>4. CASE ~ \A p \in SelectProbes : p.kind # "run"
    <3>1. pc' = "prepare" /\ probes' = SelectProbes \cup CompanionOf(SelectProbes) /\ exit' = exit
      BY <1>1, <2>4 DEF Select
    <3>2. Selected'
      BY <2>2, <2>4, <3>1 DEF Selected
    <3> QED BY <2>1, <3>1, <3>2 DEF ScanInv, Records
  <2> QED BY <2>3, <2>4
<1>2. CASE Prepare \/ Assemble \/ Write \/ UNCHANGED vars
  <2>1. UNCHANGED <<Inputs, probes, coverage, tier>>
    BY <1>2 DEF Prepare, Assemble, Write, vars, Inputs
  <2>2. SelectProbes' = SelectProbes /\ \A p : AnswersOf(p)' = AnswersOf(p)
    BY <2>1, InputsKeepSelection
  <2>3. Records' /\ (Selected => Selected') /\ Reported' = Reported /\ Incomplete' = Incomplete
    BY <2>1, <2>2 DEF ScanInv, Records, Selected, Reported, Incomplete
  <2>4. CASE Prepare
    BY <2>1, <2>3, <2>4 DEF Prepare, ScanInv
  <2>5. CASE Assemble
    BY <2>1, <2>3, <2>5 DEF Assemble, ScanInv
  <2>6. CASE Write
    <3>1. exit' = 0 => tier = 0 /\ ~Incomplete
      BY <2>6 DEF Write, ExitCode, ScanInv
    <3> QED BY <2>1, <2>3, <2>6, <3>1 DEF Write, ScanInv
  <2>7. CASE UNCHANGED vars
    BY <2>1, <2>3, <2>7 DEF ScanInv, vars
  <2> QED BY <1>2, <2>4, <2>5, <2>6, <2>7
<1>3. ASSUME NEW p \in probes, Report(p) PROVE ScanInv'
  <2>1. /\ UNCHANGED Inputs /\ pc = "scan" /\ pc' = pc /\ probes' = probes /\ exit' = exit /\ exit = NoExit
    BY <1>3 DEF Report, ScanInv
  <2>2. PICK a \in AnswersOf(p) : /\ coverage' = coverage \cup {Record(p, a)}
                                  /\ tier' \in IF a.found THEN tier .. 3 ELSE {tier}
    BY <1>3 DEF Report
  <2>3. SelectProbes' = SelectProbes /\ \A q : AnswersOf(q)' = AnswersOf(q)
    BY <2>1, InputsKeepSelection
  <2>4. Records'
    BY <2>1, <2>2, <2>3 DEF Records, Record, ScanInv
  <2>5. tier' \in 0 .. 3
    BY <2>2 DEF ScanInv
  <2>6. Selected'
    BY <2>1, <2>3 DEF ScanInv, Selected
  <2> QED BY <2>1, <2>4, <2>5, <2>6 DEF ScanInv
<1> QED BY <1>1, <1>2, <1>3 DEF Next

\* A scan that is not refused selects its probes before it runs them, has a record of
\* each when it assesses them, and exits 0 only on what it assessed (runScan).
THEOREM ScanKeepsAccount == Spec => []ScanInv
<1>1. Init => ScanInv
  BY DEF Init, ScanInv, NoExit, Records, Incomplete
<1>2. ScanInv /\ [Next]_vars => ScanInv'
  BY ScanStepKeeps
<1> QED BY <1>1, <1>2, PTL DEF Spec

-----------------------------------------------------------------------------
\* With exit code 0, each selected probe has a record, and none is a failure.
LEMMA ZeroMeansRecorded ==
  ASSUME ScanInv, exit = 0, NEW p \in SelectProbes
  PROVE  \E c \in coverage : c.probe = p /\ c.status # "failed" /\ \E a \in AnswersOf(p) : c.status = a.status
<1>1. p \in Reported
  BY DEF ScanInv, NoExit, Selected
<1>2. PICK c \in coverage : c.probe = p
  BY <1>1 DEF Reported
<1> QED BY <1>2 DEF ScanInv, Records, Incomplete

\* Exit code 0 is an all-clear somebody can vouch for (exitCode, main.go).
THEOREM ZeroIsVouchedFor == Spec => []ZeroIsAllClear
<1>1. ScanInv => ZeroIsAllClear
  <2> SUFFICES ASSUME ScanInv, exit = 0 PROVE ZeroIsAllClear
    BY DEF ZeroIsAllClear
  <2>1. \E c \in coverage : c.probe.kind = "run"
    <3>1. Reported = probes /\ \E p \in probes : p.kind = "run"
      BY DEF ScanInv, NoExit, Selected
    <3> QED BY <3>1 DEF Reported
  <2>2. tier = 0 /\ \A c \in coverage : c.status # "failed" /\ ~c.truncated
    BY DEF ScanInv, Incomplete
  <2>3. ASSUME NEW v \in Requested \cap Views PROVE StatusesOf(v) # {} /\ "failed" \notin StatusesOf(v)
    <3>1. PICK p \in SelectProbes : p.view = v
      BY AskedForIsSelected
    <3>2. PICK c \in coverage : c.probe = p
      BY ZeroMeansRecorded
    <3> QED BY <2>2, <3>1, <3>2 DEF StatusesOf
  <2> QED BY <2>1, <2>2, <2>3 DEF ZeroIsAllClear
<1> QED BY <1>1, ScanKeepsAccount, PTL

\* No scan exits 0 beside a view that is on disk whole and not declared (selectProbes).
THEOREM RetiredViewsShow == Spec => []NoViewIsRetiredQuietly
<1>1. ScanInv => NoViewIsRetiredQuietly
  <2> SUFFICES ASSUME ScanInv, exit = 0, NEW v \in Views, AppliesTo(v), Undeclared(v), PackageCarries(v)
               PROVE  FALSE
    BY DEF NoViewIsRetiredQuietly
  <2>1. PICK p \in SelectProbes : p.view = v /\ p.kind = "cannotRun"
    BY RetiredIsSelected
  <2> QED BY <2>1, ZeroMeansRecorded, CannotRunFails
<1> QED BY <1>1, ScanKeepsAccount, PTL

-----------------------------------------------------------------------------
(* The report.                                                              *)

Spoken == \A v \in Reporters : outputs[v] \in Seq(Findings)

\* What the list holds of finding i of probe v until it is scored.
Heard(v, i) == IF phase = "collect" THEN outputs[v][i] ELSE Normal(outputs[v][i])

\* The outputs of the probes that have ended, each in a block of its own that starts
\* after start[v].
Blocks(start) ==
  /\ \A v \in arrived : \A i \in DOMAIN outputs[v] :
       start[v] + i \in DOMAIN list /\ list[start[v] + i] = Heard(v, i)
  /\ \A k \in DOMAIN list : \E v \in arrived : \E i \in DOMAIN outputs[v] : k = start[v] + i

Image(reps) == {reps[n] : n \in DOMAIN reps}

\* Every fingerprint that was said has one place, and its representative is scored there in
\* its turn against what the probes said, of which scoring takes nothing away.
Places(reps) ==
  /\ \A m, n \in DOMAIN list : Fingerprint(reps[m]) = Fingerprint(reps[n]) => m = n
  /\ \A g \in Said : \E n \in DOMAIN list : Fingerprint(reps[n]) = Fingerprint(g)
  /\ \A n \in DOMAIN list : list[n] = IF n < next THEN Against(reps[n], Image(reps)) ELSE reps[n]

FusionInv ==
  /\ Spoken
  /\ arrived \subseteq Reporters
  /\ phase \in {"collect", "dedup", "score", "done"}
  /\ list \in Seq(Findings)
  /\ next \in Nat \ {0}
  /\ phase \in {"collect", "dedup"} =>
       next = 1 /\ \E start \in [arrived -> 0 .. Len(list)] : Blocks(start)
  /\ phase # "collect" => arrived = Reporters
  /\ phase \in {"score", "done"} => \E reps \in [DOMAIN list -> Top] : Places(reps)
  /\ phase = "done" => next > Len(list)

-----------------------------------------------------------------------------
(* One finding.                                                             *)

LEMMA NormalKeeps ==
  ASSUME NEW f \in Findings
  PROVE  Normal(f) \in Findings /\ Normal(f).score = f.score
<1>1. PICK h : h = IF f.host = "" THEN ScanHost ELSE f.host
  OBVIOUS
<1>2. PICK l : l = IF f.label = "" THEN f.first ELSE f.label
  OBVIOUS
<1>3. Normal(f) = [f EXCEPT !.host = h, !.label = l]
  BY <1>1, <1>2 DEF Normal, Findings
<1>4. /\ h \in {g.host : g \in UNION {Pool[v] : v \in Reporters}} \cup {ScanHost}
      /\ l \in {g.label : g \in UNION {Pool[v] : v \in Reporters}} \cup Keyed
  <2>1. f.first = "" => f.label = l
    BY <1>2
  <2>2. f.label \in {g.label : g \in UNION {Pool[v] : v \in Reporters}} \cup Keyed
    BY DEF Findings
  <2>3. f.host \in {g.host : g \in UNION {Pool[v] : v \in Reporters}} \cup {ScanHost}
    BY DEF Findings
  <2>4. f.first \in Keyed \cup {""}
    BY DEF Findings
  <2> QED BY <1>1, <1>2, <2>1, <2>2, <2>3, <2>4
<1> QED BY <1>3, <1>4 DEF Findings

LEMMA HeardAreFindings ==
  ASSUME FusionInv, NEW l \in DOMAIN list
  PROVE  l \in Nat /\ list[l] \in Findings /\ list[l].score \in Int
<1>1. list \in Seq(Findings)
  BY DEF FusionInv
<1>2. l \in Nat /\ list[l] \in Findings
  BY <1>1
<1> QED BY <1>2 DEF Findings

LEMMA ScoreType ==
  ASSUME NEW f \in Findings, NEW corr \in BOOLEAN
  PROVE  ScoreFinding(f, corr).tier \in Tiers /\ ScoreFinding(f, corr).score \in Int
<1>1. f.tier \in Tiers /\ f.score \in Int
  BY DEF Findings
<1>2. \A floor \in Int : AtLeast(f.score, floor) \in Int
  BY <1>1 DEF AtLeast
<1>3. ASSUME NEW t \in Tiers, NEW n \in Int PROVE As(t, n).tier \in Tiers /\ As(t, n).score \in Int
  BY DEF As
<1>4. TierForScore(f.score) \in Tiers /\ \A t \in {"clean", "suspicious", "likely", "confirmed"} : t \in Tiers
  BY DEF TierForScore, Tiers
<1> DEFINE Fits(s) == s.tier \in Tiers /\ s.score \in Int
<1>5. Fits(ScoreAttributed(f, corr))
  BY <1>1, <1>2, <1>3, <1>4 DEF ScoreAttributed
<1>6. Fits(ScoreCalibrated(f, corr))
  <2>1. /\ Fits(As("confirmed", f.score)) /\ Fits(As("confirmed", AtLeast(f.score, 90)))
        /\ Fits(As(f.tier, f.score)) /\ Fits(As(TierForScore(f.score), f.score)) /\ Fits(As("likely", 70))
    <3>1. Fits(As("confirmed", f.score)) /\ Fits(As(f.tier, f.score)) /\ Fits(As(TierForScore(f.score), f.score))
      BY <1>1, <1>3, <1>4
    <3>2. Fits(As("confirmed", AtLeast(f.score, 90))) /\ Fits(As("likely", 70))
      BY <1>2, <1>3, <1>4
    <3> QED BY <3>1, <3>2
  <2> HIDE DEF Fits
  <2> QED BY <2>1 DEF ScoreCalibrated
<1>7. Fits(ScoreStructural(f, corr))
  <2>1. Fits(As("confirmed", AtLeast(f.score, 85))) /\ Fits(As("confirmed", AtLeast(f.score, 95)))
    BY <1>2, <1>3, <1>4
  <2>2. Fits(As("likely", AtLeast(f.score, 80))) /\ Fits(As("likely", 75)) /\ Fits(As("suspicious", 50))
    BY <1>2, <1>3, <1>4
  <2> HIDE DEF Fits
  <2> QED BY <2>1, <2>2 DEF ScoreStructural
<1>8. Fits(As("likely", 75)) /\ Fits(As("suspicious", 50)) /\ Fits(As("clean", 10)) /\ Fits(As("suspicious", 45))
  BY <1>3, <1>4
<1> HIDE DEF Fits
<1>9. Fits(ScoreFinding(f, corr))
  BY <1>5, <1>6, <1>7, <1>8 DEF ScoreFinding
<1> QED BY <1>9 DEF Fits

\* Scoring rewrites nothing that a peer is asked about.
LEMMA RescoredKeeps ==
  ASSUME NEW f \in Findings, NEW corr \in BOOLEAN
  PROVE  LET r == Rescored(f, ScoreFinding(f, corr))
         IN  /\ r \in Findings /\ r.tier = ScoreFinding(f, corr).tier
             /\ Fingerprint(r) = Fingerprint(f)
             /\ \A g : Corroborates(r, g) <=> Corroborates(f, g)
<1>1. PICK s : s = ScoreFinding(f, corr)
  OBVIOUS
<1>2. PICK r : r = [f EXCEPT !.tier = s.tier, !.score = s.score]
  OBVIOUS
<1>3. s.tier \in Tiers /\ s.score \in Int
  BY <1>1, ScoreType
<1>4. /\ r \in Findings /\ r.tier = s.tier /\ r.view = f.view /\ r.host = f.host /\ r.target = f.target
      /\ r.rule = f.rule /\ r.keys = f.keys /\ r.label = f.label /\ r.basis = f.basis /\ r.allow = f.allow
  BY <1>2, <1>3 DEF Findings
<1>5. Fingerprint(r) = Fingerprint(f)
  BY <1>4 DEF Fingerprint
<1>6. \A g : Corroborates(r, g) <=> Corroborates(f, g)
  BY <1>4 DEF Corroborates, IsCredible, AttributedFamily
<1>7. r = Rescored(f, ScoreFinding(f, corr))
  BY <1>1, <1>2 DEF Rescored
<1> QED BY <1>1, <1>4, <1>5, <1>6, <1>7

-----------------------------------------------------------------------------
(* Collecting.                                                              *)

LEMMA StartsWell == FusionInit => FusionInv
<1> SUFFICES ASSUME FusionInit PROVE FusionInv
  OBVIOUS
<1>1. Spoken
  <2> SUFFICES ASSUME NEW v \in Reporters PROVE outputs[v] \in Seq(Findings)
    BY DEF Spoken
  <2> DEFINE drawn == UNION {{[f EXCEPT !.first = k] : k \in FamilyFromEvidence(f)} : f \in Pool[v]}
  <2>1. outputs[v] \in Returned[v]
    BY DEF FusionInit
  <2>2. PICK n \in 0 .. MaxPerProbe[v] : outputs[v] \in [1 .. n -> drawn]
    BY <2>1 DEF Returned
  <2>3. ASSUME NEW f \in Pool[v], NEW k \in FamilyFromEvidence(f) PROVE [f EXCEPT !.first = k] \in Findings
    <3>1. f \in Findings
      BY PoolAssumption
    <3>2. f.keys \subseteq Keyed
      BY <3>1 DEF Findings
    <3>3. k \in Keyed \cup {""}
      BY <3>2 DEF FamilyFromEvidence
    <3> QED BY <3>1, <3>3 DEF Findings
  <2>4. drawn \subseteq Findings
    BY <2>3
  <2>5. n \in Nat
    BY PoolAssumption
  <2> HIDE DEF drawn
  <2>6. outputs[v] \in [1 .. n -> Findings]
    BY <2>2, <2>4
  <2> QED BY <2>5, <2>6
<1>2. list = <<>> /\ list \in Seq(Findings) /\ DOMAIN list = {}
  BY DEF FusionInit
<1>3. \E start \in [arrived -> 0 .. Len(list)] : Blocks(start)
  <2>1. PICK start : start = [v \in {} |-> 0]
    OBVIOUS
  <2>2. start \in [{} -> 0 .. Len(list)]
    BY <2>1
  <2> QED BY <1>2, <2>2 DEF FusionInit, Blocks
<1>4. phase = "collect" /\ arrived \subseteq Reporters /\ next = 1
  BY DEF FusionInit
<1>5. next \in Nat \ {0} /\ list \in Seq(Findings)
  BY <1>2, <1>4
<1> QED BY <1>1, <1>3, <1>4, <1>5 DEF FusionInv

\* The mutex append: a probe's output becomes a block after all the others.
LEMMA CollectStep ==
  ASSUME FusionInv, NEW v \in Reporters, Collect(v)
  PROVE  FusionInv'
<1> DEFINE out == outputs[v]
<1>1. /\ out \in Seq(Findings) /\ list \in Seq(Findings) /\ phase = "collect" /\ v \notin arrived
      /\ list' = list \o out /\ arrived' = arrived \cup {v}
      /\ UNCHANGED <<outputs, phase, next>>
  BY DEF FusionInv, Spoken, Collect
<1>2. PICK start \in [arrived -> 0 .. Len(list)] : Blocks(start)
  BY <1>1 DEF FusionInv
<1>3. /\ list' \in Seq(Findings) /\ Len(list') = Len(list) + Len(out)
      /\ \A k \in 1 .. Len(list) : list'[k] = list[k]
      /\ \A i \in 1 .. Len(out) : list'[Len(list) + i] = out[i]
  <2>1. PICK s \in Seq(Findings), t \in Seq(Findings) : s = list /\ t = out
    BY <1>1
  <2>2. /\ s \o t \in Seq(Findings) /\ Len(s \o t) = Len(s) + Len(t)
        /\ \A k \in 1 .. Len(s) : (s \o t)[k] = s[k]
        /\ \A i \in 1 .. Len(t) : (s \o t)[Len(s) + i] = t[i]
    OBVIOUS
  <2> QED BY <1>1, <2>1, <2>2
<1>4. PICK m \in Nat, n \in Nat :
        /\ m = Len(list) /\ n = Len(out)
        /\ DOMAIN list = 1 .. m /\ DOMAIN out = 1 .. n /\ DOMAIN list' = 1 .. m + n
  <2>1. \A s \in Seq(Findings) : Len(s) \in Nat /\ DOMAIN s = 1 .. Len(s)
    OBVIOUS
  <2> QED BY <1>1, <1>3, <2>1
<1>5. PICK moved : moved = [w \in arrived' |-> IF w = v THEN m ELSE start[w]]
  OBVIOUS
<1>6. moved[v] = m /\ \A w \in arrived : moved[w] = start[w]
  BY <1>1, <1>5
<1>7. moved \in [arrived' -> 0 .. Len(list')]
  BY <1>1, <1>2, <1>3, <1>4, <1>5
<1>8. Blocks(moved)'
  <2>1. ASSUME NEW w \in arrived', NEW i \in DOMAIN outputs[w]
        PROVE  moved[w] + i \in DOMAIN list' /\ list'[moved[w] + i] = outputs[w][i]
    <3>1. CASE w = v
      <4>1. i \in 1 .. n
        BY <1>4, <3>1
      <4>2. m + i \in 1 .. m + n
        BY <1>4, <4>1
      <4>3. list'[m + i] = out[i]
        <5> HIDE DEF out
        <5> QED BY <1>3, <1>4, <4>1
      <4> QED BY <1>4, <1>6, <3>1, <4>2, <4>3
    <3>2. CASE w \in arrived
      <4>1. start[w] + i \in 1 .. m /\ list[start[w] + i] = outputs[w][i]
        BY <1>1, <1>2, <1>4, <3>2 DEF Blocks, Heard
      <4> QED BY <1>3, <1>4, <1>6, <3>2, <4>1
    <3> QED BY <1>1, <2>1, <3>1, <3>2
  <2>2. ASSUME NEW k \in DOMAIN list'
        PROVE  \E w \in arrived' : \E i \in DOMAIN outputs[w] : k = moved[w] + i
    <3>1. CASE k \in 1 .. m
      <4>1. PICK w \in arrived : \E i \in DOMAIN outputs[w] : k = start[w] + i
        BY <1>2, <1>4, <3>1 DEF Blocks
      <4> QED BY <1>1, <1>6, <4>1
    <3>2. CASE k \notin 1 .. m
      <4>1. k - m \in 1 .. n /\ k = m + (k - m)
        BY <1>4, <2>2, <3>2
      <4> QED BY <1>1, <1>4, <1>6, <4>1
    <3> QED BY <3>1, <3>2
  <2> QED BY <1>1, <2>1, <2>2 DEF Blocks, Heard
<1> QED BY <1>1, <1>3, <1>7, <1>8 DEF FusionInv, Spoken

\* Normalising rewrites each finding where it is.
LEMMA NormalizeStep ==
  ASSUME FusionInv, Normalize
  PROVE  FusionInv'
<1>1. /\ list \in Seq(Findings) /\ phase = "collect" /\ phase' = "dedup" /\ arrived = Reporters
      /\ list' = [k \in DOMAIN list |-> Normal(list[k])]
      /\ UNCHANGED <<outputs, arrived, next>>
  BY DEF FusionInv, Normalize
<1>2. PICK start \in [arrived -> 0 .. Len(list)] : Blocks(start)
  BY <1>1 DEF FusionInv
<1>3. /\ \A k \in DOMAIN list : list'[k] = Normal(list[k]) /\ list'[k] \in Findings
      /\ DOMAIN list' = DOMAIN list
  BY <1>1, NormalKeeps
<1>4. list' \in Seq(Findings) /\ Len(list') = Len(list)
  <2>1. PICK n \in Nat : n = Len(list) /\ DOMAIN list = 1 .. n
    BY <1>1
  <2>2. list' \in [1 .. n -> Findings]
    BY <1>1, <1>3, <2>1
  <2> QED BY <2>1, <2>2
<1>5. Blocks(start)'
  BY <1>1, <1>2, <1>3 DEF Blocks, Heard
<1>6. next' = 1 /\ start \in [arrived' -> 0 .. Len(list')]
  BY <1>1, <1>2, <1>4 DEF FusionInv
<1> QED BY <1>1, <1>4, <1>5, <1>6 DEF FusionInv, Spoken

-----------------------------------------------------------------------------
(* Deduplication.                                                           *)

\* What is kept is a representative nobody scored higher, and every fingerprint keeps one:
\* of its highest score the first.
LEMMA KeptRepresent ==
  ASSUME FusionInv, phase = "dedup"
  PROVE  /\ \A k \in Kept : list[k] \in Top
         /\ \A g \in Said : \E k \in Kept : Fingerprint(list[k]) = Fingerprint(g)
<1>1. PICK start \in [Reporters -> 0 .. Len(list)] : Blocks(start)
  BY DEF FusionInv
<1> DEFINE At(v, i) == start[v] + i
           Norm(v) == [i \in DOMAIN outputs[v] |-> Normal(outputs[v][i])]
<1>2. ASSUME NEW v \in Reporters, NEW i \in DOMAIN outputs[v]
      PROVE  /\ At(v, i) \in DOMAIN list /\ list[At(v, i)] = Norm(v)[i]
             /\ i \in Int /\ start[v] \in Int
  <2>1. At(v, i) \in DOMAIN list /\ list[At(v, i)] = Normal(outputs[v][i])
    BY <1>1 DEF FusionInv, Blocks, Heard
  <2>2. outputs[v] \in Seq(Findings)
    BY DEF FusionInv, Spoken
  <2>3. i \in Int
    BY <2>2
  <2> QED BY <1>1, <2>1, <2>3
<1>3. ASSUME NEW k \in DOMAIN list
      PROVE  \E v \in Reporters : \E i \in DOMAIN outputs[v] : k = At(v, i)
  BY <1>1 DEF FusionInv, Blocks
<1>4. \A g \in Said : \E k \in DOMAIN list : list[k] = g
  <2> SUFFICES ASSUME NEW g \in Said PROVE \E k \in DOMAIN list : list[k] = g
    OBVIOUS
  <2>1. PICK v \in Reporters : \E i \in DOMAIN outputs[v] : g = Normal(outputs[v][i])
    BY DEF Said
  <2>2. PICK i \in DOMAIN outputs[v] : g = Normal(outputs[v][i])
    BY <2>1
  <2>3. Norm(v)[i] = g
    BY <2>2
  <2> QED BY <1>2, <2>3
<1> HIDE DEF At, Norm
<1>5. ASSUME NEW k \in Kept PROVE list[k] \in Top
  <2>1. PICK v \in Reporters : \E i \in DOMAIN outputs[v] : k = At(v, i)
    BY <1>3 DEF Kept
  <2>2. PICK i \in DOMAIN outputs[v] : k = At(v, i)
    BY <2>1
  <2>3. ASSUME NEW j \in DOMAIN outputs[v], j # i, Fingerprint(Norm(v)[j]) = Fingerprint(Norm(v)[i])
        PROVE  Norm(v)[i].score > Norm(v)[j].score \/ (Norm(v)[i].score = Norm(v)[j].score /\ i < j)
    <3>1. \/ Norm(v)[i].score > Norm(v)[j].score
          \/ Norm(v)[i].score = Norm(v)[j].score /\ At(v, i) <= At(v, j)
      BY <1>2, <2>2, <2>3 DEF Kept
    <3>2. At(v, i) <= At(v, j) => i < j
      BY <1>2, <2>3 DEF At
    <3> QED BY <3>1, <3>2
  <2>4. list[k] \in Representatives(v)
    BY <1>2, <2>2, <2>3 DEF Representatives, Norm
  <2>5. ASSUME NEW g \in Said, Fingerprint(g) = Fingerprint(list[k]) PROVE list[k].score >= g.score
    <3>1. PICK l \in DOMAIN list : list[l] = g
      BY <1>4
    <3>2. list[k].score \in Int /\ list[l].score \in Int
      BY <3>1, HeardAreFindings DEF Kept
    <3>3. list[k].score > list[l].score \/ list[k].score = list[l].score
      BY <2>5, <3>1 DEF Kept
    <3> QED BY <3>1, <3>2, <3>3
  <2> QED BY <2>4, <2>5 DEF Top, All
<1>6. ASSUME NEW g \in Said PROVE \E k \in Kept : Fingerprint(list[k]) = Fingerprint(g)
  <2> DEFINE Same == {l \in DOMAIN list : Fingerprint(list[l]) = Fingerprint(g)}
             Scores == {list[l].score : l \in Same}
  <2>1. PICK size \in Nat : size = Len(list) /\ DOMAIN list = 1 .. size
    BY DEF FusionInv
  <2>2. \A l \in DOMAIN list : l \in Nat /\ list[l] \in Findings /\ list[l].score \in Int
    BY HeardAreFindings
  <2>3. IsFiniteSet(Same)
    <3>1. IsFiniteSet(1 .. size) /\ Same \subseteq 1 .. size
      BY <2>1, FS_Interval
    <3> HIDE DEF Same
    <3> QED BY <3>1, FS_Subset
  <2>4. Same # {} /\ Scores # {} /\ Scores \in SUBSET Int
    BY <1>4, <2>2
  <2>5. IsFiniteSet(Scores)
    <3>1. PICK scoreOf : scoreOf = [l \in Same |-> list[l].score]
      OBVIOUS
    <3>2. scoreOf \in [Same -> Scores] /\ \A n \in Scores : \E l \in Same : scoreOf[l] = n
      BY <3>1
    <3> HIDE DEF Same, Scores
    <3> QED BY <2>3, <3>2, Onto
  <2>6. PICK top \in Scores : \A n \in Scores : n <= top
    <3> HIDE DEF Scores
    <3> QED BY <2>4, <2>5, HighestNumber
  <2> DEFINE Best == {l \in Same : list[l].score = top}
  <2>7. Best # {} /\ Best \in SUBSET Nat
    BY <2>2
  <2>8. PICK k \in Best : \A l \in Best : k <= l
    <3> HIDE DEF Best
    <3> QED BY <2>7, LeastNumber
  <2>9. ASSUME NEW l \in DOMAIN list, Fingerprint(list[l]) = Fingerprint(list[k])
        PROVE  list[k].score > list[l].score \/ (list[k].score = list[l].score /\ k <= l)
    <3>1. l \in Same /\ list[l].score <= top /\ list[k].score = top
      BY <2>6, <2>8, <2>9
    <3>2. list[l].score = top => k <= l
      BY <2>8, <3>1
    <3> QED BY <2>2, <3>1, <3>2
  <2>10. k \in Kept
    BY <2>8, <2>9 DEF Kept
  <2> QED BY <2>8, <2>10
<1> QED BY <1>5, <1>6

LEMMA DedupStep ==
  ASSUME FusionInv, Dedup
  PROVE  FusionInv'
<1>1. /\ phase = "dedup" /\ phase' = "score" /\ arrived = Reporters /\ next = 1
      /\ list \in Seq(Findings) /\ UNCHANGED <<outputs, arrived, next>>
  BY DEF FusionInv, Dedup
<1>2. PICK kept \in [1 .. Cardinality(Kept) -> Kept] :
        /\ \A m, n \in DOMAIN kept : m < n => SeenBefore(kept[m], kept[n])
        /\ list' = [n \in DOMAIN kept |-> list[kept[n]]]
  BY DEF Dedup
<1>3. IsFiniteSet(Kept) /\ Cardinality(Kept) \in Nat
  <2>1. DOMAIN list = 1 .. Len(list) /\ Len(list) \in Nat
    BY <1>1
  <2>2. IsFiniteSet(1 .. Len(list))
    BY <2>1, FS_Interval
  <2> QED BY <2>1, <2>2, FS_Subset, FS_CardinalityType DEF Kept
<1>4. PICK size \in Nat : size = Cardinality(Kept)
  BY <1>3
<1>5. ASSUME NEW m \in 1 .. size, NEW n \in 1 .. size, Fingerprint(list[kept[m]]) = Fingerprint(list[kept[n]])
      PROVE  m = n
  <2>1. ASSUME NEW i \in Kept, NEW k \in Kept, Fingerprint(list[i]) = Fingerprint(list[k]) PROVE ~SeenBefore(i, k)
    <3> SUFFICES ASSUME NEW j \in DOMAIN list, Fingerprint(list[j]) = Fingerprint(list[i]),
                        \A l \in DOMAIN list : Fingerprint(list[l]) = Fingerprint(list[k]) => j < l
                 PROVE  FALSE
      BY DEF SeenBefore
    <3>1. j < j /\ j \in Int
      BY <1>1, <2>1
    <3> QED BY <3>1
  <2>2. ~(m < n) /\ ~(n < m)
    BY <1>2, <1>4, <1>5, <2>1
  <2> QED BY <2>2
<1>6. kept \in Injection(1 .. size, Kept)
  BY <1>2, <1>4, <1>5 DEF Injection, IsInjective
<1>7. Cardinality(1 .. size) = size
  BY FS_Interval
<1>8. \A k \in Kept : \E n \in 1 .. size : kept[n] = k
  BY <1>3, <1>4, <1>6, <1>7, FS_Injection DEF Surjection
<1>9. /\ DOMAIN list' = 1 .. size
      /\ \A n \in 1 .. size : list'[n] = list[kept[n]] /\ kept[n] \in Kept
  BY <1>2, <1>4
<1>10. list' \in Seq(Findings)
  <2>1. \A n \in 1 .. size : list[kept[n]] \in Findings
    BY <1>1, <1>9 DEF Kept
  <2>2. list' \in [1 .. size -> Findings]
    BY <1>2, <1>4, <2>1
  <2> QED BY <2>2
<1>11. Top' = Top /\ Said' = Said
  BY <1>1 DEF Top, Said, All, Representatives
<1>12. list' \in [DOMAIN list' -> Top]
  BY <1>1, <1>2, <1>4, <1>9, KeptRepresent
<1>13. ASSUME NEW reps, reps = list' PROVE Places(reps)'
  <2>1. \A m, n \in DOMAIN list' : Fingerprint(reps[m]) = Fingerprint(reps[n]) => m = n
    BY <1>5, <1>9, <1>13
  <2>2. \A g \in Said : \E n \in DOMAIN list' : Fingerprint(reps[n]) = Fingerprint(g)
    <3> SUFFICES ASSUME NEW g \in Said PROVE \E n \in DOMAIN list' : Fingerprint(reps[n]) = Fingerprint(g)
      OBVIOUS
    <3>1. PICK k \in Kept : Fingerprint(list[k]) = Fingerprint(g)
      BY <1>1, KeptRepresent
    <3> QED BY <1>8, <1>9, <1>13, <3>1
  <2>3. \A n \in DOMAIN list' : ~(n < next') /\ list'[n] = reps[n]
    BY <1>1, <1>9, <1>13
  <2> QED BY <1>11, <2>1, <2>2, <2>3 DEF Places
<1>14. \E reps \in [DOMAIN list' -> Top'] : Places(reps)'
  BY <1>11, <1>12, <1>13
<1> QED BY <1>1, <1>10, <1>14 DEF FusionInv, Spoken

-----------------------------------------------------------------------------
(* Scoring.                                                                 *)

LEMMA AllAreFindings == ASSUME Spoken, NEW f \in All PROVE f \in Findings
<1>1. PICK v \in Reporters : f \in Representatives(v)
  BY DEF All
<1>2. PICK i \in DOMAIN outputs[v] : f = Normal(outputs[v][i])
  BY <1>1 DEF Representatives
<1>3. outputs[v][i] \in Findings
  BY DEF Spoken
<1> QED BY <1>2, <1>3, NormalKeeps

\* Whichever of its peers are scored already, a finding sees in them what the probes said.
LEMMA ScoreStep ==
  ASSUME FusionInv, Score
  PROVE  FusionInv'
<1>1. /\ phase = "score" /\ phase' = "score" /\ arrived = Reporters /\ next \in Nat \ {0} /\ next' = next + 1
      /\ list \in Seq(Findings) /\ next <= Len(list) /\ UNCHANGED <<outputs, arrived>>
  BY DEF FusionInv, Score
<1>2. PICK reps \in [DOMAIN list -> Top] : Places(reps)
  BY <1>1 DEF FusionInv
<1>3. Top' = Top /\ Said' = Said
  BY <1>1 DEF Top, Said, All, Representatives
<1> DEFINE said == Image(reps)
<1>16. (\A n \in DOMAIN list : reps[n] \in said) /\ \A g \in said : g \in Findings /\ \E n \in DOMAIN list : g = reps[n]
  <2>1. \A f \in Top : f \in Findings
    BY AllAreFindings DEF FusionInv, Top
  <2> QED BY <1>2, <2>1 DEF Image
<1>17. \A m, n \in DOMAIN list : reps[m] = reps[n] => m = n
  BY <1>2 DEF Places
<1>18. \A n \in DOMAIN list : list[n] = IF n < next THEN Against(reps[n], said) ELSE reps[n]
  BY <1>2 DEF Places
<1> HIDE DEF said
<1>4. PICK corr \in BOOLEAN : corr = \E j \in DOMAIN list \ {next} : Corroborates(list[j], list[next])
  OBVIOUS
<1>5. PICK f : f = list[next]
  OBVIOUS
<1>6. PICK r : r = Rescored(f, ScoreFinding(f, corr))
  OBVIOUS
<1>7. list' = [list EXCEPT ![next] = r]
  BY <1>4, <1>5, <1>6 DEF Score
<1>8. next \in DOMAIN list /\ f \in Findings /\ r \in Findings
  <2>1. PICK n \in Nat : n = Len(list) /\ DOMAIN list = 1 .. n
    BY <1>1
  <2>2. next \in DOMAIN list
    BY <1>1, <2>1
  <2>3. f \in Findings
    BY <1>1, <1>5, <2>2
  <2> QED BY <1>6, <2>2, <2>3, RescoredKeeps
<1>9. /\ list' \in Seq(Findings) /\ DOMAIN list' = DOMAIN list
      /\ list'[next] = r /\ \A n \in DOMAIN list : n # next => list'[n] = list[n]
  BY <1>1, <1>7, <1>8
<1>10. ASSUME NEW n \in DOMAIN list
       PROVE  \A g : Corroborates(list[n], g) <=> Corroborates(reps[n], g)
  <2>1. CASE n < next
    <3>1. list[n] = Against(reps[n], said)
      BY <1>18, <2>1
    <3>2. reps[n] \in Findings
      BY <1>16
    <3>3. PICK c \in BOOLEAN : c = \E g \in said \ {reps[n]} : Corroborates(g, reps[n])
      OBVIOUS
    <3>4. list[n] = Rescored(reps[n], ScoreFinding(reps[n], c))
      BY <3>1, <3>3 DEF Against
    <3> QED BY <3>2, <3>4, RescoredKeeps
  <2>2. CASE ~(n < next)
    BY <1>18, <2>2
  <2> QED BY <2>1, <2>2
<1>11. f = reps[next]
  BY <1>1, <1>5, <1>8, <1>18
<1>12. corr <=> \E g \in said \ {f} : Corroborates(g, f)
  <2>1. ASSUME corr PROVE \E g \in said \ {f} : Corroborates(g, f)
    <3>1. PICK j \in DOMAIN list \ {next} : Corroborates(list[j], f)
      BY <1>4, <1>5, <2>1
    <3>2. reps[j] \in said /\ reps[j] # f
      BY <1>8, <1>11, <1>16, <1>17
    <3> QED BY <1>10, <3>1, <3>2
  <2>2. ASSUME NEW g \in said \ {f}, Corroborates(g, f) PROVE corr
    <3>1. PICK j \in DOMAIN list : g = reps[j]
      BY <1>16, <2>2
    <3>2. j # next /\ Corroborates(list[j], f)
      BY <1>10, <1>11, <2>2, <3>1
    <3> QED BY <1>4, <1>5, <3>2
  <2> QED BY <2>1, <2>2
<1>13. r = Against(f, said)
  BY <1>6, <1>12 DEF Against
<1>14. Places(reps)'
  <2>1. ASSUME NEW n \in DOMAIN list
        PROVE  list'[n] = IF n < next' THEN Against(reps[n], said) ELSE reps[n]
    <3>1. n \in Int
      BY <1>1
    <3>2. CASE n = next
      BY <1>1, <1>9, <1>11, <1>13, <3>2
    <3>3. CASE n # next
      <4>1. n < next' <=> n < next
        BY <1>1, <3>1, <3>3
      <4> QED BY <1>9, <1>18, <3>3, <4>1
    <3> QED BY <3>2, <3>3
  <2> QED BY <1>2, <1>3, <1>9, <2>1 DEF Places, said
<1>15. \E some \in [DOMAIN list' -> Top'] : Places(some)'
  BY <1>2, <1>3, <1>9, <1>14
<1> QED BY <1>1, <1>9, <1>15 DEF FusionInv, Spoken

LEMMA FusionStep == ASSUME FusionInv, [FusionNext]_fusionVars PROVE FusionInv'
<1>1. CASE RollUp
  <2>1. /\ phase = "score" /\ phase' = "done" /\ next > Len(list) /\ UNCHANGED <<outputs, arrived, list, next>>
    BY <1>1 DEF RollUp
  <2>2. \A reps : Places(reps)' <=> Places(reps)
    BY <2>1 DEF Places, Said
  <2>3. Top' = Top
    BY <2>1 DEF Top, Said, All, Representatives
  <2> QED BY <2>1, <2>2, <2>3 DEF FusionInv, Spoken
<1>2. CASE UNCHANGED fusionVars
  <2>1. UNCHANGED <<outputs, arrived, list, phase, next>>
    BY <1>2 DEF fusionVars
  <2>2. Top' = Top /\ Said' = Said
    BY <2>1 DEF Top, Said, All, Representatives
  <2>3. /\ \A reps : Places(reps)' <=> Places(reps)
        /\ \A start : Blocks(start)' <=> Blocks(start)
    BY <2>1, <2>2 DEF Places, Blocks, Heard
  <2> QED BY <2>1, <2>2, <2>3 DEF FusionInv, Spoken
<1> QED BY <1>1, <1>2, CollectStep, NormalizeStep, DedupStep, ScoreStep DEF FusionNext

-----------------------------------------------------------------------------
(* Theorems.                                                                *)

\* Scan, Assess: at every moment the list is the outputs in blocks, or the representatives
\* with a beginning of them scored.
THEOREM ReportKeepsInv == FusionSpec => []FusionInv
BY StartsWell, FusionStep, PTL DEF FusionSpec

LEMMA DoneResults ==
  ASSUME FusionInv, phase = "done"
  PROVE  \E kept \in SUBSET Top : AssessmentOf(kept)
<1>1. PICK reps \in [DOMAIN list -> Top] : Places(reps)
  BY DEF FusionInv
<1>2. PICK size \in Nat : size = Len(list) /\ DOMAIN list = 1 .. size
  BY DEF FusionInv
<1> DEFINE kept == Image(reps)
<1>3. \A n \in 1 .. size : list[n] = Against(reps[n], kept)
  <2>1. next \in Nat /\ next > size
    BY <1>2 DEF FusionInv
  <2> QED BY <1>1, <1>2, <2>1 DEF Places
<1>4. (\A n \in 1 .. size : reps[n] \in kept) /\ \A f \in kept : \E n \in 1 .. size : f = reps[n]
  BY <1>1, <1>2 DEF Image
<1>5. kept \subseteq Top
  BY <1>1, <1>2, <1>4
<1>6. \A g \in Said : \E f \in kept : Fingerprint(f) = Fingerprint(g)
  BY <1>1, <1>2, <1>4 DEF Places
<1>7. \A f, g \in kept : Fingerprint(f) = Fingerprint(g) => f = g
  BY <1>1, <1>2, <1>4 DEF Places
<1> HIDE DEF kept
<1>8. Results = {Against(f, kept) : f \in kept}
  <2>1. ASSUME NEW f \in kept PROVE Against(f, kept) \in Results
    <3>1. PICK n \in 1 .. size : f = reps[n]
      BY <1>4
    <3> QED BY <1>2, <1>3, <3>1 DEF Results
  <2>2. ASSUME NEW n \in 1 .. size PROVE list[n] \in {Against(f, kept) : f \in kept}
    BY <1>3, <1>4
  <2> QED BY <1>2, <2>1, <2>2 DEF Results
<1>9. reps \in Bijection(1 .. size, kept)
  <2>1. \A m, n \in 1 .. size : reps[m] = reps[n] => m = n
    BY <1>1, <1>2 DEF Places
  <2> QED BY <1>1, <1>2, <1>4, <2>1 DEF Bijection, Injection, Surjection, IsInjective
<1>10. IsFiniteSet(1 .. size) /\ Cardinality(1 .. size) = size
  BY FS_Interval
<1>11. Cardinality(kept) = size
  BY <1>9, <1>10, FS_Bijection DEF ExistsBijection
<1> QED BY <1>2, <1>5, <1>6, <1>7, <1>8, <1>11 DEF AssessmentOf

\* Whatever the order in which probes end and findings are rewritten, the report holds one
\* finding for each fingerprint, of those that score highest, scored against what the
\* probes said; probes may share a view, a finding and a draw of its label.
THEOREM ReportsAreOrderFree == FusionSpec => []ReportIsOrderFree
<1>1. FusionInv => ReportIsOrderFree
  BY DoneResults DEF ReportIsOrderFree
<1> QED BY <1>1, ReportKeepsInv, PTL

\* scoreFinding: a tier of "confirmed" is a probe's own, or has a second opinion.
LEMMA ConfirmedHasReason ==
  ASSUME NEW f \in Findings, NEW corr \in BOOLEAN, ScoreFinding(f, corr).tier = "confirmed"
  PROVE  f.tier = "confirmed" \/ (f.tier = "" /\ f.score >= 85 /\ f.basis \in Calibrated) \/ corr
<1> SUFFICES ASSUME f.tier # "confirmed", ~corr PROVE f.tier = "" /\ f.score >= 85 /\ f.basis \in Calibrated
  OBVIOUS
<1>1. \A t, n : As(t, n).tier = t
  BY DEF As
<1>2. ScoreAttributed(f, corr).tier # "confirmed" /\ ScoreStructural(f, corr).tier # "confirmed"
  BY <1>1 DEF ScoreAttributed, ScoreStructural
<1>3. f.basis \in Calibrated /\ ScoreCalibrated(f, corr).tier = "confirmed"
  BY <1>1, <1>2 DEF ScoreFinding
<1>4. f.tier = "" /\ f.score > 0 /\ TierForScore(f.score) = "confirmed"
  BY <1>1, <1>3 DEF ScoreCalibrated
<1> QED BY <1>3, <1>4 DEF TierForScore

\* isCredibleSignal and corroborated grant no more than a second opinion.
LEMMA CorroborationIsAnOpinion ==
  ASSUME NEW f, NEW g, Corroborates(g, f)
  PROVE  SecondOpinion(g, f)
BY DEF Corroborates, IsCredible, SecondOpinion, Trusted, AttributedFamily, Structural

THEOREM ConfirmationsAreEarned == FusionSpec => []ConfirmedIsEarned
<1>1. FusionInv => ConfirmedIsEarned
  <2> SUFFICES ASSUME FusionInv, phase = "done", NEW r \in Results, r.tier = "confirmed"
               PROVE  \E f \in All : /\ Fingerprint(f) = Fingerprint(r)
                                     /\ \/ f.tier = "confirmed"
                                        \/ f.tier = "" /\ f.score >= 85 /\ f.basis \in Calibrated
                                        \/ \E g \in All \ {f} : SecondOpinion(g, f)
    BY DEF ConfirmedIsEarned
  <2>0. PICK kept \in SUBSET Top : AssessmentOf(kept)
    BY DoneResults
  <2>1. PICK f \in kept : r = Against(f, kept)
    BY <2>0 DEF AssessmentOf
  <2>7. kept \subseteq All
    BY DEF Top
  <2>2. f \in Findings /\ f \in All
    BY <2>7, AllAreFindings DEF FusionInv
  <2>3. PICK corr \in BOOLEAN : corr = \E g \in kept \ {f} : Corroborates(g, f)
    OBVIOUS
  <2>4. r = Rescored(f, ScoreFinding(f, corr))
    BY <2>1, <2>3 DEF Against
  <2>5. ScoreFinding(f, corr).tier = "confirmed" /\ Fingerprint(r) = Fingerprint(f)
    BY <2>2, <2>4, RescoredKeeps
  <2>6. corr => \E g \in All \ {f} : SecondOpinion(g, f)
    BY <2>3, <2>7, CorroborationIsAnOpinion
  <2> QED BY <2>2, <2>5, <2>6, ConfirmedHasReason
<1> QED BY <1>1, ReportKeepsInv, PTL

\* scoreFinding: a peer that agrees never lowers the tier.
LEMMA OpinionsOnlyRaise ==
  ASSUME NEW f \in Findings, NEW few \in BOOLEAN, NEW many \in BOOLEAN, few => many
  PROVE  Rank(ScoreFinding(f, many).tier) >= Rank(ScoreFinding(f, few).tier)
<1>1. \A t, n : As(t, n).tier = t
  BY DEF As
<1>2. Rank("confirmed") = 3 /\ Rank("likely") = 2 /\ Rank("suspicious") = 1 /\ Rank("clean") = 0
  BY DEF Rank
<1>3. \A t : Rank(t) \in 0 .. 3 /\ Rank(t) >= Rank(t)
  BY DEF Rank
<1> SUFFICES ASSUME many, ~few PROVE Rank(ScoreFinding(f, many).tier) >= Rank(ScoreFinding(f, few).tier)
  <2>1. CASE few = many
    BY <1>3, <2>1
  <2> QED BY <2>1
<1>4. Rank(ScoreAttributed(f, many).tier) >= Rank(ScoreAttributed(f, few).tier)
  BY <1>1, <1>2 DEF ScoreAttributed
<1>5. Rank(ScoreCalibrated(f, many).tier) >= Rank(ScoreCalibrated(f, few).tier)
  <2>1. CASE f.tier = "likely"
    BY <1>1, <1>2, <2>1 DEF ScoreCalibrated
  <2>2. CASE f.tier # "likely"
    <3>1. PICK t : ScoreCalibrated(f, many).tier = t /\ ScoreCalibrated(f, few).tier = t
      BY <2>2 DEF ScoreCalibrated
    <3> QED BY <1>3, <3>1
  <2> QED BY <2>1, <2>2
<1>6. Rank(ScoreStructural(f, many).tier) >= Rank(ScoreStructural(f, few).tier)
  BY <1>1, <1>2 DEF ScoreStructural
<1>7. CASE AttributedFamily(f) \/ f.basis \in Calibrated \/ f.basis \in Structural
  BY <1>4, <1>5, <1>6, <1>7 DEF ScoreFinding
<1>8. CASE ~(AttributedFamily(f) \/ f.basis \in Calibrated \/ f.basis \in Structural)
  <2>1. CASE f.basis # "behavioral"
    <3>1. PICK t : ScoreFinding(f, many).tier = t /\ ScoreFinding(f, few).tier = t
      BY <1>8, <2>1 DEF ScoreFinding
    <3> QED BY <1>3, <3>1
  <2>2. CASE f.basis = "behavioral"
    <3>1. ScoreFinding(f, many).tier = "likely" /\ ScoreFinding(f, few).tier = "suspicious"
      BY <1>1, <1>8, <2>2 DEF ScoreFinding
    <3>2. PICK t, u : t = "likely" /\ u = "suspicious" /\ Rank(t) >= Rank(u)
      BY <1>2
    <3> QED BY <3>1, <3>2
  <2> QED BY <2>1, <2>2
<1> QED BY <1>7, <1>8

THEOREM EvidenceNeverLowers == FusionSpec => []MoreEvidenceNeverLowers
<1>1. FusionInv => MoreEvidenceNeverLowers
  <2> SUFFICES ASSUME FusionInv, phase = "done", NEW kept \in SUBSET Top, AssessmentOf(kept),
                      NEW v \in Reporters, NEW f \in kept \ Representatives(v)
               PROVE  \E r \in Results : /\ Fingerprint(r) = Fingerprint(f)
                                         /\ Rank(r.tier) >= Rank(Against(f, kept \ Representatives(v)).tier)
    BY DoneResults DEF MoreEvidenceNeverLowers
  <2>1. f \in Findings
    BY AllAreFindings DEF FusionInv, Top
  <2> DEFINE Agreed(peers) == \E g \in peers \ {f} : Corroborates(g, f)
             fewer == kept \ Representatives(v)
  <2>2. ASSUME NEW peers
        PROVE  /\ Against(f, peers).tier = ScoreFinding(f, Agreed(peers)).tier
               /\ Fingerprint(Against(f, peers)) = Fingerprint(f)
    <3>1. PICK corr \in BOOLEAN : corr = Agreed(peers)
      OBVIOUS
    <3>2. Against(f, peers) = Rescored(f, ScoreFinding(f, corr))
      BY <3>1 DEF Against
    <3> QED BY <2>1, <3>1, <3>2, RescoredKeeps
  <2>3. Agreed(fewer) => Agreed(kept)
    OBVIOUS
  <2>4. Rank(Against(f, kept).tier) >= Rank(Against(f, fewer).tier)
    <3>1. PICK few \in BOOLEAN, many \in BOOLEAN : few = Agreed(fewer) /\ many = Agreed(kept)
      OBVIOUS
    <3>2. Rank(ScoreFinding(f, many).tier) >= Rank(ScoreFinding(f, few).tier)
      BY <2>1, <2>3, <3>1, OpinionsOnlyRaise
    <3>3. Against(f, kept).tier = ScoreFinding(f, many).tier /\ Against(f, fewer).tier = ScoreFinding(f, few).tier
      BY <2>2, <3>1
    <3> QED BY <3>2, <3>3
  <2>5. Against(f, kept) \in Results
    BY DEF AssessmentOf
  <2> QED BY <2>2, <2>4, <2>5
<1> QED BY <1>1, ReportKeepsInv, PTL
=============================================================================
