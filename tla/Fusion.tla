------------------------------- MODULE Fusion -------------------------------
(***************************************************************************)
(* How the findings of the probes become a report: the concurrent appends  *)
(* of orchestrator.Scan (scan.go) and fusion.Assess (fusion.go and         *)
(* normalize.go), which normalises, deduplicates, scores every finding in  *)
(* place against its peers, and rolls the tiers up into the verdict.       *)
(***************************************************************************)
EXTENDS Integers, Sequences, FiniteSets

CONSTANTS Reporters,   \* the probes
          Pool,        \* the findings each probe may report
          MaxPerProbe, \* bounds: how many findings each probe reports
          ScanHost     \* the host the scan resolved

Tiers == {"", "clean", "suspicious", "likely", "confirmed"}
Rank(t) == CASE t = "confirmed" -> 3 [] t = "likely" -> 2 [] t = "suspicious" -> 1 [] OTHER -> 0

\* Families that identify a generator, by the exact label. A probe's own label
\* may also be a rule category ("GenericEval") or a lower-case family name
\* ("behinder", from the memory probes); "" is no label.
Attributed == {"Behinder", "Godzilla", "AntSword", "ChinaChopper", "IceScorpion"}
Keyed == {"Behinder", "Godzilla"}   \* families whose default key is a known constant

Calibrated == {"signature", "heuristic", "taint"}
Structural == {"structural-heuristic", "provenance-anomaly", "memory-region-anomaly",
               "etw-dynamic-load", "reachability-dispatch", "stomp-diff"}

\* A finding carries its own view, and two probes may report under one: the 32-bit
\* companion of the .NET probe says "dotnet-mem" too. `keys` are the default-key
\* constants in the evidence, `first` the one familyFromEvidence answers with, and
\* `rule` is the knowledge reference together with the rest of the evidence.
Findings ==
  LET Some == UNION {Pool[v] : v \in Reporters}
  IN  [view : {f.view : f \in Some}, host : {f.host : f \in Some} \cup {ScanHost}, target : {f.target : f \in Some},
       rule : {f.rule : f \in Some}, keys : SUBSET Keyed, first : Keyed \cup {""},
       label : {f.label : f \in Some} \cup Keyed, basis : {f.basis : f \in Some}, tier : Tiers, score : Int,
       allow : BOOLEAN]

ASSUME PoolAssumption ==
  /\ MaxPerProbe \in [Reporters -> Nat]
  /\ \A v \in Reporters : Pool[v] \subseteq Findings

VARIABLES outputs,  \* what each probe returned, in its order
          arrived,  \* probes whose goroutine has appended its output
          gap,      \* some coverage record is failed or truncated
          list,     \* the findings, being rewritten
          phase, next, verdict

fusionVars == <<outputs, arrived, gap, list, phase, next, verdict>>

NoVerdict == [tier |-> "none", score |-> 0, incomplete |-> FALSE]

-----------------------------------------------------------------------------
(* The operators of fusion.go and normalize.go on one finding.              *)

AttributedFamily(f) == f.label \in Attributed

\* familyFromEvidence ranges over a map, in an order Go draws anew for every finding:
\* of several constants in the evidence any may be met first. Nothing else depends on
\* the draw, so it is made when the finding is.
FamilyFromEvidence(f) == IF f.keys = {} THEN {""} ELSE f.keys

\* Scan stamps the host on a finding without one; Assess then labels it from the
\* evidence unless the probe did.
Normal(f) == [f EXCEPT !.host = IF @ = "" THEN ScanHost ELSE @,
                       !.label = IF @ = "" THEN f.first ELSE @]

\* Neither tier, score nor the allowlist flag is part of it.
Fingerprint(f) == <<f.host, f.view, f.target, f.basis, f.rule, f.keys, f.label>>

\* Mutant: a peer counts by the tier it has when it is looked at.
IsCredibleByTier(g) == ~g.allow /\ Rank(g.tier) >= 2

IsCredible(g) ==
  /\ ~g.allow
  /\ \/ AttributedFamily(g)
     \/ g.basis \in {"signature", "behavioral"} \cup (Structural \ {"stomp-diff"})

\* Mutant: the locality check within one view is dropped.
CorroboratesAnywhere(g, f) == g.host = f.host /\ IsCredible(g) /\ (g.view # f.view \/ AttributedFamily(g))

Corroborates(g, f) ==
  /\ g.host = f.host
  /\ IsCredible(g)
  /\ g.view # f.view \/ (AttributedFamily(g) /\ g.target = f.target)

AtLeast(score, floor) == IF score > floor THEN score ELSE floor

TierForScore(s) ==
  IF s >= 85 THEN "confirmed" ELSE IF s >= 60 THEN "likely" ELSE IF s >= 40 THEN "suspicious" ELSE "clean"

As(tier, score) == [tier |-> tier, score |-> score]

ScoreAttributed(f, corr) ==
  IF corr THEN As("confirmed", AtLeast(f.score, 95))
  ELSE IF f.tier = "confirmed" THEN As("confirmed", f.score)
  ELSE As("likely", AtLeast(f.score, 80))

ScoreCalibrated(f, corr) ==
  IF f.tier = "confirmed" THEN As("confirmed", f.score)
  ELSE IF corr /\ f.tier = "likely" THEN As("confirmed", AtLeast(f.score, 90))
  ELSE IF f.tier # "" THEN As(f.tier, f.score)
  ELSE IF f.score > 0 THEN As(TierForScore(f.score), f.score)
  ELSE As("likely", 70)

\* Mutant: corroboration is looked at before the probe's own confidence.
ScoreStructuralCapped(f, corr) ==
  CASE corr                 -> As("likely", 75)
    [] f.tier = "confirmed" -> As("confirmed", AtLeast(f.score, 85))
    [] f.tier = "likely"    -> As("likely", AtLeast(f.score, 80))
    [] OTHER                -> As("suspicious", 50)

ScoreStructural(f, corr) ==
  IF f.tier = "confirmed" THEN As("confirmed", AtLeast(f.score, 85))
  ELSE IF f.tier = "likely" THEN IF corr THEN As("confirmed", AtLeast(f.score, 95))
                                 ELSE As("likely", AtLeast(f.score, 80))
  ELSE IF corr THEN As("likely", 75) ELSE As("suspicious", 50)

ScoreFinding(f, corr) ==
  IF AttributedFamily(f) THEN ScoreAttributed(f, corr)
  ELSE IF f.basis \in Calibrated THEN ScoreCalibrated(f, corr)
  ELSE IF f.basis \in Structural THEN ScoreStructural(f, corr)
  ELSE IF f.basis = "behavioral" THEN IF corr THEN As("likely", 75) ELSE As("suspicious", 50)
  ELSE IF f.basis = "behavioral-context" THEN As("clean", 10)
  ELSE As("suspicious", 45)

Rescored(f, s) == [f EXCEPT !.tier = s.tier, !.score = s.score]

-----------------------------------------------------------------------------
(* The steps.                                                               *)

\* What a probe may return: some of its pool, each with a draw of its own.
Returned == [v \in Reporters |->
  LET drawn == UNION {{[f EXCEPT !.first = k] : k \in FamilyFromEvidence(f)} : f \in Pool[v]}
  IN  UNION {[1 .. n -> drawn] : n \in 0 .. MaxPerProbe[v]}]

FusionInit ==
  /\ outputs \in {o \in [Reporters -> UNION {Returned[v] : v \in Reporters}] : \A v \in Reporters : o[v] \in Returned[v]}
  /\ arrived = {}
  /\ gap \in BOOLEAN
  /\ list = <<>>
  /\ phase = "collect" /\ next = 1
  /\ verdict = NoVerdict

\* The goroutine of probe v appends under the mutex, in whatever order they end.
Collect(v) ==
  /\ phase = "collect" /\ v \notin arrived
  /\ list' = list \o outputs[v]
  /\ arrived' = arrived \cup {v}
  /\ UNCHANGED <<outputs, gap, phase, next, verdict>>

\* wg.Wait, the host stamp, correlation and normalisation.
Normalize ==
  /\ phase = "collect" /\ arrived = Reporters
  /\ list' = [i \in DOMAIN list |-> Normal(list[i])]
  /\ phase' = "dedup"
  /\ UNCHANGED <<outputs, arrived, gap, next, verdict>>

\* Of the findings with one fingerprint the first with the highest score is kept,
Kept == {i \in DOMAIN list : \A j \in DOMAIN list :
           Fingerprint(list[j]) = Fingerprint(list[i]) =>
             list[i].score > list[j].score \/ (list[i].score = list[j].score /\ i <= j)}

\* at the place where the first of them was seen.
SeenBefore(i, k) ==
  \E j \in DOMAIN list : /\ Fingerprint(list[j]) = Fingerprint(list[i])
                         /\ \A l \in DOMAIN list : Fingerprint(list[l]) = Fingerprint(list[k]) => j < l

Dedup ==
  /\ phase = "dedup"
  /\ \E kept \in [1 .. Cardinality(Kept) -> Kept] :
       /\ \A m, n \in DOMAIN kept : m < n => SeenBefore(kept[m], kept[n])
       /\ list' = [n \in DOMAIN kept |-> list[kept[n]]]
  /\ phase' = "score"
  /\ UNCHANGED <<outputs, arrived, gap, next, verdict>>

\* Finding number `next` is rewritten; those after it still see the probe's own
\* words in their peers that come later, and fusion's in those before.
Score ==
  /\ phase = "score" /\ next <= Len(list)
  /\ LET corr == \E j \in DOMAIN list \ {next} : Corroborates(list[j], list[next])
     IN  list' = [list EXCEPT ![next] = Rescored(@, ScoreFinding(@, corr))]
  /\ next' = next + 1
  /\ UNCHANGED <<outputs, arrived, gap, phase, verdict>>

Worst == {f \in {list[i] : i \in DOMAIN list} :
            \A j \in DOMAIN list : Rank(f.tier) >= Rank(list[j].tier)}

RollupTier == IF \E f \in Worst : Rank(f.tier) > 0
              THEN (CHOOSE f \in Worst : TRUE).tier
              ELSE "clean"

RollUp ==
  /\ phase = "score" /\ next > Len(list)
  /\ verdict' = [tier |-> IF gap /\ RollupTier = "clean" THEN "unknown" ELSE RollupTier,
                 score |-> CHOOSE s \in {0} \cup {list[i].score : i \in DOMAIN list} :
                             \A i \in DOMAIN list : s >= list[i].score,
                 incomplete |-> gap]
  /\ phase' = "done"
  /\ UNCHANGED <<outputs, arrived, gap, list, next>>

FusionNext == (\E v \in Reporters : Collect(v)) \/ Normalize \/ Dedup \/ Score \/ RollUp

FusionSpec == FusionInit /\ [][FusionNext]_fusionVars

-----------------------------------------------------------------------------
(* Properties.                                                              *)

Results == {list[i] : i \in DOMAIN list}

\* What a probe's output contributes, whatever the other probes did: of the
\* findings with one fingerprint, the first with the highest score.
Representatives(v) ==
  LET out == outputs[v]
      norm == [i \in DOMAIN out |-> Normal(out[i])]
  IN  {norm[i] : i \in {i \in DOMAIN out : \A j \in DOMAIN out :
         (j # i /\ Fingerprint(norm[j]) = Fingerprint(norm[i])) =>
             (norm[i].score > norm[j].score \/ (norm[i].score = norm[j].score /\ i < j))}}

All == UNION {Representatives(v) : v \in Reporters}

Said == UNION {{Normal(outputs[v][i]) : i \in DOMAIN outputs[v]} : v \in Reporters}

\* The representatives no probe scored higher.
Top == {f \in All : \A g \in Said : Fingerprint(g) = Fingerprint(f) => f.score >= g.score}

\* A finding scored against a set of peers as their probes reported them.
Against(f, peers) ==
  Rescored(f, ScoreFinding(f, \E g \in peers \ {f} : Corroborates(g, f)))

\* The report is the assessment of `kept`: one finding for every fingerprint that was
\* said, of those that score highest, each scored once and against the others' own words.
AssessmentOf(kept) ==
  /\ kept \subseteq Top
  /\ \A g \in Said : \E f \in kept : Fingerprint(f) = Fingerprint(g)
  /\ \A f, g \in kept : Fingerprint(f) = Fingerprint(g) => f = g
  /\ Results = {Against(f, kept) : f \in kept}
  /\ Len(list) = Cardinality(kept)

\* The order in which the probes finished and in which findings are rewritten in place
\* settles one thing only: which of two probes' findings is kept, when they have one
\* fingerprint and one score. What two probes do not both report has no say but its own
\* ("deterministic", fusion.go; the mutex append of scan.go).
ReportIsOrderFree == phase = "done" => \E kept \in SUBSET Top : AssessmentOf(kept)

\* What counts as a second opinion, stated apart from the code: a finding that
\* is not allowlisted, of a basis that means malice or with an attributed family,
\* on the same host, from another view or about the same target.
Trusted(g) ==
  /\ ~g.allow
  /\ g.label \in Attributed \/ g.basis \in ({"signature", "behavioral"} \cup Structural) \ {"stomp-diff"}

SecondOpinion(g, f) ==
  Trusted(g) /\ g.host = f.host /\ (g.view # f.view \/ (g.label \in Attributed /\ g.target = f.target))

\* "confirmed" is either the probe's own word, by tier or by a score of 85, or it
\* was earned by a second opinion (the scoring model above scoreFinding).
ConfirmedIsEarned ==
  phase = "done" =>
    \A r \in Results : r.tier = "confirmed" =>
      \E f \in All : /\ Fingerprint(f) = Fingerprint(r)
                     /\ \/ f.tier = "confirmed"
                        \/ f.tier = "" /\ f.score >= 85 /\ f.basis \in Calibrated
                        \/ \E g \in All \ {f} : SecondOpinion(g, f)

\* What a probe adds to the report never makes a finding weaker that is not its own: each
\* is at least what it would be beside the rest. (Of a finding that two probes report the
\* one with the higher score is kept, whatever its tier and its allowlist flag.)
MoreEvidenceNeverLowers ==
  phase = "done" => \E kept \in SUBSET Top :
    /\ AssessmentOf(kept)
    /\ \A v \in Reporters : \A f \in kept \ Representatives(v) :
         \E r \in Results : /\ Fingerprint(r) = Fingerprint(f)
                            /\ Rank(r.tier) >= Rank(Against(f, kept \ Representatives(v)).tier)

\* "attributedFamilies are the family labels that actually IDENTIFY a webshell
\* family, from a distinctive artifact: a keyed generator's default key"
\* (fusion.go): a finding whose evidence holds such a key counts as attributed.
DefaultKeyIsAttribution ==
  phase = "score" => \A f \in Results : f.keys # {} => AttributedFamily(f)
=============================================================================
