------------------------------- MODULE Triage -------------------------------
(***************************************************************************)
(* Triage: internal/triage, the findings and decisions handlers of         *)
(* internal/httpapi/reports.go and their statements in store/pg.go. The    *)
(* findings of a scan are grouped by content, and every judgement the team *)
(* made about that content, for whatever customer, is shown beside it. The *)
(* findings of a scan are given; what importing does to them is Import's.  *)
(***************************************************************************)
EXTENDS Integers, Sequences, FiniteSets

CONSTANTS ScanFindings,   \* scan -> its findings, worst score first: [key, host, path, tier, score]
          CaseOf,         \* scan -> the case it was imported for
          Verdicts,       \* what is sent as a verdict, valid or not
          Analysts,
          MaxDecisions, MaxClock

\* The findings of a scan are a sequence.
ASSUME ScansAssumption ==
  \A scan \in DOMAIN ScanFindings :
    /\ Len(ScanFindings[scan]) \in Nat /\ DOMAIN ScanFindings[scan] = 1 .. Len(ScanFindings[scan])
    /\ \A i \in DOMAIN ScanFindings[scan] : ScanFindings[scan][i].score \in Int

ValidVerdicts == {"malicious", "false-positive", "benign-noteworthy", "undecided"}
TierRank == [clean |-> 0, unknown |-> 1, suspicious |-> 2, likely |-> 3, confirmed |-> 4]
RankOf(tier) == IF tier \in DOMAIN TierRank THEN TierRank[tier] ELSE 0

VARIABLES decisions,   \* the decisions table, by id: [key, verdict, case, at]
          clock,       \* the database's
          page         \* per analyst: [at, scan, groups, priors, seen]

triageVars == <<decisions, clock, page>>

Blank == [at |-> "idle", scan |-> "none", groups |-> <<>>, priors |-> <<>>, seen |-> 0]

TriageInit == /\ decisions = <<>> /\ clock = 0
              /\ page = [a \in Analysts |-> Blank]

\* What is in a set, in the order of a relation: before each come those that precede it.
InOrderOf(S, Precedes(_, _)) ==
  [i \in 1 .. Cardinality(S) |-> CHOOSE x \in S : Cardinality({y \in S : Precedes(y, x)}) = i - 1]

\* Groups: one group per content key, in the order they first appear; it lists the
\* findings of its content, here by their places in the scan ...
KeysOf(rows) == {rows[i].key : i \in DOMAIN rows}
Mine(rows, key) == {i \in DOMAIN rows : rows[i].key = key}
FirstOf(rows, key) == CHOOSE i \in Mine(rows, key) : \A j \in Mine(rows, key) : i <= j

\* Mutant: the first thing said about the content.
FirstTier(rows, key) == rows[FirstOf(rows, key)].tier

\* ... with the worst tier and score of its findings (nothing is worse than clean, so
\* that the tier of a group of clean findings stays empty) ...
Worst(rows, key) == {i \in Mine(rows, key) : \A j \in Mine(rows, key) : RankOf(rows[j].tier) <= RankOf(rows[i].tier)}
WorstTier(rows, key) ==
  LET first == CHOOSE i \in Worst(rows, key) : \A j \in Worst(rows, key) : i <= j
  IN  IF RankOf(rows[first].tier) = 0 THEN "" ELSE rows[first].tier
WorstScore(rows, key) ==
  CHOOSE s \in {0} \cup {rows[i].score : i \in Mine(rows, key)} : s >= 0 /\ \A i \in Mine(rows, key) : rows[i].score <= s

GroupOf(rows, key) ==
  [key |-> key, findings |-> Mine(rows, key), first |-> FirstOf(rows, key),
   tier |-> WorstTier(rows, key), score |-> WorstScore(rows, key),
   locations |-> Cardinality({<<rows[i].host, rows[i].path>> : i \in Mine(rows, key)})]

\* ... the worst first, stably.
Before(g, h) ==
  \/ RankOf(g.tier) > RankOf(h.tier)
  \/ RankOf(g.tier) = RankOf(h.tier) /\ g.score > h.score
  \/ RankOf(g.tier) = RankOf(h.tier) /\ g.score = h.score /\ g.locations > h.locations
  \/ /\ RankOf(g.tier) = RankOf(h.tier) /\ g.score = h.score /\ g.locations = h.locations /\ g.first < h.first
Groups(rows) == InOrderOf({GroupOf(rows, key) : key \in KeysOf(rows)}, Before)

\* DecisionsFor: the judgements about a content key, newest first; of one time, the
\* later id first.
Newer(i, j) == decisions[i].at > decisions[j].at \/ (decisions[i].at = decisions[j].at /\ i > j)
DecisionsFor(key) == InOrderOf({i \in DOMAIN decisions : decisions[i].key = key}, Newer)

\* GET findings: the rows are read and grouped in one step ...
Open(a, scan) ==
  /\ page' = [page EXCEPT ![a] = [at |-> "grouped", scan |-> scan, groups |-> Groups(ScanFindings[scan]),
                                  priors |-> <<>>, seen |-> Len(decisions)]]
  /\ UNCHANGED <<decisions, clock>>

\* ... and the judgements about their content in the next.
Show(a) ==
  /\ page[a].at = "grouped"
  /\ page' = [page EXCEPT ![a].at = "shown",
                          ![a].priors = [g \in DOMAIN page[a].groups |-> DecisionsFor(page[a].groups[g].key)]]
  /\ UNCHANGED <<decisions, clock>>

\* POST decisions: an unknown verdict is refused, any other appended under now();
\* "a changed mind is a new row".
RecordDecision(a, verdict) ==
  /\ page[a].at = "shown" /\ verdict \in ValidVerdicts /\ Len(decisions) < MaxDecisions
  /\ \E g \in DOMAIN page[a].groups :
       decisions' = Append(decisions, [key |-> page[a].groups[g].key, verdict |-> verdict,
                                       case |-> CaseOf[page[a].scan], at |-> clock])
  /\ page' = [page EXCEPT ![a] = Blank]
  /\ UNCHANGED clock

Tick == /\ clock < MaxClock /\ clock' = clock + 1
        /\ UNCHANGED <<decisions, page>>

TriageNext == \/ \E a \in Analysts : \/ \E scan \in DOMAIN ScanFindings : Open(a, scan)
                                     \/ Show(a)
                                     \/ \E verdict \in Verdicts : RecordDecision(a, verdict)
              \/ Tick

TriageSpec == TriageInit /\ [][TriageNext]_triageVars

-----------------------------------------------------------------------------
\* "a file judged on one customer surfaces that judgement on the next customer
\* containing the same bytes, BEFORE the analyst is asked to decide again"
\* (DecisionsFor): a page shows every judgement there was when it was asked for,
\* of every case and none of other content, the latest first; each finding of the scan is
\* in one of its groups, and no group is worse than the one before it.
PageIsWhole ==
  \A a \in Analysts : page[a].at = "shown" =>
    LET rows == ScanFindings[page[a].scan]
        groups == page[a].groups
        priors == page[a].priors
    IN  /\ \A i \in DOMAIN rows : \E g \in DOMAIN groups :
             i \in groups[g].findings /\ \A h \in DOMAIN groups \ {g} : i \notin groups[h].findings
        /\ \A g \in DOMAIN groups :
             /\ \A i \in groups[g].findings : /\ rows[i].key = groups[g].key
                                              /\ RankOf(rows[i].tier) <= RankOf(groups[g].tier)
             /\ g > 1 => RankOf(groups[g].tier) <= RankOf(groups[g - 1].tier)
             /\ \A i \in 1 .. page[a].seen :
                  decisions[i].key = groups[g].key => \E k \in DOMAIN priors[g] : priors[g][k] = i
             /\ \A k \in DOMAIN priors[g] : decisions[priors[g][k]].key = groups[g].key
             /\ \A k, l \in DOMAIN priors[g] : k < l => decisions[priors[g][k]].at >= decisions[priors[g][l]].at
=============================================================================
