----------------------------- MODULE DiskProofs -----------------------------
(***************************************************************************)
(* Of the analyses of a file: what the taint passes report as proven is a   *)
(* flow, for every set of pages and any number of rounds, and of a page of  *)
(* includes no flow is missed; unwrapping leaves nothing wrapped that it    *)
(* does not own up to, for every corpus and every bound; the Java           *)
(* analyzer's table means what lexical scoping means, for every source; and *)
(* an archive that is accepted reads alike from its directory and from its  *)
(* start.                                                                   *)
(***************************************************************************)
EXTENDS ScriptTaint, Deobfuscate, JavaSource, SafeZip, NumberLemmas, SequenceTheorems, TLAPS

-----------------------------------------------------------------------------
(* The taint passes.                                                        *)

\* The variable a key of the pass stands for.
Meant(p, k) == IF k[1] # 0 /\ k[2] \in Declared(p, k[1]) THEN k ELSE <<0, k[2]>>

\* Every key the pass has tainted stands for a variable the request flows into.
TaintInv == /\ page \in Pages
            /\ at \in Nat \ {0}
            /\ \A k \in tainted : Meant(page, k) \in Flows(page)

-----------------------------------------------------------------------------
\* scopeOf: a routine owns what it declares.
LEMMA DeclaredIsOwned == ASSUME NEW p \in Pages, NEW r PROVE Declared(p, r) \subseteq Owned(p, r)
<1>1. \A i \in Lines(p) : Line(p, i).locals \subseteq Line(p, i).owns
  BY PagesAssumption DEF Lines, Line
<1> QED BY <1>1 DEF Declared, Owned

\* key: whatever scope it chooses, the name it stands for is the one the language means.
LEMMA KeyMeansVariable ==
  ASSUME NEW p \in Pages, NEW i, NEW n PROVE Meant(p, Key(p, i, n)) = Variable(p, i, n)
<1> DEFINE s == ScopeOf(p, i)
<1>1. n \in Declared(p, s) => n \in Owned(p, s)
  BY DeclaredIsOwned
<1>2. CASE s # 0 /\ n \in Owned(p, s)
  <2>1. Key(p, i, n) = <<s, n>>
    BY <1>2 DEF Key
  <2> QED BY <1>2, <2>1 DEF Meant, Variable
<1>3. CASE ~(s # 0 /\ n \in Owned(p, s))
  <2>1. Key(p, i, n) = <<0, n>>
    BY <1>3 DEF Key
  <2>2. Variable(p, i, n) = <<0, n>>
    BY <1>1, <1>3 DEF Variable
  <2> QED BY <2>1, <2>2 DEF Meant
<1> QED BY <1>2, <1>3

\* What carries taint for the pass is fed by the request.
LEMMA CarriesIsFed ==
  ASSUME NEW p \in Pages, NEW i, NEW x, NEW T, NEW F,
         \A k \in T : Meant(p, k) \in F,
         Carries(p, i, x, T)
  PROVE  Fed(p, i, x, F)
<1>1. CASE Given(p, x.source)
  BY <1>1 DEF Fed
<1>2. CASE \E n \in x.reads : Key(p, i, n) \in T
  <2>1. PICK n \in x.reads : Key(p, i, n) \in T
    BY <1>2
  <2>2. Variable(p, i, n) \in F
    BY <2>1, KeyMeansVariable
  <2> QED BY <2>1, <2>2 DEF Fed
<1> QED BY <1>1, <1>2 DEF Carries

\* The flows of a page are closed under its assignments.
LEMMA FlowsAreClosed == ASSUME NEW p \in Pages PROVE Closed(p, Flows(p))
<1> SUFFICES ASSUME NEW i \in Lines(p), Assigns(p, i), Fed(p, i, Line(p, i), Flows(p)),
                    NEW n \in Line(p, i).into
             PROVE  Variable(p, i, n) \in Flows(p)
  BY DEF Closed
<1>1. n \in Names
  BY PagesAssumption DEF Lines, Line
<1>2. Variable(p, i, n) \in Variables(p)
  BY <1>1 DEF Variables
<1>3. ASSUME NEW T \in SUBSET Variables(p), Closed(p, T) PROVE Variable(p, i, n) \in T
  <2>1. Flows(p) \subseteq T
    BY <1>3 DEF Flows
  <2>2. Fed(p, i, Line(p, i), T)
    BY <2>1 DEF Fed
  <2> QED BY <1>3, <2>2 DEF Closed
<1> QED BY <1>2, <1>3 DEF Flows

-----------------------------------------------------------------------------
\* The fixpoint of taintedNames, however many rounds it is given and wherever it stops:
\* what it has tainted is reached by the request.
THEOREM OnlyFlowsAreTainted == TaintSpec => []TaintInv
<1>1. TaintInit => TaintInv
  BY DEF TaintInit, TaintInv
<1>2. TaintInv /\ [TaintNext]_taintVars => TaintInv'
  <2> SUFFICES ASSUME TaintInv, [TaintNext]_taintVars PROVE TaintInv'
    OBVIOUS
  <2>1. CASE Skip
    BY <2>1 DEF TaintInv, Skip
  <2>2. CASE Propagate
    <3>1. at' \in Nat \ {0} /\ page' = page /\ page \in Pages
      BY <2>2 DEF TaintInv, Propagate
    <3>2. ASSUME NEW k \in tainted' PROVE Meant(page, k) \in Flows(page)
      <4>1. CASE k \in tainted
        BY <4>1 DEF TaintInv
      <4>2. CASE k \notin tainted
        <5>1. /\ Assigns(page, at) /\ Carries(page, at, Line(page, at), tainted)
              /\ \E n \in Line(page, at).into : k = Key(page, at, n)
          BY <2>2, <3>2, <4>2 DEF Propagate
        <5>2. PICK n \in Line(page, at).into : k = Key(page, at, n)
          BY <5>1
        <5>3. Fed(page, at, Line(page, at), Flows(page))
          BY <3>1, <5>1, CarriesIsFed DEF TaintInv
        <5>4. at \in Lines(page)
          BY <2>2 DEF TaintInv, Propagate, Lines
        <5>5. Variable(page, at, n) \in Flows(page)
          BY <3>1, <5>1, <5>3, <5>4, FlowsAreClosed DEF Closed
        <5> QED BY <3>1, <5>2, <5>5, KeyMeansVariable
      <4> QED BY <4>1, <4>2
    <3> QED BY <3>1, <3>2 DEF TaintInv
  <2>3. CASE EndRound
    BY <2>3 DEF TaintInv, EndRound
  <2>4. CASE JudgeSinks
    BY <2>4 DEF TaintInv, JudgeSinks
  <2>5. CASE UNCHANGED taintVars
    BY <2>5 DEF TaintInv, taintVars
  <2> QED BY <2>1, <2>2, <2>3, <2>4, <2>5 DEF TaintNext
<1> QED BY <1>1, <1>2, PTL DEF TaintSpec

\* A sink that is judged reached is a call the request flows into.
LEMMA ReachedIsFed ==
  ASSUME NEW p \in Pages, NEW T, NEW F, \A k \in T : Meant(p, k) \in F,
         NEW i \in Lines(p), NEW h \in DOMAIN Line(p, i).calls, Reaches(p, i, h, T)
  PROVE  /\ Fed(p, i, Line(p, i).calls[h], F)
         /\ ~(p.grammar = "perl" /\ Line(p, i).calls[h].defines)
         /\ ~(p.grammar = "asp" /\ Line(p, i).declares)
<1>1. CASE p.grammar = "asp"
  BY <1>1, CarriesIsFed DEF Reaches, AspReaches
<1>2. CASE p.grammar = "perl"
  BY <1>2, CarriesIsFed DEF Reaches, PerlReaches
<1>3. CASE p.grammar = "ssi"
  BY <1>3, CarriesIsFed DEF Reaches, SsiReaches
<1> QED BY <1>1, <1>2, <1>3 DEF Reaches

\* Analyze: every finding of a page has a call or a write of the page that the request's
\* data flows into, as the language scopes its names.
THEOREM FindingsAreProven == TaintSpec => []ProvenMeansAFlow
<1>1. TaintInit => ProvenMeansAFlow
  BY DEF TaintInit, ProvenMeansAFlow
<1>2. TaintInv /\ ProvenMeansAFlow /\ [TaintNext]_taintVars => ProvenMeansAFlow'
  <2> SUFFICES ASSUME TaintInv, ProvenMeansAFlow, [TaintNext]_taintVars PROVE ProvenMeansAFlow'
    OBVIOUS
  <2>1. CASE UNCHANGED <<page, proven>>
    BY <2>1 DEF ProvenMeansAFlow
  <2>2. CASE JudgeSinks
    <3> USE DEF TaintInv
    <3>1. page' = page /\ page \in Pages /\ proven' = SinkFindings(page, tainted) \cup Drops(page, tainted)
      BY <2>2 DEF JudgeSinks
    <3>2. ASSUME NEW f \in SinkFindings(page, tainted)
          PROVE  \E i \in Lines(page) : \E c \in CallsOf(Line(page, i)) :
                   /\ c.sink = f
                   /\ ~(page.grammar = "perl" /\ c.defines)
                   /\ ~(page.grammar = "asp" /\ Line(page, i).declares)
                   /\ Fed(page, i, c, Flows(page))
      <4>1. PICK i \in Lines(page) : \E h \in DOMAIN Line(page, i).calls :
              f = Line(page, i).calls[h].sink /\ Reaches(page, i, h, tainted)
        BY <3>2 DEF SinkFindings
      <4>2. PICK h \in DOMAIN Line(page, i).calls : f = Line(page, i).calls[h].sink /\ Reaches(page, i, h, tainted)
        BY <4>1
      <4>3. Line(page, i).calls[h] \in CallsOf(Line(page, i))
        BY DEF CallsOf
      <4> QED BY <3>1, <4>2, <4>3, ReachedIsFed
    <3>3. ASSUME NEW f \in Drops(page, tainted)
          PROVE  \E i \in Lines(page) :
                   /\ f \in {"file-drop-on-request", "request-content-file-write"}
                   /\ Line(page, i).writes.handle # Nobody
                   /\ Fed(page, i, Line(page, i).writes, Flows(page))
      <4>1. Written(page, tainted) # {} /\ f \in {"file-drop-on-request", "request-content-file-write"}
        BY <3>3 DEF Drops
      <4>2. PICK i \in Lines(page) : /\ Line(page, i).writes.handle # Nobody
                                     /\ Carries(page, i, Line(page, i).writes, tainted)
        BY <4>1 DEF Written
      <4> QED BY <3>1, <4>1, <4>2, CarriesIsFed
    <3> QED BY <3>1, <3>2, <3>3 DEF ProvenMeansAFlow
  <2>3. Skip \/ Propagate \/ EndRound => UNCHANGED <<page, proven>>
    BY DEF Skip, Propagate, EndRound
  <2> QED BY <2>1, <2>2, <2>3 DEF TaintNext, taintVars
<1> QED BY <1>1, <1>2, OnlyFlowsAreTainted, PTL DEF TaintSpec

-----------------------------------------------------------------------------
(* Pages of includes.                                                       *)

Includes == page.grammar = "ssi" /\ ~page.large
Settable(p) == {<<0, n>> : n \in UNION {Line(p, i).into : i \in Lines(p)}}
Holds(i) == Assigns(page, i) /\ Carries(page, i, Line(page, i), tainted)
              => \A n \in Line(page, i).into : Key(page, i, n) \in tainted

\* Every round before the last has tainted a name more, and there are no more names than
\* statements; a round that taints none leaves every assignment fulfilled.
IncludesInv ==
  /\ page \in Pages
  /\ Includes =>
       /\ doing \in {"sweep", "judge", "done"} /\ grew \in BOOLEAN
       /\ tainted \subseteq Settable(page)
       /\ doing = "sweep" => /\ at \in 1 .. Len(page.statements) + 1 /\ round \in Nat
                             /\ ~grew => \A i \in Lines(page) : i < at => Holds(i)
                             /\ Cardinality(tainted) >= round + (IF grew THEN 1 ELSE 0)
       /\ doing # "sweep" => \A i \in Lines(page) : Holds(i)
       /\ doing = "done" => SinkFindings(page, tainted) \subseteq proven

\* There are no more names to taint than statements.
LEMMA FewKeys ==
  ASSUME NEW p \in Pages, p.grammar = "ssi"
  PROVE  IsFiniteSet(Settable(p)) /\ Cardinality(Settable(p)) <= Len(p.statements)
<1> DEFINE n == Len(p.statements)
           S == {i \in 1 .. n : Line(p, i).into # {}}
           f == [i \in S |-> <<0, CHOOSE x \in Line(p, i).into : TRUE>>]
           T == Settable(p)
<1>1. n \in Nat /\ Lines(p) = 1 .. n
  BY StatementsInOrder DEF Lines
<1>2. IsFiniteSet(S) /\ Cardinality(S) <= n
  <2>1. IsFiniteSet(1 .. n) /\ Cardinality(1 .. n) = n
    BY <1>1, FS_Interval
  <2>2. S \in SUBSET (1 .. n)
    OBVIOUS
  <2> HIDE DEF S, n
  <2> QED BY <2>1, <2>2, FS_Subset
<1>3. \A i \in S : \A x \in Line(p, i).into : f[i] = <<0, x>>
  <2> TAKE i \in S
  <2>1. \A x, y \in Line(p, i).into : x = y
    BY <1>1, StatementsInOrder DEF Lines, Line
  <2> QED BY <2>1
<1>4. f \in [S -> T] /\ \A t \in T : \E i \in S : f[i] = t
  <2>1. ASSUME NEW i \in S PROVE f[i] \in T
    <3>1. PICK x \in Line(p, i).into : TRUE
      OBVIOUS
    <3>2. f[i] = <<0, x>> /\ i \in Lines(p)
      BY <1>1, <1>3, <3>1
    <3> QED BY <3>2 DEF Settable
  <2>2. ASSUME NEW t \in T PROVE \E i \in S : f[i] = t
    <3>1. PICK i \in Lines(p) : \E x \in Line(p, i).into : t = <<0, x>>
      BY DEF Settable
    <3>2. i \in S
      BY <1>1, <3>1
    <3> QED BY <1>3, <3>1, <3>2
  <2>3. f = [i \in S |-> f[i]]
    OBVIOUS
  <2> HIDE DEF f, S, T
  <2>4. f \in [S -> T]
    BY <2>1, <2>3
  <2> QED BY <2>2, <2>4
<1> HIDE DEF f, S, T
<1>5. IsFiniteSet(T) /\ Cardinality(T) <= Cardinality(S)
  BY <1>2, <1>4, Onto
<1>6. Cardinality(T) \in Nat /\ Cardinality(S) \in Nat
  BY <1>2, <1>5, FS_CardinalityType
<1> QED BY <1>1, <1>2, <1>5, <1>6 DEF T

\* No routine surrounds a directive: a name is the file's.
LEMMA NamesAreTheFiles ==
  ASSUME NEW p \in Pages, p.grammar = "ssi", NEW i \in Lines(p), NEW n
  PROVE  Key(p, i, n) = <<0, n>> /\ Variable(p, i, n) = <<0, n>>
<1>1. \A j \in Lines(p) : Line(p, j).bound = Nobody
  BY StatementsInOrder DEF Lines, Line
<1>2. 1 .. i - 1 \subseteq Lines(p)
  BY StatementsInOrder DEF Lines
<1>3. Bounds(p, i) = {}
  BY <1>1, <1>2 DEF Bounds
<1>4. ScopeOf(p, i) = 0
  BY <1>1, <1>3 DEF ScopeOf, Around, Nobody
<1> QED BY <1>4 DEF Key, Variable

\* What the request flows into is tainted once every assignment is fulfilled.
LEMMA FlowsAreTainted ==
  ASSUME NEW p \in Pages, p.grammar = "ssi", page = p, \A i \in Lines(p) : Holds(i)
  PROVE  Flows(p) \subseteq tainted
<1> DEFINE T == tainted \cap Variables(p)
<1>1. Closed(p, T)
  <2> SUFFICES ASSUME NEW i \in Lines(p), Assigns(p, i), Fed(p, i, Line(p, i), T), NEW n \in Line(p, i).into
               PROVE  Variable(p, i, n) \in T
    BY DEF Closed
  <2>1. Carries(p, i, Line(p, i), tainted)
    BY NamesAreTheFiles DEF Fed, Carries
  <2>2. Key(p, i, n) \in tainted
    BY <2>1 DEF Holds
  <2>3. n \in Names
    BY PagesAssumption DEF Lines, Line
  <2>4. Variable(p, i, n) \in Variables(p)
    BY <2>3 DEF Variables
  <2> QED BY <2>2, <2>4, NamesAreTheFiles
<1>2. T \in SUBSET Variables(p)
  OBVIOUS
<1> HIDE DEF T
<1>3. Flows(p) \subseteq T
  BY <1>1, <1>2 DEF Flows
<1> QED BY <1>3 DEF T

\* Of the calls of a family that carry taint, the first is reported.
LEMMA FirstIsReported ==
  ASSUME NEW p \in Pages, p.grammar = "ssi", NEW T, NEW i \in Lines(p),
         NEW k \in DOMAIN Line(p, i).calls, Carries(p, i, Line(p, i).calls[k], T)
  PROVE  \E f \in SinkFindings(p, T) : Family(f) = Family(Line(p, i).calls[k].sink)
<1> DEFINE Hit(j, h) == /\ h \in DOMAIN Line(p, j).calls
                        /\ Family(Line(p, j).calls[h].sink) = Family(Line(p, i).calls[k].sink)
                        /\ Carries(p, j, Line(p, j).calls[h], T)
           Hits(j) == {h \in DOMAIN Line(p, j).calls : Hit(j, h)}
           S == {j \in Lines(p) : Hits(j) # {}}
<1>0. /\ Lines(p) \subseteq Nat
      /\ \A j \in Lines(p) : DOMAIN Line(p, j).calls \subseteq Nat
  BY StatementsInOrder DEF Lines, Line
<1>1. PICK j \in S : \A m \in S : j <= m
  <2>1. i \in S
    OBVIOUS
  <2>2. S \in SUBSET Nat /\ S # {}
    BY <1>0, <2>1
  <2> HIDE DEF S
  <2> QED BY <2>2, LeastNumber
<1>2. PICK h \in Hits(j) : \A m \in Hits(j) : h <= m
  <2>1. Hits(j) \in SUBSET Nat /\ Hits(j) # {}
    BY <1>0, <1>1
  <2> HIDE DEF Hits
  <2> QED BY <2>1, LeastNumber
<1>3. ASSUME NEW l \in Lines(p), NEW m \in DOMAIN Line(p, l).calls, Precedes(l, m, j, h),
             Family(Line(p, l).calls[m].sink) = Family(Line(p, j).calls[h].sink),
             Carries(p, l, Line(p, l).calls[m], T)
      PROVE  FALSE
  <2>1. Family(Line(p, l).calls[m].sink) = Family(Line(p, i).calls[k].sink)
    BY <1>2, <1>3
  <2>2. m \in Hits(l) /\ l \in S
    BY <1>3, <2>1
  <2>3. j <= l /\ (l = j => h <= m)
    BY <1>1, <1>2, <2>2
  <2> HIDE DEF S, Hits
  <2> QED BY <1>0, <1>1, <1>2, <1>3, <2>3 DEF Precedes, S, Hits
<1>4. Reaches(p, j, h, T)
  <2>1. Carries(p, j, Line(p, j).calls[h], T)
    BY <1>2
  <2> QED BY <1>3, <2>1 DEF Reaches, SsiReaches
<1>5. /\ Line(p, j).calls[h].sink \in SinkFindings(p, T)
      /\ Family(Line(p, j).calls[h].sink) = Family(Line(p, i).calls[k].sink)
  BY <1>1, <1>2, <1>4 DEF SinkFindings
<1> QED BY <1>5

LEMMA RoundsBegin == TaintInit => IncludesInv
<1> SUFFICES ASSUME TaintInit PROVE IncludesInv
  OBVIOUS
<1>1. Cardinality({}) = 0 /\ Len(page.statements) \in Nat
  BY FS_EmptySet, StatementsInOrder DEF TaintInit
<1>2. \A i \in Lines(page) : ~(i < 1)
  BY StatementsInOrder DEF TaintInit, Lines
<1>3. at = 1 /\ round = 0 /\ grew = FALSE /\ doing = "sweep" /\ tainted = {} /\ page \in Pages
  BY DEF TaintInit
<1>4. at \in 1 .. Len(page.statements) + 1 /\ round \in Nat
  BY <1>1, <1>3
<1>5. Cardinality(tainted) >= round + (IF grew THEN 1 ELSE 0)
  BY <1>1, <1>3
<1>6. \A i \in Lines(page) : ~(i < at)
  BY <1>2, <1>3
<1> QED BY <1>3, <1>4, <1>5, <1>6 DEF IncludesInv

\* Assignments before the one at hand stay fulfilled while nothing is tainted.
LEMMA RoundsAdvance ==
  ASSUME IncludesInv, Propagate
  PROVE  IncludesInv'
<1> SUFFICES ASSUME Includes PROVE IncludesInv'
  BY DEF IncludesInv, Propagate, Includes
<1> DEFINE new == IF Assigns(page, at) /\ Carries(page, at, Line(page, at), tainted)
                  THEN {Key(page, at, n) : n \in Line(page, at).into} ELSE {}
<1>1. /\ doing = "sweep" /\ at <= Len(page.statements) /\ at' = at + 1
      /\ tainted' = tainted \cup new /\ grew' = (grew \/ tainted' # tainted)
      /\ page' = page /\ round' = round /\ doing' = doing
  BY DEF Propagate
<1>2. /\ page \in Pages /\ page.grammar = "ssi" /\ at \in 1 .. Len(page.statements) + 1 /\ round \in Nat
      /\ grew \in BOOLEAN /\ tainted \subseteq Settable(page)
      /\ ~grew => \A i \in Lines(page) : i < at => Holds(i)
      /\ Cardinality(tainted) >= round + (IF grew THEN 1 ELSE 0)
  BY <1>1 DEF IncludesInv, Includes
<1>3. Len(page.statements) \in Nat /\ Lines(page) = 1 .. Len(page.statements) /\ at \in Lines(page)
  BY <1>1, <1>2, StatementsInOrder DEF Lines
<1>4. tainted' \subseteq Settable(page)
  <2>1. new \subseteq Settable(page)
    BY <1>2, <1>3, NamesAreTheFiles DEF Settable
  <2> HIDE DEF new
  <2> QED BY <1>1, <1>2, <2>1
<1>5. ASSUME ~grew' PROVE \A i \in Lines(page) : i < at' => Holds(i)'
  <2>1. tainted' = tainted /\ ~grew
    BY <1>1, <1>5
  <2>2. Holds(at)
    BY <1>1, <2>1 DEF Holds
  <2>3. \A i \in Lines(page) : i < at' => i < at \/ i = at
    BY <1>1, <1>2, <1>3
  <2>4. \A i \in Lines(page) : i < at' => Holds(i)
    BY <1>2, <2>1, <2>2, <2>3
  <2> QED BY <1>1, <2>1, <2>4 DEF Holds
<1>6. Cardinality(tainted') >= round' + (IF grew' THEN 1 ELSE 0)
  <2>1. IsFiniteSet(tainted') /\ IsFiniteSet(tainted)
    BY <1>2, <1>4, FewKeys, FS_Subset
  <2>2. /\ Cardinality(tainted) \in Nat /\ Cardinality(tainted') \in Nat
        /\ Cardinality(tainted) <= Cardinality(tainted')
        /\ Cardinality(tainted') = Cardinality(tainted) => tainted' = tainted
    <3>1. tainted \in SUBSET tainted'
      BY <1>1
    <3> HIDE DEF new
    <3> QED BY <2>1, <3>1, FS_Subset, FS_CardinalityType
  <2>3. CASE tainted' = tainted
    BY <1>1, <1>2, <2>3
  <2>4. CASE tainted' # tainted
    <3>1. Cardinality(tainted') > Cardinality(tainted)
      BY <2>2, <2>4
    <3>2. Cardinality(tainted) >= round
      BY <1>2, <2>2
    <3> HIDE DEF new
    <3> QED BY <1>1, <1>2, <2>2, <3>1, <3>2
  <2> QED BY <2>3, <2>4
<1>7. at' \in 1 .. Len(page'.statements) + 1
  BY <1>1, <1>2, <1>3
<1> HIDE DEF new
<1>8. grew' \in BOOLEAN
  BY <1>1
<1> QED BY <1>1, <1>2, <1>4, <1>5, <1>6, <1>7, <1>8 DEF IncludesInv, Includes

LEMMA RoundsEnd ==
  ASSUME IncludesInv, EndRound
  PROVE  IncludesInv'
<1> SUFFICES ASSUME Includes PROVE IncludesInv'
  BY DEF IncludesInv, EndRound, Includes
<1>1. /\ doing = "sweep" /\ at > Len(page.statements) /\ round' = round + 1
      /\ page' = page /\ tainted' = tainted
      /\ \/ /\ grew /\ at' = 1 /\ grew' = FALSE /\ doing' = "sweep"
         \/ /\ ~(grew /\ round' < Len(page.statements) + 1) /\ doing' = "judge" /\ grew' = grew
  BY DEF EndRound, Rounds, Includes
<1>2. /\ page \in Pages /\ page.grammar = "ssi" /\ at \in 1 .. Len(page.statements) + 1 /\ round \in Nat
      /\ grew \in BOOLEAN /\ tainted \subseteq Settable(page)
      /\ ~grew => \A i \in Lines(page) : i < at => Holds(i)
      /\ Cardinality(tainted) >= round + (IF grew THEN 1 ELSE 0)
  BY <1>1 DEF IncludesInv, Includes
<1>3. Len(page.statements) \in Nat /\ Lines(page) = 1 .. Len(page.statements)
  BY <1>2, StatementsInOrder DEF Lines
<1>4. \A i : Holds(i)' <=> Holds(i)
  BY <1>1 DEF Holds
<1>5. CASE grew /\ at' = 1 /\ grew' = FALSE /\ doing' = "sweep"
  <2>1. \A i \in Lines(page) : ~(i < 1)
    BY <1>3
  <2>2. Cardinality(tainted') >= round' + 0 /\ round' \in Nat
    BY <1>1, <1>2, <1>5
  <2>3. at' \in 1 .. Len(page'.statements) + 1
    BY <1>1, <1>3, <1>5
  <2>4. \A i \in Lines(page') : ~(i < at')
    BY <1>1, <1>5, <2>1
  <2>5. Cardinality(tainted') >= round' + (IF grew' THEN 1 ELSE 0)
    BY <1>5, <2>2
  <2> QED BY <1>1, <1>2, <1>5, <2>2, <2>3, <2>4, <2>5 DEF IncludesInv, Includes
<1>6. CASE ~(grew /\ round' < Len(page.statements) + 1) /\ doing' = "judge" /\ grew' = grew
  <2>1. ~grew
    <3>1. Cardinality(tainted) \in Nat /\ Cardinality(tainted) <= Len(page.statements)
      <4>1. IsFiniteSet(Settable(page)) /\ Cardinality(Settable(page)) <= Len(page.statements)
        BY <1>2, FewKeys
      <4>2. /\ IsFiniteSet(tainted) /\ Cardinality(tainted) <= Cardinality(Settable(page))
        BY <1>2, <4>1, FS_Subset
      <4>3. Cardinality(tainted) \in Nat /\ Cardinality(Settable(page)) \in Nat
        BY <4>1, <4>2, FS_CardinalityType
      <4> QED BY <1>3, <4>1, <4>2, <4>3
    <3> QED BY <1>1, <1>2, <1>3, <1>6, <3>1
  <2>2. \A i \in Lines(page) : i < at
    BY <1>1, <1>2, <1>3
  <2>3. \A i \in Lines(page) : Holds(i)
    BY <1>2, <2>1, <2>2
  <2> QED BY <1>1, <1>2, <1>4, <1>6, <2>3 DEF IncludesInv, Includes
<1> QED BY <1>1, <1>5, <1>6

\* ssitaint's Analyze: whatever the page, its directives' order and the length of its
\* chains, the rounds are enough and no family of sinks the request reaches is missed.
THEOREM IncludesAreWhole == TaintSpec => []IncludesMissNothing
<1>1. ASSUME IncludesInv, [TaintNext]_taintVars PROVE IncludesInv'
  <2>1. CASE Skip
    BY <1>1, <2>1 DEF IncludesInv, Skip, Includes
  <2>2. CASE JudgeSinks
    <3>1. \A i : Holds(i)' <=> Holds(i)
      BY <2>2 DEF JudgeSinks, Holds
    <3>2. /\ page' = page /\ tainted' = tainted /\ grew' = grew /\ doing = "judge" /\ doing' = "done"
          /\ SinkFindings(page, tainted) \subseteq proven'
      BY <2>2 DEF JudgeSinks
    <3> QED BY <1>1, <3>1, <3>2 DEF IncludesInv, Includes
  <2>3. CASE UNCHANGED taintVars
    <3>1. \A i : Holds(i)' <=> Holds(i)
      BY <2>3 DEF taintVars, Holds
    <3> QED BY <1>1, <2>3, <3>1 DEF IncludesInv, Includes, taintVars
  <2> QED BY <1>1, <2>1, <2>2, <2>3, RoundsAdvance, RoundsEnd DEF TaintNext
<1>2. ASSUME IncludesInv PROVE IncludesMissNothing
  <2> SUFFICES ASSUME doing = "done", page.grammar = "ssi", ~page.large, NEW i \in Lines(page),
                      NEW c \in CallsOf(Line(page, i)), Fed(page, i, c, Flows(page))
               PROVE  \E f \in proven : Family(f) = Family(c.sink)
    BY DEF IncludesMissNothing
  <2>1. page \in Pages /\ (\A j \in Lines(page) : Holds(j)) /\ SinkFindings(page, tainted) \subseteq proven
    BY <1>2 DEF IncludesInv, Includes
  <2>2. Flows(page) \subseteq tainted
    BY <2>1, FlowsAreTainted
  <2>3. Carries(page, i, c, tainted)
    BY <2>1, <2>2, NamesAreTheFiles DEF Fed, Carries
  <2>4. PICK k \in DOMAIN Line(page, i).calls : c = Line(page, i).calls[k]
    BY DEF CallsOf
  <2>5. \E f \in SinkFindings(page, tainted) : Family(f) = Family(c.sink)
    BY <2>1, <2>3, <2>4, FirstIsReported
  <2> QED BY <2>1, <2>5
<1> QED BY <1>1, <1>2, RoundsBegin, PTL DEF TaintSpec

-----------------------------------------------------------------------------
(* The decoders.                                                            *)

Methods == {"normalized", "eval-arg", "hex", "base64", "chr", "gz", "str_rot13", "walk", "folded"}
Task == [do : {"add", "walk"}, method : Methods, text : Plaintexts, depth : Nat]

\* What is made of a blob: its inflations, cut where they are too long, and its rotation.
Unpacked(t) == (Members(Inflations(t)) \cup {texts[t].rotated}) \ {Empty}

\* What a list of things to do holds.
Adds(q, t) == \E k \in DOMAIN q : q[k].do = "add" /\ q[k].text = t
Walks(q, t) == \E k \in DOMAIN q : q[k].do = "walk" /\ q[k].text = t

\* A hidden text is a layer, or will be tried, or the result says that it is incomplete.
Due(t) == t = Empty \/ t \in Seen \/ Adds(work, t) \/ truncated
Explored(t) == Walks(work, t) \/ truncated \/ \A x \in Hidden(t) : Due(x)

\* What the promise says of a layer: it was explored, and if it is a blob, unpacked.
LayerDone(e) == /\ Explored(e.text)
                /\ e.method = "base64" => \A x \in Unpacked(e.text) : Due(x)

LayersDone == \A k \in DOMAIN layers : LayerDone(layers[k])

UnwrapInv ==
  /\ texts \in Corpora /\ source \in Plaintexts /\ folded \in Plaintexts
  /\ work \in Seq(Task) /\ layers \in Seq([method : Methods, text : Plaintexts])
  /\ phase = "normalize" => work = <<>> /\ layers = <<>>
  /\ phase # "normalize" /\ Uncovers => Due(texts[source].normal)
  /\ phase \in {"fold", "done"} /\ texts[source].encoded => Explored(source)
  /\ phase = "done" => /\ FoldFinished \/ FoldStopped
                       /\ folded # source /\ Reveals => Due(folded)
  /\ LayersDone

-----------------------------------------------------------------------------
(* Lists of things to do.                                                   *)

\* A joined list holds what its parts hold.
LEMMA JoinedHolds ==
  ASSUME NEW q \in Seq(Task), NEW r \in Seq(Task), NEW t
  PROVE  /\ q \o r \in Seq(Task)
         /\ Adds(q, t) \/ Adds(r, t) => Adds(q \o r, t)
         /\ Walks(q, t) \/ Walks(r, t) => Walks(q \o r, t)
<1>1. q \o r \in Seq(Task) /\ DOMAIN (q \o r) = 1 .. Len(q) + Len(r)
  OBVIOUS
<1>2. \A k \in DOMAIN q : k \in DOMAIN (q \o r) /\ (q \o r)[k] = q[k]
  OBVIOUS
<1>3. \A k \in DOMAIN r : k + Len(q) \in DOMAIN (q \o r) /\ (q \o r)[k + Len(q)] = r[k]
  OBVIOUS
<1> QED BY <1>1, <1>2, <1>3 DEF Adds, Walks

\* What a list held is its head or still in its tail.
LEMMA TailHolds ==
  ASSUME NEW q \in Seq(Task), q # <<>>, NEW t
  PROVE  /\ Tail(q) \in Seq(Task) /\ Head(q) \in Task
         /\ Adds(q, t) => (Head(q).do = "add" /\ Head(q).text = t) \/ Adds(Tail(q), t)
         /\ Walks(q, t) => (Head(q).do = "walk" /\ Head(q).text = t) \/ Walks(Tail(q), t)
<1>1. Tail(q) \in Seq(Task) /\ Head(q) \in Task /\ Head(q) = q[1] /\ DOMAIN Tail(q) = 1 .. Len(q) - 1
  OBVIOUS
<1>2. \A k \in DOMAIN q : k # 1 => k - 1 \in DOMAIN Tail(q) /\ Tail(q)[k - 1] = q[k]
  OBVIOUS
<1> QED BY <1>1, <1>2 DEF Adds, Walks

\* AddEach tries every text it is given.
LEMMA AddEachAdds ==
  ASSUME NEW ts \in Seq(Plaintexts), NEW method \in Methods, NEW depth \in Nat
  PROVE  /\ AddEach(method, ts, depth) \in Seq(Task)
         /\ \A x \in Members(ts) : Adds(AddEach(method, ts, depth), x)
<1>1. \A k \in 1 .. Len(ts) : ToAdd(method, ts[k], depth) \in Task
  BY DEF ToAdd, Task
<1>2. AddEach(method, ts, depth) \in Seq(Task)
  <2>1. AddEach(method, ts, depth) = [k \in 1 .. Len(ts) |-> ToAdd(method, ts[k], depth)]
    BY DEF AddEach
  <2>2. AddEach(method, ts, depth) \in [1 .. Len(ts) -> Task] /\ Len(ts) \in Nat
    BY <1>1, <2>1
  <2> QED BY <2>2, SeqDef
<1>3. \A k \in DOMAIN ts : /\ k \in DOMAIN AddEach(method, ts, depth)
                           /\ AddEach(method, ts, depth)[k].do = "add"
                           /\ AddEach(method, ts, depth)[k].text = ts[k]
  BY DEF AddEach, ToAdd
<1> QED BY <1>2, <1>3 DEF Adds, Members

\* A single thing to do is a list.
LEMMA SingleHolds ==
  ASSUME NEW e \in Task
  PROVE  /\ <<e>> \in Seq(Task)
         /\ e.do = "add" => Adds(<<e>>, e.text)
         /\ e.do = "walk" => Walks(<<e>>, e.text)
<1>1. <<e>> \in Seq(Task) /\ 1 \in DOMAIN <<e>> /\ <<e>>[1] = e
  OBVIOUS
<1> QED BY <1>1 DEF Adds, Walks

\* state.walk tries everything that is found in a text.
LEMMA ChildrenAreHidden ==
  ASSUME texts \in Corpora, NEW t \in Plaintexts, NEW depth \in Nat
  PROVE  /\ Children(t, depth) \in Seq(Task)
         /\ \A x \in Hidden(t) : Adds(Children(t, depth), x)
<1>1. /\ texts[t].evals \in Seq(Plaintexts) /\ texts[t].hexes \in Seq(Plaintexts)
      /\ texts[t].blobs \in Seq(Plaintexts) /\ texts[t].chars \in Seq(Plaintexts)
  BY CorporaAssumption
<1>2. {"eval-arg", "hex", "base64", "chr"} \subseteq Methods
  BY DEF Methods
<1>3. PICK a : /\ a = AddEach("eval-arg", texts[t].evals, depth)
               /\ a \in Seq(Task) /\ \A x \in Members(texts[t].evals) : Adds(a, x)
  BY <1>1, <1>2, AddEachAdds
<1>4. PICK b : /\ b = AddEach("hex", texts[t].hexes, depth)
               /\ b \in Seq(Task) /\ \A x \in Members(texts[t].hexes) : Adds(b, x)
  BY <1>1, <1>2, AddEachAdds
<1>5. PICK c : /\ c = AddEach("base64", texts[t].blobs, depth)
               /\ c \in Seq(Task) /\ \A x \in Members(texts[t].blobs) : Adds(c, x)
  BY <1>1, <1>2, AddEachAdds
<1>6. PICK d : /\ d = AddEach("chr", texts[t].chars, depth)
               /\ d \in Seq(Task) /\ \A x \in Members(texts[t].chars) : Adds(d, x)
  BY <1>1, <1>2, AddEachAdds
<1>7. Children(t, depth) = ((a \o b) \o c) \o d
  BY <1>3, <1>4, <1>5, <1>6 DEF Children
<1>8. a \o b \in Seq(Task) /\ (a \o b) \o c \in Seq(Task) /\ ((a \o b) \o c) \o d \in Seq(Task)
  BY <1>3, <1>4, <1>5, <1>6, JoinedHolds
<1>9. \A x : Adds(a, x) \/ Adds(b, x) \/ Adds(c, x) \/ Adds(d, x) => Adds(((a \o b) \o c) \o d, x)
  <2> TAKE x
  <2>1. Adds(a, x) \/ Adds(b, x) => Adds(a \o b, x)
    BY <1>3, <1>4, JoinedHolds
  <2>2. Adds(a \o b, x) \/ Adds(c, x) => Adds((a \o b) \o c, x)
    BY <1>5, <1>8, JoinedHolds
  <2>3. Adds((a \o b) \o c, x) \/ Adds(d, x) => Adds(((a \o b) \o c) \o d, x)
    BY <1>6, <1>8, JoinedHolds
  <2> QED BY <2>1, <2>2, <2>3
<1>10. \A x \in Hidden(t) : Adds(a, x) \/ Adds(b, x) \/ Adds(c, x) \/ Adds(d, x)
  BY <1>3, <1>4, <1>5, <1>6 DEF Hidden
<1> QED BY <1>7, <1>8, <1>9, <1>10

\* A text to walk is one thing to do, and so is a text to add.
LEMMA OneThing ==
  ASSUME NEW t \in Plaintexts, NEW depth \in Nat, NEW method \in Methods
  PROVE  /\ <<ToWalk(t, depth)>> \in Seq(Task) /\ Walks(<<ToWalk(t, depth)>>, t)
         /\ <<ToAdd(method, t, depth)>> \in Seq(Task) /\ Adds(<<ToAdd(method, t, depth)>>, t)
<1>1. ToWalk(t, depth) \in Task /\ ToWalk(t, depth).do = "walk" /\ ToWalk(t, depth).text = t
  BY DEF ToWalk, Task, Methods
<1>2. ToAdd(method, t, depth) \in Task /\ ToAdd(method, t, depth).do = "add" /\ ToAdd(method, t, depth).text = t
  BY DEF ToAdd, Task
<1> QED BY <1>1, <1>2, SingleHolds

\* An element of a sequence is one of the set it is over.
LEMMA ElementIsIn ==
  ASSUME NEW S, NEW q \in Seq(S), NEW k \in 1 .. Len(q)
  PROVE  q[k] \in S
OBVIOUS

\* What the inflaters make of a text are texts.
LEMMA InflationsAreTexts ==
  ASSUME texts \in Corpora, NEW t \in Plaintexts
  PROVE  Inflations(t) \in Seq(Plaintexts)
<1>1. texts[t].inflated \in Seq([whole : Plaintexts, cut : Plaintexts])
  BY CorporaAssumption
<1>2. \A k \in 1 .. Len(texts[t].inflated) : Inflated(texts[t].inflated[k]) \in Plaintexts
  <2> TAKE k \in 1 .. Len(texts[t].inflated)
  <2>1. texts[t].inflated[k] \in [whole : Plaintexts, cut : Plaintexts]
    BY <1>1, ElementIsIn
  <2> QED BY <2>1 DEF Inflated
<1>3. Inflations(t) = [k \in 1 .. Len(texts[t].inflated) |-> Inflated(texts[t].inflated[k])]
  BY <1>1 DEF Inflations
<1>4. Inflations(t) \in [1 .. Len(texts[t].inflated) -> Plaintexts] /\ Len(texts[t].inflated) \in Nat
  BY <1>1, <1>2, <1>3
<1> QED BY <1>4, SeqDef

\* A new layer is walked, and a decoded blob first inflated and rotated.
LEMMA UnpackUnpacks ==
  ASSUME texts \in Corpora, NEW task \in Task
  PROVE  /\ Unpack(task) \in Seq(Task) /\ Walks(Unpack(task), task.text)
         /\ task.method = "base64" => \A x \in Unpacked(task.text) : Adds(Unpack(task), x)
<1>1. task.text \in Plaintexts /\ task.depth \in Nat /\ {"gz", "str_rot13"} \subseteq Methods
  BY DEF Task, Methods
<1>2. PICK w : w = <<ToWalk(task.text, task.depth)>> /\ w \in Seq(Task) /\ Walks(w, task.text)
  BY <1>1, OneThing
<1>3. CASE task.method # "base64"
  <2>1. Unpack(task) = <<>> \o w
    BY <1>2, <1>3 DEF Unpack
  <2>2. Unpack(task) = w
    BY <1>2, <2>1
  <2> QED BY <1>2, <1>3, <2>2
<1>4. CASE task.method = "base64"
  <2>1. texts[task.text].rotated \in Plaintexts
    BY <1>1, CorporaAssumption
  <2>2. PICK g : /\ g = AddEach("gz", Inflations(task.text), task.depth) /\ g \in Seq(Task)
                 /\ \A x \in Members(Inflations(task.text)) : Adds(g, x)
    BY <1>1, InflationsAreTexts, AddEachAdds
  <2>3. PICK r : /\ r = <<ToAdd("str_rot13", texts[task.text].rotated, task.depth)>> /\ r \in Seq(Task)
                 /\ Adds(r, texts[task.text].rotated)
    BY <1>1, <2>1, OneThing
  <2>4. Unpack(task) = (g \o r) \o w
    BY <1>2, <1>4, <2>2, <2>3 DEF Unpack
  <2>5. g \o r \in Seq(Task) /\ (g \o r) \o w \in Seq(Task) /\ Walks((g \o r) \o w, task.text)
    BY <1>2, <2>2, <2>3, JoinedHolds
  <2>6. \A x : Adds(g, x) \/ Adds(r, x) => Adds((g \o r) \o w, x)
    <3> TAKE x
    <3>1. Adds(g, x) \/ Adds(r, x) => Adds(g \o r, x)
      BY <2>2, <2>3, JoinedHolds
    <3>2. Adds(g \o r, x) => Adds((g \o r) \o w, x)
      BY <1>2, <2>5, JoinedHolds
    <3> QED BY <3>1, <3>2
  <2>7. \A x \in Unpacked(task.text) : Adds(g, x) \/ Adds(r, x)
    BY <2>2, <2>3 DEF Unpacked
  <2> QED BY <2>4, <2>5, <2>6, <2>7
<1> QED BY <1>3, <1>4

-----------------------------------------------------------------------------
(* What a step keeps.                                                       *)

\* No step forgets a layer, a warning, or a thing to do before it is done.
NothingIsForgotten ==
  /\ texts' = texts /\ source' = source /\ Seen \subseteq Seen' /\ (truncated => truncated')
  /\ \A t : Adds(work, t) => Due(t)'
  /\ \A t : Walks(work, t) => Explored(t)'

\* What is due stays due, what was explored stays explored, and a layer done stays so.
LEMMA DueStaysDue ==
  ASSUME NothingIsForgotten, NEW t
  PROVE  (Due(t) => Due(t)') /\ (Explored(t) => Explored(t)') /\ (LayerDone(t) => LayerDone(t)')
<1>1. \A x : Due(x) => Due(x)'
  BY DEF NothingIsForgotten, Due
<1>2. \A x : Hidden(x)' = Hidden(x) /\ Unpacked(x)' = Unpacked(x)
  BY DEF NothingIsForgotten, Hidden, Unpacked, Members, Inflations, Inflated
<1>3. \A x : Explored(x) => Explored(x)'
  <2> SUFFICES ASSUME NEW x, Explored(x) PROVE Explored(x)'
    OBVIOUS
  <2>1. CASE Walks(work, x) \/ truncated
    BY <2>1 DEF NothingIsForgotten, Explored
  <2>2. CASE \A y \in Hidden(x) : Due(y)
    BY <1>1, <1>2, <2>2 DEF Explored
  <2> QED BY <2>1, <2>2 DEF Explored
<1>4. LayerDone(t) => LayerDone(t)'
  BY <1>1, <1>2, <1>3 DEF LayerDone
<1> QED BY <1>1, <1>3, <1>4

\* A step that keeps the layers, or adds one that is done, and forgets nothing keeps
\* what is promised of the layers.
LEMMA LayersStayDone ==
  ASSUME UnwrapInv, NothingIsForgotten,
         \/ layers' = layers
         \/ \E e : layers' = Append(layers, e) /\ LayerDone(e)'
  PROVE  LayersDone'
<1>1. \A e : LayerDone(e) => LayerDone(e)'
  BY DueStaysDue
<1>2. \A e : (\E k \in DOMAIN layers : e = layers[k]) => LayerDone(e)'
  BY <1>1 DEF UnwrapInv, LayersDone
<1>3. CASE layers' = layers
  BY <1>2, <1>3 DEF LayersDone
<1>4. ASSUME NEW e, layers' = Append(layers, e), LayerDone(e)' PROVE LayersDone'
  <2>1. \A k \in DOMAIN layers' : layers'[k] = e \/ \E j \in DOMAIN layers : layers'[k] = layers[j]
    BY <1>4 DEF UnwrapInv
  <2> QED BY <1>2, <1>4, <2>1 DEF LayersDone
<1> QED BY <1>3, <1>4

\* An empty list holds nothing.
LEMMA EmptyHoldsNothing == \A t : ~Adds(<<>>, t) /\ ~Walks(<<>>, t)
BY DEF Adds, Walks

\* A step that forgets nothing and leaves Run where it is keeps what Run made of the source.
LEMMA SourceStaysAnswered ==
  ASSUME UnwrapInv, NothingIsForgotten, UNCHANGED <<folded, passes, phase>>
  PROVE  /\ phase' # "normalize" /\ Uncovers' => Due(texts[source].normal)'
         /\ phase' = "done" => /\ (FoldFinished \/ FoldStopped)'
                               /\ folded' # source' /\ Reveals' => Due(folded)'
<1>1. texts' = texts /\ source' = source
  BY DEF NothingIsForgotten
<1>2. \A x : Due(x) => Due(x)'
  BY DueStaysDue
<1>3. Uncovers' = Uncovers /\ (Uncovers /\ phase # "normalize" => Due(texts[source].normal)')
  <2>1. PICK t : t = texts[source].normal
    OBVIOUS
  <2>2. Uncovers' = Uncovers
    BY <1>1 DEF Uncovers
  <2> QED BY <1>1, <1>2, <2>1, <2>2 DEF UnwrapInv
<1>4. Reveals' = Reveals /\ (FoldFinished \/ FoldStopped)' = (FoldFinished \/ FoldStopped)
  BY <1>1 DEF Reveals, FoldFinished, FoldStopped
<1>5. Due(folded) => Due(folded)'
  <2>1. PICK t : t = folded
    OBVIOUS
  <2> QED BY <1>2, <2>1
<1> QED BY <1>1, <1>3, <1>4, <1>5 DEF UnwrapInv

-----------------------------------------------------------------------------
(* One lemma per action.                                                    *)

\* The first thing to do, and what is left when it is done.
LEMMA NextTask ==
  ASSUME UnwrapInv, work # <<>>
  PROVE  /\ Head(work) \in Task /\ Tail(work) \in Seq(Task)
         /\ \A t : Adds(work, t) => (Head(work).do = "add" /\ Head(work).text = t) \/ Adds(Tail(work), t)
         /\ \A t : Walks(work, t) => (Head(work).do = "walk" /\ Head(work).text = t) \/ Walks(Tail(work), t)
BY TailHolds DEF UnwrapInv

\* A list put before what is left holds both.
LEMMA PutBefore ==
  ASSUME UnwrapInv, work # <<>>, NEW q \in Seq(Task)
  PROVE  /\ q \o Tail(work) \in Seq(Task)
         /\ \A t : Adds(q, t) \/ Adds(Tail(work), t) => Adds(q \o Tail(work), t)
         /\ \A t : Walks(q, t) \/ Walks(Tail(work), t) => Walks(q \o Tail(work), t)
BY NextTask, JoinedHolds

\* state.add: what is not added is empty, known, or warned of.
LEMMA AddLayerKeeps == ASSUME UnwrapInv, AddLayer PROVE UnwrapInv'
<1>1. PICK task \in Task : task = Head(work) /\ task.do = "add"
  BY NextTask DEF AddLayer
<1>2. task.text \in Plaintexts /\ task.method \in Methods
  BY <1>1 DEF Task
<1>3. CASE task.text # Empty /\ ~BoundsReached(task.text) /\ task.text \notin Seen
  <2>1. PICK e : e = [method |-> task.method, text |-> task.text]
    OBVIOUS
  <2>2. /\ layers' = Append(layers, e) /\ work' = Unpack(task) \o Tail(work)
        /\ truncated' = (truncated \/ Overflows(task.text))
        /\ texts' = texts /\ source' = source /\ UNCHANGED <<folded, passes, phase>>
    BY <1>1, <1>3, <2>1 DEF AddLayer, foldVars
  <2>3. /\ layers' \in Seq([method : Methods, text : Plaintexts])
        /\ Seen' = Seen \cup {task.text}
    <3>1. layers \in Seq([method : Methods, text : Plaintexts]) /\ e \in [method : Methods, text : Plaintexts]
      BY <1>2, <2>1 DEF UnwrapInv
    <3>2. /\ layers' \in Seq([method : Methods, text : Plaintexts])
          /\ \A k \in DOMAIN layers : k \in DOMAIN layers' /\ layers'[k] = layers[k]
          /\ \E k \in DOMAIN layers' : layers'[k] = e
          /\ \A k \in DOMAIN layers' : k \in DOMAIN layers \/ layers'[k] = e
      BY <2>2, <3>1
    <3> QED BY <2>1, <3>2 DEF Seen
  <2>4. /\ Unpack(task) \in Seq(Task) /\ Walks(Unpack(task), task.text)
        /\ task.method = "base64" => \A x \in Unpacked(task.text) : Adds(Unpack(task), x)
    BY UnpackUnpacks DEF UnwrapInv
  <2>5. /\ work' \in Seq(Task)
        /\ \A t : Adds(Unpack(task), t) \/ Adds(Tail(work), t) => Adds(work', t)
        /\ \A t : Walks(Unpack(task), t) \/ Walks(Tail(work), t) => Walks(work', t)
    BY <2>2, <2>4, PutBefore DEF AddLayer
  <2>6. NothingIsForgotten
    <3>1. \A t : Adds(work, t) => Due(t)'
      BY <1>1, <2>3, <2>5, NextTask DEF AddLayer, Due
    <3>2. \A t : Walks(work, t) => Explored(t)'
      BY <1>1, <2>5, NextTask DEF AddLayer, Explored
    <3> QED BY <2>2, <2>3, <3>1, <3>2 DEF NothingIsForgotten
  <2>7. LayerDone(e)'
    <3>1. Unpacked(task.text)' = Unpacked(task.text)
      BY <2>2 DEF Unpacked, Members, Inflations, Inflated
    <3>2. Explored(task.text)'
      BY <2>4, <2>5 DEF Explored
    <3>3. task.method = "base64" => \A x \in Unpacked(task.text)' : Due(x)'
      BY <2>4, <2>5, <3>1 DEF Due
    <3> QED BY <2>1, <3>2, <3>3 DEF LayerDone
  <2>8. LayersDone'
    BY <2>2, <2>6, <2>7, LayersStayDone
  <2>9. Explored(source) => Explored(source)'
    <3>1. PICK t : t = source
      OBVIOUS
    <3> QED BY <2>2, <2>6, <3>1, DueStaysDue
  <2> QED BY <2>2, <2>3, <2>5, <2>6, <2>8, <2>9, SourceStaysAnswered DEF UnwrapInv, AddLayer
<1>4. CASE ~(task.text # Empty /\ ~BoundsReached(task.text) /\ task.text \notin Seen)
  <2>1. /\ layers' = layers /\ work' = <<>> \o Tail(work)
        /\ truncated' = (truncated \/ Overflows(task.text))
        /\ texts' = texts /\ source' = source /\ UNCHANGED <<folded, passes, phase>>
    BY <1>1, <1>4 DEF AddLayer, foldVars
  <2>2. work' = Tail(work) /\ Tail(work) \in Seq(Task)
    BY <2>1, NextTask DEF AddLayer
  <2>3. NothingIsForgotten
    <3>1. Seen' = Seen
      BY <2>1 DEF Seen
    <3>2. Due(task.text)'
      BY <1>4, <2>1, <3>1 DEF Due, Overflows
    <3>3. \A t : Adds(work, t) => Due(t)'
      BY <1>1, <2>2, <3>2, NextTask DEF AddLayer, Due
    <3>4. \A t : Walks(work, t) => Explored(t)'
      BY <1>1, <2>2, NextTask DEF AddLayer, Explored
    <3> QED BY <2>1, <3>1, <3>3, <3>4 DEF NothingIsForgotten
  <2>4. LayersDone'
    BY <2>1, <2>3, LayersStayDone
  <2>5. Explored(source) => Explored(source)'
    <3>1. PICK t : t = source
      OBVIOUS
    <3> QED BY <2>1, <2>3, <3>1, DueStaysDue
  <2> QED BY <2>1, <2>2, <2>3, <2>4, <2>5, SourceStaysAnswered DEF UnwrapInv, AddLayer
<1> QED BY <1>3, <1>4

\* state.walk: what a text hides is tried, or the depth is warned of.
LEMMA WalkTextKeeps == ASSUME UnwrapInv, WalkText PROVE UnwrapInv'
<1>1. PICK task \in Task : task = Head(work) /\ task.do = "walk"
  BY NextTask DEF WalkText
<1>2. task.text \in Plaintexts /\ task.depth + 1 \in Nat
  BY <1>1 DEF Task
<1>3. /\ layers' = layers /\ texts' = texts /\ source' = source /\ UNCHANGED <<folded, passes, phase>>
      /\ Seen' = Seen
  BY DEF WalkText, foldVars, Seen
<1>4. PICK q \in Seq(Task) : /\ work' = q \o Tail(work)
                             /\ truncated' \/ \A x \in Hidden(task.text) : Adds(q, x)
                             /\ truncated => truncated'
  <2>1. CASE task.depth > MaxDepth
    <3>1. work' = Tail(work) /\ truncated' = TRUE
      BY <1>1, <2>1 DEF WalkText
    <3>2. <<>> \in Seq(Task) /\ Tail(work) = <<>> \o Tail(work)
      BY NextTask DEF WalkText
    <3> QED BY <3>1, <3>2
  <2>2. CASE ~(task.depth > MaxDepth)
    <3>1. work' = Children(task.text, task.depth + 1) \o Tail(work) /\ truncated' = truncated
      BY <1>1, <2>2 DEF WalkText
    <3> QED BY <1>2, <3>1, ChildrenAreHidden DEF UnwrapInv
  <2> QED BY <2>1, <2>2
<1>5. /\ work' \in Seq(Task)
      /\ \A t : Adds(q, t) \/ Adds(Tail(work), t) => Adds(work', t)
      /\ \A t : Walks(Tail(work), t) => Walks(work', t)
  BY <1>4, PutBefore DEF WalkText
<1>6. NothingIsForgotten
  <2>1. \A t : Adds(work, t) => Due(t)'
    BY <1>1, <1>5, NextTask DEF WalkText, Due
  <2>2. Hidden(task.text)' = Hidden(task.text)
    BY <1>3 DEF Hidden, Members
  <2>3. Explored(task.text)'
    BY <1>4, <1>5, <2>2 DEF Explored, Due
  <2>4. \A t : Walks(work, t) => Explored(t)'
    BY <1>1, <1>5, <2>3, NextTask DEF WalkText, Explored
  <2> QED BY <1>3, <1>4, <2>1, <2>4 DEF NothingIsForgotten
<1>7. LayersDone'
  BY <1>3, <1>6, LayersStayDone
<1>8. Explored(source) => Explored(source)'
  <2>1. PICK t : t = source
    OBVIOUS
  <2> QED BY <1>3, <1>6, <2>1, DueStaysDue
<1> QED BY <1>3, <1>5, <1>6, <1>7, <1>8, SourceStaysAnswered DEF UnwrapInv, WalkText

\* Run, between its parts: with nothing left to do, nothing can be forgotten.
LEMMA PartsForgetNothing ==
  ASSUME UnwrapInv, work = <<>>, UNCHANGED <<texts, source, layers, truncated>>
  PROVE  /\ NothingIsForgotten /\ LayersDone' /\ (Explored(source) => Explored(source)')
         /\ Due(texts[source].normal) => Due(texts[source].normal)'
<1>1. Seen' = Seen
  BY DEF Seen
<1>2. NothingIsForgotten
  BY <1>1, EmptyHoldsNothing DEF NothingIsForgotten
<1>3. PICK t : t = source
  OBVIOUS
<1>4. PICK n : n = texts[source].normal /\ n = texts'[source'].normal
  OBVIOUS
<1> QED BY <1>2, <1>3, <1>4, LayersStayDone, DueStaysDue

\* Run: an encoded source is walked, and what was folded is added.
LEMMA PartsKeep ==
  ASSUME UnwrapInv, Normalize \/ Unwrap \/ FoldPass \/ FoldConstants
  PROVE  UnwrapInv'
<1>1. /\ texts' = texts /\ source' = source /\ layers' = layers /\ truncated' = truncated
      /\ work = <<>> /\ texts \in Corpora /\ source \in Plaintexts /\ folded \in Plaintexts
  BY DEF UnwrapInv, Normalize, Unwrap, FoldPass, FoldConstants
<1>2. /\ LayersDone' /\ (Explored(source) => Explored(source)') /\ Uncovers' = Uncovers
      /\ Due(texts[source].normal) => Due(texts[source].normal)'
  BY <1>1, PartsForgetNothing DEF Uncovers
<1>3. texts[source].normal \in Plaintexts /\ texts[folded].folded \in Plaintexts
  BY <1>1, CorporaAssumption
<1>4. <<>> \in Seq(Task) /\ 0 \in Nat /\ {"normalized", "folded"} \subseteq Methods
  BY DEF Methods
<1>5. CASE Normalize
  <2>1. PICK n \in Plaintexts : n = texts[source].normal /\ n = texts'[source'].normal
    BY <1>1, <1>3
  <2>2. /\ work' = IF Uncovers THEN <<ToAdd("normalized", n, 0)>> ELSE <<>>
        /\ phase' = "unwrap" /\ folded' = folded
    BY <1>5, <2>1 DEF Normalize, foldVars
  <2>3. work' \in Seq(Task) /\ (Uncovers => Adds(work', n))
    BY <1>4, <2>1, <2>2, OneThing
  <2>4. Uncovers' => Due(texts[source].normal)'
    BY <1>2, <2>1, <2>3 DEF Due
  <2> QED BY <1>1, <1>2, <2>2, <2>3, <2>4 DEF UnwrapInv
<1>6. CASE Unwrap
  <2>1. PICK t \in Plaintexts : t = source
    BY <1>1
  <2>2. PICK m \in Methods : TRUE
    BY <1>4
  <2>3. <<ToWalk(t, 0)>> \in Seq(Task) /\ Walks(<<ToWalk(t, 0)>>, t)
    BY <1>4, <2>2, OneThing
  <2>4. work' \in Seq(Task) /\ (texts[source].encoded => Walks(work', t))
    BY <1>4, <1>6, <2>1, <2>3 DEF Unwrap
  <2>5. texts'[source'].encoded => Explored(source)'
    BY <1>1, <2>1, <2>4 DEF Explored
  <2> QED BY <1>1, <1>2, <1>6, <2>4, <2>5 DEF Unwrap, UnwrapInv, foldVars
<1>7. CASE FoldPass
  BY <1>1, <1>2, <1>3, <1>7 DEF FoldPass, UnwrapInv
<1>8. CASE FoldConstants
  <2>1. PICK t \in Plaintexts : t = folded
    BY <1>1
  <2>2. /\ work' = IF t # source /\ Reveals THEN <<ToAdd("folded", t, 0)>> ELSE <<>>
        /\ folded' = t /\ passes' = passes /\ phase = "fold" /\ phase' = "done"
        /\ Foldable => texts[folded].folded = folded
    BY <1>8, <2>1 DEF FoldConstants
  <2>3. work' \in Seq(Task) /\ (t # source /\ Reveals => Adds(work', t))
    BY <1>4, <2>1, <2>2, OneThing
  <2>4. folded' # source' /\ Reveals' => Due(folded)'
    BY <1>1, <2>1, <2>2, <2>3 DEF Due, Reveals
  <2>5. (FoldFinished \/ FoldStopped)'
    BY <1>1, <2>1, <2>2, CorporaAssumption DEF Foldable, FoldFinished, FoldStopped
  <2> QED BY <1>1, <1>2, <2>1, <2>2, <2>3, <2>4, <2>5 DEF UnwrapInv
<1> QED BY <1>5, <1>6, <1>7, <1>8

-----------------------------------------------------------------------------
\* Run keeps account of what the source and every layer hide: it is a layer, or still to be
\* tried, or the result says that it is incomplete. What a blob inflates to is held to that
\* as the inflaters return it, cut at their bound; and the fold is finished or was stopped.
THEOREM UnwrappingKeepsAccount == UnwrapSpec => []UnwrapInv
<1>1. UnwrapInit => UnwrapInv
  BY DEF UnwrapInit, UnwrapInv, LayersDone
<1>2. UnwrapInv /\ [UnwrapNext]_unwrapVars => UnwrapInv'
  <2> SUFFICES ASSUME UnwrapInv, [UnwrapNext]_unwrapVars PROVE UnwrapInv'
    OBVIOUS
  <2>1. CASE AddLayer
    BY <2>1, AddLayerKeeps
  <2>2. CASE WalkText
    BY <2>2, WalkTextKeeps
  <2>3. CASE Normalize \/ Unwrap \/ FoldPass \/ FoldConstants
    BY <2>3, PartsKeep
  <2>4. CASE UNCHANGED unwrapVars
    <3>1. /\ UNCHANGED <<texts, source, layers, truncated>> /\ work' = work /\ UNCHANGED <<folded, passes, phase>>
          /\ Seen' = Seen
      BY <2>4 DEF unwrapVars, foldVars, Seen
    <3>2. NothingIsForgotten
      BY <3>1 DEF NothingIsForgotten, Due, Explored
    <3>3. PICK t : t = source
      OBVIOUS
    <3>4. LayersDone' /\ (Explored(source) => Explored(source)')
      BY <3>1, <3>2, <3>3, LayersStayDone, DueStaysDue
    <3> QED BY <3>1, <3>2, <3>4, SourceStaysAnswered DEF UnwrapInv
  <2> QED BY <2>1, <2>2, <2>3, <2>4 DEF UnwrapNext
<1> QED BY <1>1, <1>2, PTL DEF UnwrapSpec

\* A result that is not marked truncated left nothing wrapped, to any depth, but the rest of
\* an inflation longer than MaxInflate, whose first part is a layer, and what a fold stopped
\* by its own bounds would still have made of the source: the bounds Truncated leaves out.
THEOREM OnlyUntoldBoundsLeaveWrapped == UnwrapSpec => []UnwrappingIsClosed
<1>1. UnwrapInv => UnwrappingIsClosed
  <2> SUFFICES ASSUME UnwrapInv, phase = "done", work = <<>>, ~truncated
               PROVE  /\ Uncovers => Kept(texts[source].normal)
                      /\ texts[source].encoded => Hidden(source) \subseteq Seen
                      /\ FoldFinished \/ FoldStopped
                      /\ folded # source /\ Reveals => Kept(folded)
                      /\ \A k \in DOMAIN layers :
                           /\ Hidden(layers[k].text) \subseteq Seen
                           /\ layers[k].method = "base64" =>
                                /\ Kept(texts[layers[k].text].rotated)
                                /\ \A r \in Members(texts[layers[k].text].inflated) : WholeOrCut(r)
    BY DEF UnwrappingIsClosed
  <2>1. \A t : Due(t) => Kept(t)
    BY EmptyHoldsNothing DEF Due, Kept
  <2>2. \A t : Explored(t) => Hidden(t) \subseteq Seen
    BY <2>1, EmptyHoldsNothing DEF Explored, Hidden, Kept
  <2>3. ASSUME NEW k \in DOMAIN layers
        PROVE  /\ Hidden(layers[k].text) \subseteq Seen
               /\ layers[k].method = "base64" =>
                    /\ Kept(texts[layers[k].text].rotated)
                    /\ \A r \in Members(texts[layers[k].text].inflated) : WholeOrCut(r)
    <3>1. LayerDone(layers[k])
      BY DEF UnwrapInv, LayersDone
    <3>2. PICK t : t = layers[k].text
      OBVIOUS
    <3>3. (\A x \in Unpacked(t) : Due(x)) => /\ Kept(texts[t].rotated)
                                             /\ \A r \in Members(texts[t].inflated) : WholeOrCut(r)
      <4> SUFFICES ASSUME \A x \in Unpacked(t) : Due(x)
                   PROVE  Kept(texts[t].rotated) /\ \A r \in Members(texts[t].inflated) : WholeOrCut(r)
        OBVIOUS
      <4>1. \A x \in Members(Inflations(t)) \cup {texts[t].rotated} : Kept(x)
        BY <2>1 DEF Unpacked, Kept
      <4>2. \A r \in Members(texts[t].inflated) : Inflated(r) \in Members(Inflations(t))
        BY DEF Members, Inflations
      <4>3. \A r : Kept(Inflated(r)) => WholeOrCut(r)
        BY DEF Inflated, WholeOrCut
      <4> QED BY <4>1, <4>2, <4>3
    <3> QED BY <2>2, <3>1, <3>2, <3>3 DEF LayerDone
  <2> QED BY <2>1, <2>2, <2>3 DEF UnwrapInv
<1> QED BY <1>1, UnwrappingKeepsAccount, PTL

-----------------------------------------------------------------------------
(* Java source.                                                             *)

\* What a name means k scopes deep: v, by the innermost scope that declares it.
Means(e, k, n, v) ==
  \E i \in 1 .. k : /\ n \in DOMAIN e[i] /\ v = e[i][n]
                    /\ \A j \in i + 1 .. k : n \notin DOMAIN e[j]

\* The outermost scope has all names, an inner one the names it declares.
Scoped(e) ==
  /\ \E S : e \in Seq(S)
  /\ Len(e) \in Nat \ {0}
  /\ DOMAIN e[1] = Locals
  /\ \A i \in 1 .. Len(e) : DOMAIN e[i] \subseteq Locals

\* A table of what is known has all names. (Named, for the provers loop on it in the open.)
IsTable(f) == f = [n \in Locals |-> f[n]]

\* The flat table, the stack and the environments have one shape.
Shaped(f, sc, e) ==
  /\ Scoped(e)
  /\ IsTable(f)
  /\ \E S : sc \in Seq(S)
  /\ Len(sc) = Len(e)

\* The flat table has what a name means, and an open scope hides what it meant outside
\* of it; where its declaration was not seen it means what it meant outside.
Knows(n, f, sc, e) ==
  /\ Means(e, Len(e), n, f[n])
  /\ \A i \in 2 .. Len(e) :
       /\ n \in DOMAIN sc[i] => n \in DOMAIN e[i] /\ Means(e, i - 1, n, sc[i][n])
       /\ n \in DOMAIN e[i] /\ n \notin DOMAIN sc[i] => Means(e, i - 1, n, e[i][n])

JavaInv ==
  /\ Shaped(facts, scopes, env)
  /\ \A n \in Locals : n \notin strayed => Knows(n, facts, scopes, env)
  /\ due \subseteq hits
  /\ strayed = {} => hits = due

-----------------------------------------------------------------------------
\* Lookup is defined at every depth, and gives one answer.
LEMMA InnermostExists ==
  ASSUME NEW e, Scoped(e), NEW k \in 1 .. Len(e), NEW n \in Locals
  PROVE  \E i \in 1 .. k : n \in DOMAIN e[i] /\ \A j \in i + 1 .. k : n \notin DOMAIN e[j]
<1>0. Len(e) \in Nat
  BY DEF Scoped
<1> DEFINE up == {u \in Nat : u < k /\ n \in DOMAIN e[k - u]}
<1>1. k - 1 \in up
  BY <1>0 DEF Scoped
<1>2. PICK u \in up : \A w \in up : u <= w
  BY <1>1, LeastNumber
<1>3. u \in Nat /\ k \in Nat /\ k - u \in 1 .. k /\ n \in DOMAIN e[k - u]
  BY <1>0, <1>2
<1>4. ASSUME NEW j \in (k - u) + 1 .. k PROVE n \notin DOMAIN e[j]
  <2>1. k - j \in Nat /\ k - j < u /\ k - j < k /\ k - (k - j) = j
    BY <1>0, <1>2
  <2>2. ASSUME n \in DOMAIN e[j] PROVE FALSE
    <3>1. n \in DOMAIN e[k - (k - j)]
      BY <2>1, <2>2
    <3>2. k - j \in up
      BY <2>1, <3>1
    <3> HIDE DEF up
    <3>3. u <= k - j
      BY <1>2, <3>2
    <3> QED BY <1>0, <1>3, <2>1, <3>3
  <2> QED BY <2>2
<1> QED BY <1>3, <1>4

LEMMA MeansOneThing ==
  ASSUME NEW e, NEW k \in Nat, NEW n, NEW v, NEW w, Means(e, k, n, v), Means(e, k, n, w)
  PROVE  v = w
<1>1. PICK i \in 1 .. k : n \in DOMAIN e[i] /\ v = e[i][n] /\ \A j \in i + 1 .. k : n \notin DOMAIN e[j]
  BY DEF Means
<1>2. PICK l \in 1 .. k : n \in DOMAIN e[l] /\ w = e[l][n] /\ \A j \in l + 1 .. k : n \notin DOMAIN e[j]
  BY DEF Means
<1>3. ~(i < l) /\ ~(l < i)
  BY <1>1, <1>2
<1>4. i = l
  BY <1>3
<1> QED BY <1>1, <1>2, <1>4

\* The innermost scope that declares a name, and what the name means.
LEMMA ScopeIsInnermost ==
  ASSUME NEW e, Scoped(e), NEW n \in Locals
  PROVE  /\ Scope(e, n) \in 1 .. Len(e)
         /\ n \in DOMAIN e[Scope(e, n)]
         /\ \A j \in Scope(e, n) + 1 .. Len(e) : n \notin DOMAIN e[j]
         /\ Means(e, Len(e), n, Meaning(e)[n])
<1>0. DOMAIN e = 1 .. Len(e) /\ Len(e) \in Nat \ {0}
  BY DEF Scoped
<1>1. \E i \in DOMAIN e : n \in DOMAIN e[i] /\ \A j \in i + 1 .. Len(e) : n \notin DOMAIN e[j]
  BY <1>0, InnermostExists
<1>2. /\ Scope(e, n) \in DOMAIN e
      /\ n \in DOMAIN e[Scope(e, n)]
      /\ \A j \in Scope(e, n) + 1 .. Len(e) : n \notin DOMAIN e[j]
  BY <1>1 DEF Scope
<1>3. Meaning(e)[n] = e[Scope(e, n)][n]
  BY DEF Meaning
<1> QED BY <1>0, <1>2, <1>3 DEF Means

LEMMA MeaningIsKnown ==
  ASSUME NEW f, NEW sc, NEW e, Shaped(f, sc, e), NEW n \in Locals, Knows(n, f, sc, e)
  PROVE  f[n] = Meaning(e)[n]
<1>1. Scoped(e) /\ Len(e) \in Nat
  BY DEF Shaped, Scoped
<1>2. Means(e, Len(e), n, f[n]) /\ Means(e, Len(e), n, Meaning(e)[n])
  BY <1>1, ScopeIsInnermost DEF Knows
<1> QED BY <1>1, <1>2, MeansOneThing

\* What a name means depends on its own entries only.
LEMMA MeansTheSame ==
  ASSUME NEW e, NEW d, NEW k \in Nat, NEW n, NEW v,
         \A i \in 1 .. k : (n \in DOMAIN e[i] <=> n \in DOMAIN d[i]) /\ (n \in DOMAIN e[i] => e[i][n] = d[i][n]),
         Means(e, k, n, v)
  PROVE  Means(d, k, n, v)
<1>1. PICK i \in 1 .. k : n \in DOMAIN e[i] /\ v = e[i][n] /\ \A j \in i + 1 .. k : n \notin DOMAIN e[j]
  BY DEF Means
<1>2. n \in DOMAIN d[i] /\ v = d[i][n]
  BY <1>1
<1>3. \A j \in i + 1 .. k : j \in 1 .. k
  OBVIOUS
<1>4. \A j \in i + 1 .. k : n \notin DOMAIN d[j]
  BY <1>1, <1>3
<1> QED BY <1>2, <1>4 DEF Means

\* What is known of a name depends on its own entries only.
LEMMA KnowsTheSame ==
  ASSUME NEW f, NEW sc, NEW e, NEW g, NEW s, NEW d, NEW n, Len(e) \in Nat, Len(d) = Len(e), g[n] = f[n],
         \A i \in 1 .. Len(e) : (n \in DOMAIN e[i] <=> n \in DOMAIN d[i]) /\ (n \in DOMAIN e[i] => e[i][n] = d[i][n]),
         \A i \in 2 .. Len(e) : (n \in DOMAIN sc[i] <=> n \in DOMAIN s[i]) /\ (n \in DOMAIN sc[i] => sc[i][n] = s[i][n]),
         Knows(n, f, sc, e)
  PROVE  Knows(n, g, s, d)
<1>1. ASSUME NEW k \in Nat, k <= Len(e), NEW v, Means(e, k, n, v) PROVE Means(d, k, n, v)
  <2>1. \A i \in 1 .. k : i \in 1 .. Len(e)
    BY <1>1
  <2> QED BY <1>1, <2>1, MeansTheSame
<1>2. Means(d, Len(d), n, g[n])
  BY <1>1 DEF Knows
<1>3. ASSUME NEW i \in 2 .. Len(d)
      PROVE  /\ n \in DOMAIN s[i] => n \in DOMAIN d[i] /\ Means(d, i - 1, n, s[i][n])
             /\ n \in DOMAIN d[i] /\ n \notin DOMAIN s[i] => Means(d, i - 1, n, d[i][n])
  <2>1. i \in 1 .. Len(e) /\ i \in 2 .. Len(e) /\ i - 1 \in Nat /\ i - 1 <= Len(e)
    OBVIOUS
  <2>2. /\ n \in DOMAIN sc[i] => n \in DOMAIN e[i] /\ Means(e, i - 1, n, sc[i][n])
        /\ n \in DOMAIN e[i] /\ n \notin DOMAIN sc[i] => Means(e, i - 1, n, e[i][n])
    BY <2>1 DEF Knows
  <2> QED BY <1>1, <2>1, <2>2
<1> QED BY <1>2, <1>3 DEF Knows

-----------------------------------------------------------------------------
\* A scope is entered.
LEMMA PushKeeps ==
  ASSUME NEW f, NEW sc, NEW e, Shaped(f, sc, e)
  PROVE  /\ Shaped(f, Append(sc, NoNames), Append(e, NoNames))
         /\ Len(Append(e, NoNames)) = Len(e) + 1 /\ DOMAIN Append(e, NoNames)[Len(e) + 1] = {}
         /\ \A i \in 1 .. Len(e) : Append(e, NoNames)[i] = e[i] /\ Append(sc, NoNames)[i] = sc[i]
         /\ \A n \in Locals : Knows(n, f, sc, e) => Knows(n, f, Append(sc, NoNames), Append(e, NoNames))
<1> DEFINE d == Append(e, NoNames)
           s == Append(sc, NoNames)
<1>1. PICK S : e \in Seq(S)
  BY DEF Shaped, Scoped
<1>2. PICK T : sc \in Seq(T)
  BY DEF Shaped
<1>3. /\ d \in Seq(S \cup {NoNames}) /\ Len(d) = Len(e) + 1 /\ d[Len(e) + 1] = NoNames
      /\ \A i \in 1 .. Len(e) : d[i] = e[i]
  BY <1>1
<1>4. /\ s \in Seq(T \cup {NoNames}) /\ Len(s) = Len(sc) + 1 /\ s[Len(sc) + 1] = NoNames
      /\ \A i \in 1 .. Len(sc) : s[i] = sc[i]
  BY <1>2
<1>5. Len(e) \in Nat \ {0} /\ Len(sc) = Len(e)
  BY DEF Shaped, Scoped
<1>6. DOMAIN NoNames = {}
  BY DEF NoNames
<1> HIDE DEF d, s
<1>7. Scoped(d)
  <2>1. Len(d) \in Nat \ {0} /\ DOMAIN d[1] = Locals
    BY <1>3, <1>5 DEF Shaped, Scoped
  <2>2. ASSUME NEW i \in 1 .. Len(d) PROVE DOMAIN d[i] \subseteq Locals
    <3>1. CASE i = Len(e) + 1
      BY <1>3, <1>6, <3>1
    <3>2. CASE i # Len(e) + 1
      <4>1. i \in 1 .. Len(e)
        BY <1>3, <1>5, <3>2
      <4> QED BY <1>3, <4>1 DEF Shaped, Scoped
    <3> QED BY <3>1, <3>2
  <2> QED BY <1>3, <2>1, <2>2 DEF Scoped
<1>8. ASSUME NEW n \in Locals, NEW k \in Nat, k <= Len(e), NEW v, Means(e, k, n, v) PROVE Means(d, k, n, v)
  BY <1>3, <1>5, <1>8, MeansTheSame
<1>9. ASSUME NEW n \in Locals, Knows(n, f, sc, e) PROVE Knows(n, f, s, d)
  <2>1. Means(d, Len(d), n, f[n])
    <3>1. Means(d, Len(e), n, f[n])
      BY <1>5, <1>8, <1>9 DEF Knows
    <3>2. PICK i \in 1 .. Len(e) : n \in DOMAIN d[i] /\ f[n] = d[i][n] /\ \A j \in i + 1 .. Len(e) : n \notin DOMAIN d[j]
      BY <3>1 DEF Means
    <3>3. \A j \in i + 1 .. Len(d) : n \notin DOMAIN d[j]
      BY <1>3, <1>5, <1>6, <3>2
    <3> QED BY <1>3, <1>5, <3>2, <3>3 DEF Means
  <2>2. ASSUME NEW i \in 2 .. Len(d)
        PROVE  /\ n \in DOMAIN s[i] => n \in DOMAIN d[i] /\ Means(d, i - 1, n, s[i][n])
               /\ n \in DOMAIN d[i] /\ n \notin DOMAIN s[i] => Means(d, i - 1, n, d[i][n])
    <3>1. CASE i = Len(e) + 1
      BY <1>3, <1>4, <1>5, <1>6, <3>1
    <3>2. CASE i # Len(e) + 1
      <4>1. i \in 2 .. Len(e) /\ s[i] = sc[i] /\ d[i] = e[i] /\ i - 1 \in Nat /\ i - 1 <= Len(e)
        BY <1>3, <1>4, <1>5, <3>2
      <4>2. /\ n \in DOMAIN sc[i] => n \in DOMAIN e[i] /\ Means(e, i - 1, n, sc[i][n])
            /\ n \in DOMAIN e[i] /\ n \notin DOMAIN sc[i] => Means(e, i - 1, n, e[i][n])
        BY <1>9, <4>1 DEF Knows
      <4> QED BY <1>8, <4>1, <4>2
    <3> QED BY <3>1, <3>2
  <2> QED BY <2>1, <2>2 DEF Knows
<1>10. Shaped(f, s, d)
  BY <1>3, <1>4, <1>5, <1>7 DEF Shaped
<1>11. Len(d) = Len(e) + 1 /\ DOMAIN d[Len(e) + 1] = {} /\ \A i \in 1 .. Len(e) : d[i] = e[i] /\ s[i] = sc[i]
  BY <1>3, <1>4, <1>5, <1>6
<1> QED BY <1>9, <1>10, <1>11 DEF s, d

\* A scope is left.
LEMMA PopKeeps ==
  ASSUME NEW f, NEW sc, NEW e, Shaped(f, sc, e), Len(e) > 1
  PROVE  LET t == Pop([facts |-> f, scopes |-> sc])
             d == SubSeq(e, 1, Len(e) - 1)
         IN  Shaped(t.facts, t.scopes, d) /\ \A n \in Locals : Knows(n, f, sc, e) => Knows(n, t.facts, t.scopes, d)
<1> DEFINE m == Len(e) - 1
           top == sc[Len(sc)]
           g == [n \in Locals |-> IF n \in DOMAIN top THEN top[n] ELSE f[n]]
           s == SubSeq(sc, 1, Len(sc) - 1)
           d == SubSeq(e, 1, m)
<1>1. PICK S : e \in Seq(S)
  BY DEF Shaped, Scoped
<1>2. PICK T : sc \in Seq(T)
  BY DEF Shaped
<1>3. Scoped(e) /\ Len(e) \in Nat \ {0} /\ Len(sc) = Len(e) /\ m \in Nat \ {0} /\ m < Len(e)
  BY DEF Shaped, Scoped
<1>4. Pop([facts |-> f, scopes |-> sc]) = [facts |-> g, scopes |-> s]
  <2>1. Len(sc) # 1
    BY <1>3
  <2> QED BY <2>1 DEF Pop
<1>5. d \in Seq(S) /\ Len(d) = m /\ \A i \in 1 .. m : d[i] = e[i]
  BY <1>1, <1>3
<1>6. s \in Seq(T) /\ Len(s) = m /\ \A i \in 1 .. m : s[i] = sc[i]
  BY <1>2, <1>3
<1>7. \A n \in Locals : g[n] = IF n \in DOMAIN top THEN top[n] ELSE f[n]
  OBVIOUS
<1>8. IsTable(g)
  BY DEF IsTable
<1> HIDE DEF d, s, g
<1>9. Scoped(d)
  <2>1. \A i \in 1 .. m : i \in 1 .. Len(e) /\ DOMAIN d[i] = DOMAIN e[i]
    BY <1>3, <1>5
  <2> QED BY <1>3, <1>5, <2>1 DEF Scoped
<1>10. ASSUME NEW n, NEW k \in Nat, k <= m, NEW v, Means(e, k, n, v) PROVE Means(d, k, n, v)
  <2>1. \A i \in 1 .. k : d[i] = e[i]
    BY <1>3, <1>5, <1>10
  <2> QED BY <1>10, <2>1, MeansTheSame
<1>11. ASSUME NEW n \in Locals, Knows(n, f, sc, e) PROVE Knows(n, g, s, d)
  <2>0. Len(e) \in 2 .. Len(e)
    BY <1>3
  <2>1. Means(d, Len(d), n, g[n])
    <3>1. CASE n \in DOMAIN top
      <4>1. Means(e, m, n, top[n])
        BY <1>3, <1>11, <2>0, <3>1 DEF Knows
      <4> QED BY <1>3, <1>5, <1>7, <1>10, <3>1, <4>1
    <3>2. CASE n \notin DOMAIN top
      <4>1. PICK i \in 1 .. Len(e) : n \in DOMAIN e[i] /\ f[n] = e[i][n] /\ \A j \in i + 1 .. Len(e) : n \notin DOMAIN e[j]
        BY <1>11 DEF Knows, Means
      <4>2. CASE i = Len(e)
        <5>1. Means(e, m, n, e[Len(e)][n])
          BY <1>3, <1>11, <2>0, <3>2, <4>1, <4>2 DEF Knows
        <5> QED BY <1>3, <1>5, <1>7, <1>10, <3>2, <4>1, <4>2, <5>1
      <4>3. CASE i # Len(e)
        <5>1. i \in 1 .. m /\ \A j \in i + 1 .. m : n \notin DOMAIN e[j]
          BY <1>3, <4>1, <4>3
        <5>2. Means(e, m, n, g[n])
          BY <1>7, <3>2, <4>1, <5>1 DEF Means
        <5> QED BY <1>3, <1>5, <1>10, <5>2
      <4> QED BY <4>2, <4>3
    <3> QED BY <3>1, <3>2
  <2>2. ASSUME NEW i \in 2 .. Len(d)
        PROVE  /\ n \in DOMAIN s[i] => n \in DOMAIN d[i] /\ Means(d, i - 1, n, s[i][n])
               /\ n \in DOMAIN d[i] /\ n \notin DOMAIN s[i] => Means(d, i - 1, n, d[i][n])
    <3>1. i \in 2 .. Len(e) /\ i \in 1 .. m /\ i - 1 \in Nat /\ i - 1 <= m
      BY <1>3, <1>5
    <3>2. /\ n \in DOMAIN sc[i] => n \in DOMAIN e[i] /\ Means(e, i - 1, n, sc[i][n])
          /\ n \in DOMAIN e[i] /\ n \notin DOMAIN sc[i] => Means(e, i - 1, n, e[i][n])
      BY <1>11, <3>1 DEF Knows
    <3> QED BY <1>5, <1>6, <1>10, <3>1, <3>2
  <2> QED BY <2>1, <2>2 DEF Knows
<1>12. Shaped(g, s, d)
  BY <1>5, <1>6, <1>8, <1>9 DEF Shaped
<1> QED BY <1>4, <1>11, <1>12 DEF d

-----------------------------------------------------------------------------
\* What a declaration does to the stack, and to the environments.
Stacked(f, sc, name) == Declare([facts |-> f, scopes |-> sc], name).scopes
Stacks(f, sc, name) ==
  /\ Declare([facts |-> f, scopes |-> sc], name) = [facts |-> f, scopes |-> Stacked(f, sc, name)]
  /\ (\E S : Stacked(f, sc, name) \in Seq(S)) /\ Len(Stacked(f, sc, name)) = Len(sc)
  /\ \A i \in 1 .. Len(sc) : i # Len(sc) => Stacked(f, sc, name)[i] = sc[i]
  /\ DOMAIN Stacked(f, sc, name)[Len(sc)] = DOMAIN sc[Len(sc)] \cup {name}
  /\ \A n \in DOMAIN sc[Len(sc)] : Stacked(f, sc, name)[Len(sc)][n] = sc[Len(sc)][n]
  /\ name \notin DOMAIN sc[Len(sc)] => Stacked(f, sc, name)[Len(sc)][name] = f[name]
LEMMA DeclareDoes ==
  ASSUME NEW f, NEW sc, (\E S : sc \in Seq(S)), Len(sc) \in Nat \ {0}, NEW name
  PROVE  Stacks(f, sc, name)
<1> DEFINE t == Declare([facts |-> f, scopes |-> sc], name)
           s == Stacked(f, sc, name)
           top == sc[Len(sc)]
           new == [n \in DOMAIN top \cup {name} |-> IF n = name THEN f[n] ELSE top[n]]
<1>1. PICK T : sc \in Seq(T)
  OBVIOUS
<1>2. t = [facts |-> f, scopes |-> s] /\ s = IF name \in DOMAIN top THEN sc ELSE [sc EXCEPT ![Len(sc)] = new]
  BY DEF Declare, Stacked
<1>3. DOMAIN new = DOMAIN top \cup {name} /\ new[name] = f[name] /\ \A n \in DOMAIN top : n # name => new[n] = top[n]
  OBVIOUS
<1> HIDE DEF new, t, s
<1>4. CASE name \in DOMAIN top
  BY <1>1, <1>2, <1>4 DEF t, s, Stacks
<1>5. CASE name \notin DOMAIN top
  <2>1. s \in Seq(T \cup {new}) /\ Len(s) = Len(sc) /\ s[Len(sc)] = new
        /\ \A i \in 1 .. Len(sc) : i # Len(sc) => s[i] = sc[i]
    BY <1>1, <1>2, <1>5
  <2> QED BY <1>2, <1>3, <1>5, <2>1 DEF t, s, Stacks
<1> QED BY <1>4, <1>5

LEMMA IntroduceDoes ==
  ASSUME NEW e, Scoped(e), NEW name \in Locals, NEW what
  PROVE  LET d == Introduce(e, name, what)
         IN  /\ Scoped(d) /\ Len(d) = Len(e)
             /\ \A i \in 1 .. Len(e) : i # Len(e) => d[i] = e[i]
             /\ DOMAIN d[Len(e)] = DOMAIN e[Len(e)] \cup {name} /\ d[Len(e)][name] = what
             /\ \A n \in DOMAIN e[Len(e)] : n # name => d[Len(e)][n] = e[Len(e)][n]
<1> DEFINE d == Introduce(e, name, what)
           top == e[Len(e)]
           new == [n \in DOMAIN top \cup {name} |-> IF n = name THEN what ELSE top[n]]
<1>1. PICK S : e \in Seq(S)
  BY DEF Scoped
<1>2. Len(e) \in Nat \ {0} /\ DOMAIN top \subseteq Locals /\ DOMAIN e[1] = Locals
  BY DEF Scoped
<1>3. d = [e EXCEPT ![Len(e)] = new]
  BY DEF Introduce
<1>4. DOMAIN new = DOMAIN top \cup {name} /\ new[name] = what /\ \A n \in DOMAIN top : n # name => new[n] = top[n]
  OBVIOUS
<1> HIDE DEF new, d
<1>5. /\ d \in Seq(S \cup {new}) /\ Len(d) = Len(e) /\ d[Len(e)] = new
      /\ \A i \in 1 .. Len(e) : i # Len(e) => d[i] = e[i]
  BY <1>1, <1>2, <1>3
<1>6. Scoped(d)
  <2>1. \A i \in 1 .. Len(e) : DOMAIN e[i] \subseteq Locals
    BY DEF Scoped
  <2>2. \A i \in 1 .. Len(e) : DOMAIN d[i] \subseteq Locals
    BY <1>2, <1>4, <1>5, <2>1
  <2>3. DOMAIN d[1] = Locals
    <3>1. CASE Len(e) = 1
      BY <1>2, <1>4, <1>5, <3>1
    <3>2. CASE Len(e) # 1
      BY <1>2, <1>5, <3>2
    <3> QED BY <3>1, <3>2
  <2> QED BY <1>2, <1>5, <2>2, <2>3 DEF Scoped
<1> QED BY <1>4, <1>5, <1>6 DEF d

\* What an assignment does to the environments.
LEMMA BindDoes ==
  ASSUME NEW e, Scoped(e), NEW name \in Locals, NEW what
  PROVE  LET d == Bind(e, name, what)
             depth == Scope(e, name)
         IN  /\ Scoped(d) /\ Len(d) = Len(e)
             /\ \A i \in 1 .. Len(e) : i # depth => d[i] = e[i]
             /\ \A i \in 1 .. Len(e) : DOMAIN d[i] = DOMAIN e[i]
             /\ d[depth][name] = what
             /\ \A n \in DOMAIN e[depth] : n # name => d[depth][n] = e[depth][n]
<1> DEFINE d == Bind(e, name, what)
           depth == Scope(e, name)
           new == [e[depth] EXCEPT ![name] = what]
<1>1. PICK S : e \in Seq(S)
  BY DEF Scoped
<1>2. Len(e) \in Nat \ {0} /\ DOMAIN e = 1 .. Len(e)
  BY DEF Scoped
<1>3. depth \in 1 .. Len(e) /\ name \in DOMAIN e[depth]
  BY ScopeIsInnermost
<1>4. d = [e EXCEPT ![depth] = new]
  BY DEF Bind
<1>5. DOMAIN new = DOMAIN e[depth]
  OBVIOUS
<1>6. new[name] = what /\ \A n \in DOMAIN e[depth] : n # name => new[n] = e[depth][n]
  BY <1>3
<1> HIDE DEF d, depth, new
<1>7. /\ d \in Seq(S \cup {new}) /\ Len(d) = Len(e) /\ d[depth] = new
      /\ \A i \in 1 .. Len(e) : i # depth => d[i] = e[i]
  BY <1>1, <1>2, <1>3, <1>4
<1>8. \A i \in 1 .. Len(e) : DOMAIN d[i] = DOMAIN e[i]
  BY <1>5, <1>7
<1>9. Scoped(d)
  BY <1>2, <1>7, <1>8 DEF Scoped
<1> QED BY <1>6, <1>7, <1>8, <1>9 DEF d, depth

-----------------------------------------------------------------------------
\* A declaration the analyzer sees gives the name a meaning, and keeps what it hides.
LEMMA HideKnows ==
  ASSUME NEW f, NEW sc, NEW e, Shaped(f, sc, e), NEW name \in Locals, Knows(name, f, sc, e),
         NEW g, NEW what, g[name] = what
  PROVE  Knows(name, g, Stacked(f, sc, name), Introduce(e, name, what))
<1> DEFINE s == Stacked(f, sc, name)
           d == Introduce(e, name, what)
<1>1. Len(e) \in Nat \ {0} /\ Len(sc) = Len(e) /\ Scoped(e)
  BY DEF Shaped, Scoped
<1>2. /\ \A i \in 1 .. Len(e) : i # Len(e) => s[i] = sc[i]
      /\ DOMAIN s[Len(e)] = DOMAIN sc[Len(e)] \cup {name}
      /\ name \in DOMAIN sc[Len(e)] => s[Len(e)][name] = sc[Len(e)][name]
      /\ name \notin DOMAIN sc[Len(e)] => s[Len(e)][name] = f[name]
  <2>1. (\E S : sc \in Seq(S)) /\ Len(sc) \in Nat \ {0}
    BY <1>1 DEF Shaped
  <2>2. Stacks(f, sc, name)
    BY <2>1, DeclareDoes
  <2> QED BY <1>1, <2>2 DEF Stacks
<1>3. /\ Len(d) = Len(e)
      /\ \A i \in 1 .. Len(e) : i # Len(e) => d[i] = e[i]
      /\ name \in DOMAIN d[Len(e)] /\ d[Len(e)][name] = what
  BY <1>1, IntroduceDoes
<1> HIDE DEF s, d
<1>4. ASSUME NEW k \in Nat, k < Len(e), NEW v, Means(e, k, name, v) PROVE Means(d, k, name, v)
  <2>1. \A i \in 1 .. k : d[i] = e[i]
    BY <1>1, <1>3, <1>4
  <2> QED BY <1>4, <2>1, MeansTheSame
<1>5. Means(d, Len(d), name, g[name])
  <2>1. \A j \in Len(e) + 1 .. Len(e) : FALSE
    BY <1>1
  <2> QED BY <1>1, <1>3, <2>1 DEF Means
<1>6. ASSUME NEW i \in 2 .. Len(d)
      PROVE  /\ name \in DOMAIN s[i] => name \in DOMAIN d[i] /\ Means(d, i - 1, name, s[i][name])
             /\ name \in DOMAIN d[i] /\ name \notin DOMAIN s[i] => Means(d, i - 1, name, d[i][name])
  <2>1. i \in 2 .. Len(e) /\ i \in 1 .. Len(e) /\ i - 1 \in Nat /\ i - 1 < Len(e)
    BY <1>1, <1>3
  <2>2. /\ name \in DOMAIN sc[i] => name \in DOMAIN e[i] /\ Means(e, i - 1, name, sc[i][name])
        /\ name \in DOMAIN e[i] /\ name \notin DOMAIN sc[i] => Means(e, i - 1, name, e[i][name])
    BY <2>1 DEF Knows
  <2>3. CASE i # Len(e)
    BY <1>2, <1>3, <1>4, <2>1, <2>2, <2>3
  <2>4. CASE i = Len(e) /\ name \in DOMAIN sc[i]
    BY <1>2, <1>3, <1>4, <2>1, <2>2, <2>4
  <2>5. CASE i = Len(e) /\ name \notin DOMAIN sc[i]
    <3>1. PICK l \in 1 .. Len(e) : name \in DOMAIN e[l] /\ f[name] = e[l][name] /\ \A j \in l + 1 .. Len(e) : name \notin DOMAIN e[j]
      BY DEF Knows, Means
    <3>2. Means(e, i - 1, name, f[name])
      <4>1. CASE l = Len(e)
        BY <2>2, <2>5, <3>1, <4>1
      <4>2. CASE l # Len(e)
        <5>1. l \in 1 .. i - 1 /\ \A j \in l + 1 .. i - 1 : name \notin DOMAIN e[j]
          BY <1>1, <2>5, <3>1, <4>2
        <5> QED BY <3>1, <5>1 DEF Means
      <4> QED BY <4>1, <4>2
    <3> QED BY <1>2, <1>3, <1>4, <2>1, <2>5, <3>2
  <2> QED BY <2>3, <2>4, <2>5
<1>7. Knows(name, g, s, d)
  BY <1>5, <1>6 DEF Knows
<1> QED BY <1>7 DEF s, d

\* A declaration the analyzer does not see, of a name that means nothing inside or outside.
LEMMA UnseenKnows ==
  ASSUME NEW f, NEW sc, NEW e, Shaped(f, sc, e), NEW name \in Locals, Knows(name, f, sc, e)
  PROVE  Knows(name, f, sc, Introduce(e, name, f[name]))
<1> DEFINE d == Introduce(e, name, f[name])
<1>1. Len(e) \in Nat \ {0} /\ Len(sc) = Len(e) /\ Scoped(e)
  BY DEF Shaped, Scoped
<1>2. /\ Len(d) = Len(e)
      /\ \A i \in 1 .. Len(e) : i # Len(e) => d[i] = e[i]
      /\ name \in DOMAIN d[Len(e)] /\ d[Len(e)][name] = f[name]
  BY <1>1, IntroduceDoes
<1> HIDE DEF d
<1>3. ASSUME NEW k \in Nat, k < Len(e), NEW v, Means(e, k, name, v) PROVE Means(d, k, name, v)
  <2>1. \A i \in 1 .. k : d[i] = e[i]
    BY <1>1, <1>2, <1>3
  <2> QED BY <1>3, <2>1, MeansTheSame
<1>4. Means(d, Len(d), name, f[name])
  <2>1. \A j \in Len(e) + 1 .. Len(e) : FALSE
    BY <1>1
  <2> QED BY <1>1, <1>2, <2>1 DEF Means
<1>5. ASSUME NEW i \in 2 .. Len(d)
      PROVE  /\ name \in DOMAIN sc[i] => name \in DOMAIN d[i] /\ Means(d, i - 1, name, sc[i][name])
             /\ name \in DOMAIN d[i] /\ name \notin DOMAIN sc[i] => Means(d, i - 1, name, d[i][name])
  <2>1. i \in 2 .. Len(e) /\ i \in 1 .. Len(e) /\ i - 1 \in Nat /\ i - 1 < Len(e)
    BY <1>1, <1>2
  <2>2. /\ name \in DOMAIN sc[i] => name \in DOMAIN e[i] /\ Means(e, i - 1, name, sc[i][name])
        /\ name \in DOMAIN e[i] /\ name \notin DOMAIN sc[i] => Means(e, i - 1, name, e[i][name])
    BY <2>1 DEF Knows
  <2>3. CASE i # Len(e)
    BY <1>2, <1>3, <2>1, <2>2, <2>3
  <2>4. CASE i = Len(e) /\ name \in DOMAIN sc[i]
    BY <1>2, <1>3, <2>1, <2>2, <2>4
  <2>5. CASE i = Len(e) /\ name \notin DOMAIN sc[i]
    <3>1. PICK l \in 1 .. Len(e) : name \in DOMAIN e[l] /\ f[name] = e[l][name] /\ \A j \in l + 1 .. Len(e) : name \notin DOMAIN e[j]
      BY DEF Knows, Means
    <3>2. Means(e, i - 1, name, f[name])
      <4>1. CASE l = Len(e)
        BY <2>2, <2>5, <3>1, <4>1
      <4>2. CASE l # Len(e)
        <5>1. l \in 1 .. i - 1 /\ \A j \in l + 1 .. i - 1 : name \notin DOMAIN e[j]
          BY <1>1, <2>5, <3>1, <4>2
        <5> QED BY <3>1, <5>1 DEF Means
      <4> QED BY <4>1, <4>2
    <3> QED BY <1>2, <1>3, <2>1, <2>5, <3>2
  <2> QED BY <2>3, <2>4, <2>5
<1>6. Knows(name, f, sc, d)
  BY <1>4, <1>5 DEF Knows
<1> QED BY <1>6 DEF d

\* An assignment to a name whose declaration the analyzer has seen, or to a name of the
\* outermost scope.
LEMMA BindKnows ==
  ASSUME NEW f, NEW sc, NEW e, Shaped(f, sc, e), NEW name \in Locals, Knows(name, f, sc, e),
         Scope(e, name) > 1 => name \in DOMAIN sc[Scope(e, name)],
         NEW g, NEW what, g[name] = what
  PROVE  Knows(name, g, sc, Bind(e, name, what))
<1> DEFINE d == Bind(e, name, what)
           depth == Scope(e, name)
<1>1. Len(e) \in Nat \ {0} /\ Scoped(e)
  BY DEF Shaped, Scoped
<1>2. /\ Len(d) = Len(e) /\ d[depth][name] = what
      /\ \A i \in 1 .. Len(e) : i # depth => d[i] = e[i]
      /\ \A i \in 1 .. Len(e) : DOMAIN d[i] = DOMAIN e[i]
  BY <1>1, BindDoes
<1>3. depth \in 1 .. Len(e) /\ name \in DOMAIN e[depth] /\ \A j \in depth + 1 .. Len(e) : name \notin DOMAIN e[j]
  BY <1>1, ScopeIsInnermost
<1> HIDE DEF d, depth
<1>4. ASSUME NEW k \in Nat, k < depth, NEW v, Means(e, k, name, v) PROVE Means(d, k, name, v)
  <2>1. \A i \in 1 .. k : d[i] = e[i]
    BY <1>1, <1>2, <1>3, <1>4
  <2> QED BY <1>4, <2>1, MeansTheSame
<1>5. Means(d, Len(d), name, g[name])
  <2>1. \A j \in depth + 1 .. Len(d) : name \notin DOMAIN d[j]
    BY <1>1, <1>2, <1>3
  <2> QED BY <1>1, <1>2, <1>3, <2>1 DEF Means
<1>6. ASSUME NEW i \in 2 .. Len(d)
      PROVE  /\ name \in DOMAIN sc[i] => name \in DOMAIN d[i] /\ Means(d, i - 1, name, sc[i][name])
             /\ name \in DOMAIN d[i] /\ name \notin DOMAIN sc[i] => Means(d, i - 1, name, d[i][name])
  <2>1. i \in 2 .. Len(e) /\ i \in 1 .. Len(e) /\ i - 1 \in Nat
    BY <1>1, <1>2
  <2>2. /\ name \in DOMAIN sc[i] => name \in DOMAIN e[i] /\ Means(e, i - 1, name, sc[i][name])
        /\ name \in DOMAIN e[i] /\ name \notin DOMAIN sc[i] => Means(e, i - 1, name, e[i][name])
    BY <2>1 DEF Knows
  \* The name is bound where it is declared, and declared no further in.
  <2>3. CASE i > depth
    <3>1. name \notin DOMAIN e[i] /\ name \notin DOMAIN d[i]
      BY <1>1, <1>2, <1>3, <2>1, <2>3
    <3> QED BY <2>2, <3>1
  <2>4. CASE i = depth
    <3>1. name \in DOMAIN sc[i]
      BY <2>1, <2>4 DEF depth
    <3>2. i - 1 < depth
      BY <2>1, <2>4
    <3> QED BY <1>2, <1>4, <2>1, <2>2, <3>1, <3>2
  <2>5. CASE i < depth
    <3>1. i - 1 < depth /\ d[i] = e[i]
      BY <1>2, <1>3, <2>1, <2>5
    <3> QED BY <1>4, <2>1, <2>2, <3>1
  <2> QED BY <1>3, <2>1, <2>3, <2>4, <2>5
<1>7. Knows(name, g, sc, d)
  BY <1>5, <1>6 DEF Knows
<1> QED BY <1>7 DEF d

-----------------------------------------------------------------------------
\* What an expression says depends on the names it mentions.
SaysTheSame(f, g, e) ==
  /\ InputControlled(f, e) <=> InputControlled(g, e)
  /\ Constant(f, e) = Constant(g, e)
  /\ (\E r \in e.sources : Is(f, r, "request")) <=> (\E r \in e.sources : Is(g, r, "request"))
  /\ \A type : Derived(f, e, type) = Derived(g, e, type)
LEMMA ExpressionSaysTheSame ==
  ASSUME NEW s \in Statements, NEW e \in {s.arg, s.value}, NEW f, NEW g,
         \A r \in Mentioned(e) : r \in Locals => f[r] = g[r]
  PROVE  SaysTheSame(f, g, e)
<1>1. \A r \in Mentioned(e) : \A kind : Is(f, r, kind) <=> Is(g, r, kind)
  BY DEF Is
<1>2. e.names \subseteq Mentioned(e) /\ e.sources \subseteq Mentioned(e) /\ e.of \in Mentioned(e)
  BY DEF Mentioned
<1>3. e.bare => BareName(e) \in e.names /\ BareName(e) \in Locals
  <2> SUFFICES ASSUME e.bare PROVE BareName(e) \in e.names /\ BareName(e) \in Locals
    OBVIOUS
  <2>1. PICK n \in Locals : e.names = {n}
    BY StatementsAssumption
  <2> QED BY <2>1 DEF BareName
<1>4. InputControlled(f, e) <=> InputControlled(g, e)
  BY <1>1, <1>2 DEF InputControlled
<1>5. Constant(f, e) = Constant(g, e)
  BY <1>2, <1>3 DEF Constant
<1>6. \A kind : IsAlias(f, e, kind) <=> IsAlias(g, e, kind)
  BY <1>1, <1>2, <1>3 DEF IsAlias
<1>7. Makes(f, e) = Makes(g, e)
  BY <1>1, <1>2 DEF Makes
<1>8. HasExecutablePath(f, e) <=> HasExecutablePath(g, e)
  BY <1>6 DEF HasExecutablePath
<1>9. ASSUME NEW type PROVE Derived(f, e, type) = Derived(g, e, type)
  <2>1. {k \in Receivers : type = k \/ IsAlias(f, e, k)} = {k \in Receivers : type = k \/ IsAlias(g, e, k)}
    BY <1>6
  <2> QED BY <1>4, <1>5, <1>7, <1>8, <2>1 DEF Derived
<1>10. (\E r \in e.sources : Is(f, r, "request")) <=> (\E r \in e.sources : Is(g, r, "request"))
  BY <1>1, <1>2
<1> QED BY <1>4, <1>5, <1>9, <1>10 DEF SaysTheSame

LEMMA StatementHitsTheSame ==
  ASSUME NEW s \in Statements, NEW f, NEW g, \A r \in Touched(s) : r \in Locals => f[r] = g[r]
  PROVE  SinkHits(f, s) = SinkHits(g, s) /\ SourceHits(f, s) = SourceHits(g, s)
<1>1. /\ \A r \in Mentioned(s.arg) : r \in Locals => f[r] = g[r]
      /\ \A r \in Mentioned(s.value) : r \in Locals => f[r] = g[r]
      /\ s.receiver \in Locals => f[s.receiver] = g[s.receiver]
  BY DEF Touched
<1>0. SaysTheSame(f, g, s.arg) /\ SaysTheSame(f, g, s.value)
  BY <1>1, ExpressionSaysTheSame
<1>2. /\ ArgumentsGiven(f, s) <=> ArgumentsGiven(g, s)
      /\ Constant(f, s.arg) = Constant(g, s.arg)
  BY <1>0 DEF ArgumentsGiven, SaysTheSame
<1>3. \A kind : On(f, s, kind) <=> On(g, s, kind)
  BY <1>1 DEF On, Is
<1>4. ExecHits(f, s) = ExecHits(g, s)
  BY <1>2 DEF ExecHits
<1>5. WriteHits(f, s) = WriteHits(g, s)
  BY <1>2, <1>3 DEF WriteHits
<1>6. CodeHits(f, s) = CodeHits(g, s)
  BY <1>2, <1>3 DEF CodeHits
<1>7. ContextHits(f, s) = ContextHits(g, s)
  BY <1>3 DEF ContextHits
<1>8. \A e \in {s.arg, s.value} : (\E r \in e.sources : Is(f, r, "request")) <=> (\E r \in e.sources : Is(g, r, "request"))
  BY <1>0 DEF SaysTheSame
<1>9. SourceHits(f, s) = SourceHits(g, s)
  BY <1>8 DEF SourceHits
<1> QED BY <1>4, <1>5, <1>6, <1>7, <1>9 DEF SinkHits

-----------------------------------------------------------------------------
\* What a statement does to the flat table and its stack, between the scope it enters and
\* the scope it leaves.
Judged(f, sc, s) == DeclareTyped([facts |-> f, scopes |-> sc], s)
Left(f, sc, s) == Assign(Judged(f, sc, s), s)
LEMMA AnalyzerDoes ==
  ASSUME NEW f, IsTable(f),
         NEW sc, (\E S : sc \in Seq(S)), Len(sc) \in Nat \ {0}, NEW s \in Statements,
         NEW t2, t2 = Judged(f, sc, s), NEW t3, t3 = Left(f, sc, s)
  PROVE  /\ t3 = [facts |-> t3.facts, scopes |-> t3.scopes]
         /\ IsTable(t3.facts)
         /\ \A n \in Locals : n # s.name => t2.facts[n] = f[n] /\ t3.facts[n] = f[n]
         /\ s.type \notin Typed => t2.facts = f
         /\ s.name = NoText => t2.facts = f /\ t3.facts = f
         /\ t3.scopes = IF s.name # NoText /\ LooksDeclared(s) THEN Stacked(f, sc, s.name) ELSE sc
         /\ s.name # NoText => t3.facts[s.name] = After(s, f[s.name], t2.facts)
<1> DEFINE t == [facts |-> f, scopes |-> sc]
           d == Stacked(f, sc, s.name)
           named == s.name # NoText
<1>1. (named => s.name \in Locals) /\ NoText \notin Locals
  BY StatementsAssumption
<1>2. Declare(t, s.name) = [facts |-> f, scopes |-> d]
      /\ s.name \in DOMAIN d[Len(sc)] /\ Len(d) = Len(sc)
  <2>1. Stacks(f, sc, s.name)
    BY DeclareDoes
  <2> QED BY <2>1 DEF Stacks
<1>3. NoText \notin Typed
  BY DEF NoText, Typed
<1>4. CASE ~named
  <2>1. t2 = t
    BY <1>4 DEF DeclareTyped, Judged
  <2>2. t3 = t2
    BY <1>4, <2>1 DEF Assign, Left
  <2> QED BY <1>1, <1>4, <2>1, <2>2
<1>5. CASE named /\ s.type \in Typed
  <2> DEFINE known == OfType(f[s.name], s.type)
             g == [f EXCEPT ![s.name] = known]
  <2>1. t2 = [facts |-> g, scopes |-> d]
    <3>1. t2 = [Declare(t, s.name) EXCEPT !.facts[s.name] = OfType(@, s.type)]
      BY <1>5 DEF DeclareTyped, Judged
    <3> HIDE DEF d
    <3> QED BY <1>2, <3>1
  <2>2. IsTable(g) /\ g[s.name] = known /\ \A n \in Locals : n # s.name => g[n] = f[n]
    <3> HIDE DEF known
    <3> QED BY <1>1, <1>5 DEF IsTable
  <2> HIDE DEF d, g
  <2>3. t2.facts = g /\ t2.scopes = d
    BY <2>1
  <2>4. Declare(t2, s.name) = t2
    BY <1>2, <2>3 DEF Declare
  <2>5. LooksDeclared(s) /\ s.type # NoText
    BY <1>3, <1>5 DEF LooksDeclared
  <2> HIDE DEF known
  <2>6. CASE ~s.assigns
    <3>1. t3 = t2
      BY <2>6, Zenon DEF Assign, Left, Judged
    <3>2. After(s, f[s.name], g) = known
      BY <1>5, <2>6 DEF After, known
    <3> QED BY <1>5, <2>1, <2>2, <2>3, <2>5, <3>1, <3>2 DEF d
  <2>7. CASE s.assigns
    <3> DEFINE what == Assigned(known, Derived(g, s.value, s.type))
    <3>1. t3 = [t2 EXCEPT !.facts[s.name] = Assigned(@, Derived(t2.facts, s.value, s.type))]
      BY <1>5, <2>4, <2>5, <2>7 DEF Assign, Left
    <3>2. t3 = [facts |-> [g EXCEPT ![s.name] = what], scopes |-> d]
      BY <2>1, <2>2, <2>3, <3>1
    <3>3. After(s, f[s.name], g) = what
      BY <1>5, <2>7 DEF After, known
    <3> HIDE DEF what
    <3>4. t3.scopes = d /\ t3.facts = [g EXCEPT ![s.name] = what]
      BY <3>2
    <3>5. /\ IsTable(t3.facts) /\ t3.facts[s.name] = what
          /\ \A n \in Locals : n # s.name => t3.facts[n] = g[n]
      BY <1>1, <1>5, <2>2, <3>4 DEF IsTable
    <3> QED BY <1>5, <2>2, <2>3, <2>5, <3>2, <3>3, <3>4, <3>5 DEF d
  <2> QED BY <2>6, <2>7
<1>6. CASE named /\ s.type \notin Typed
  <2>1. t2 = t
    BY <1>6 DEF DeclareTyped, Judged
  <2>2. t2.facts = f /\ t2.scopes = sc
    BY <2>1
  <2> DEFINE u == IF s.type = NoText THEN t ELSE Declare(t, s.name)
             scopes3 == IF s.type = NoText THEN sc ELSE d
  <2>3. u = [facts |-> f, scopes |-> scopes3]
    BY <1>2
  <2>4. CASE ~s.assigns
    <3>1. t3 = t
      BY <2>1, <2>4 DEF Assign, Left
    <3>2. After(s, f[s.name], f) = f[s.name] /\ ~LooksDeclared(s)
      BY <1>6, <2>4 DEF After, LooksDeclared
    <3> QED BY <1>6, <2>1, <2>2, <3>1, <3>2
  <2>5. CASE s.assigns
    <3> DEFINE what == Assigned(f[s.name], Derived(f, s.value, s.type))
    <3>1. t3 = [u EXCEPT !.facts[s.name] = Assigned(@, Derived(f, s.value, s.type))]
      BY <1>6, <2>1, <2>2, <2>5 DEF Assign, Left
    <3>2. After(s, f[s.name], f) = what /\ (LooksDeclared(s) <=> s.type # NoText)
      BY <1>6, <2>5 DEF After, LooksDeclared
    <3>3. scopes3 = IF LooksDeclared(s) THEN d ELSE sc
      BY <3>2
    <3> HIDE DEF u, scopes3, d
    <3>4. t3 = [facts |-> [f EXCEPT ![s.name] = what], scopes |-> scopes3]
      BY <2>3, <3>1
    <3> HIDE DEF what
    <3>5. t3.scopes = scopes3 /\ t3.facts = [f EXCEPT ![s.name] = what]
      BY <3>4
    <3>6. /\ IsTable(t3.facts) /\ t3.facts[s.name] = what
          /\ \A n \in Locals : n # s.name => t3.facts[n] = f[n]
      BY <1>1, <1>6, <3>5 DEF IsTable
    <3> QED BY <1>6, <2>2, <3>2, <3>3, <3>4, <3>5, <3>6 DEF d
  <2> QED BY <2>4, <2>5
<1> QED BY <1>4, <1>5, <1>6

\* One statement, from the scope it enters to the scope it leaves.
LEMMA ReadKeeps ==
  ASSUME JavaInv, NEW s \in Statements, Read(s)
  PROVE  JavaInv'
<1> DEFINE t0 == [facts |-> facts, scopes |-> scopes]
           t1 == IF s.boundary = "{" THEN Push(t0) ELSE t0
           t2 == DeclareTyped(t1, s)
           t3 == Assign(t2, s)
           t4 == IF s.boundary = "}" THEN Pop(t3) ELSE t3
           sc == IF s.boundary = "{" THEN Append(scopes, NoNames) ELSE scopes
           e1 == InScope(env, s)
           f == Meaning(e1)
           name == s.name
           e2 == CASE s.declares -> Introduce(e1, name, After(s, Nothing, f))
                   [] ~s.declares /\ s.assigns /\ name # NoText -> Bind(e1, name, After(s, f[name], f))
                   [] OTHER -> e1
           found == SinkHits(t2.facts, s) \cup SourceHits(t2.facts, s)
           owed == IF Touched(s) \cap strayed' = {} THEN SinkHits(f, s) \cup SourceHits(f, s) ELSE {}
<1>1. /\ facts' = t4.facts /\ scopes' = t4.scopes /\ hits' = hits \cup found
      /\ env' = IF s.boundary = "}" /\ Len(e2) > 1 THEN SubSeq(e2, 1, Len(e2) - 1) ELSE e2
      /\ strayed' = strayed \cup (IF Strays(s) THEN {name} ELSE {})
      /\ due' = due \cup owed
  BY DEF Read, Lexical
<1>2. /\ name # NoText => name \in Locals
      /\ s.declares \in BOOLEAN
      /\ s.declares => name \in Locals /\ name \notin Touched(s) /\ (s.assigns => s.type # NoText)
      /\ NoText \notin Locals
  BY StatementsAssumption
<1>3. t1 = [facts |-> facts, scopes |-> sc]
  BY DEF Push
<1>4. /\ Shaped(facts, sc, e1)
      /\ \A n \in Locals : n \notin strayed => Knows(n, facts, sc, e1)
  <2>1. /\ Shaped(facts, scopes, env)
        /\ \A n \in Locals : n \notin strayed => Knows(n, facts, scopes, env)
    BY DEF JavaInv
  <2>2. CASE s.boundary = "{"
    <3>1. sc = Append(scopes, NoNames) /\ e1 = Append(env, NoNames)
      BY <2>2 DEF InScope
    <3> HIDE DEF sc, e1
    <3> QED BY <2>1, <3>1, PushKeeps
  <2>3. CASE s.boundary # "{"
    <3>1. sc = scopes /\ e1 = env
      BY <2>3 DEF InScope
    <3> HIDE DEF sc, e1
    <3> QED BY <2>1, <3>1
  <2> QED BY <2>2, <2>3
\* The innermost declaration of a name is where it was before the scope was entered.
<1>5. ASSUME name \in Locals, ~Unseen(name)
      PROVE  Scope(e1, name) > 1 => name \in DOMAIN sc[Scope(e1, name)]
  <2>0. Shaped(facts, scopes, env) /\ Scoped(env) /\ Len(env) \in Nat
    BY DEF JavaInv, Shaped, Scoped
  <2>1. Scope(env, name) > 1 => name \in DOMAIN scopes[Scope(env, name)]
    BY <1>5 DEF Unseen
  <2>2. CASE s.boundary = "{"
    <3>1. /\ sc = Append(scopes, NoNames) /\ e1 = Append(env, NoNames)
          /\ Len(e1) = Len(env) + 1 /\ DOMAIN e1[Len(env) + 1] = {}
          /\ \A i \in 1 .. Len(env) : e1[i] = env[i] /\ sc[i] = scopes[i]
      <4>1. sc = Append(scopes, NoNames) /\ e1 = Append(env, NoNames)
        BY <2>2 DEF InScope
      <4>2. PICK S, T : env \in Seq(S) /\ scopes \in Seq(T)
        BY <2>0 DEF Shaped, Scoped
      <4>3. DOMAIN NoNames = {}
        BY DEF NoNames
      <4> HIDE DEF sc, e1
      <4> QED BY <2>0, <4>1, <4>2, <4>3 DEF Shaped
    <3> HIDE DEF sc, e1
    <3>2. /\ Scope(env, name) \in 1 .. Len(env) /\ name \in DOMAIN env[Scope(env, name)]
          /\ \A j \in Scope(env, name) + 1 .. Len(env) : name \notin DOMAIN env[j]
      BY <1>5, <2>0, ScopeIsInnermost
    <3>3. /\ Scope(e1, name) \in 1 .. Len(e1) /\ name \in DOMAIN e1[Scope(e1, name)]
          /\ \A j \in Scope(e1, name) + 1 .. Len(e1) : name \notin DOMAIN e1[j]
      BY <1>4, <1>5, ScopeIsInnermost DEF Shaped
    <3>4. Scope(e1, name) \in 1 .. Len(env)
      BY <2>0, <3>1, <3>3
    <3>5. Scope(e1, name) = Scope(env, name)
      <4> DEFINE x == Scope(env, name)
                 y == Scope(e1, name)
      <4>1. ~(x < y) /\ ~(y < x)
        BY <2>0, <3>1, <3>2, <3>3, <3>4
      <4>2. x \in Nat /\ y \in Nat
        BY <3>2, <3>4
      <4> HIDE DEF x, y
      <4>3. x = y
        BY <4>1, <4>2
      <4> QED BY <4>3 DEF x, y
    <3> QED BY <2>1, <3>1, <3>4, <3>5
  <2>3. CASE s.boundary # "{"
    <3>1. sc = scopes /\ e1 = env
      BY <2>3 DEF InScope
    <3> HIDE DEF sc, e1
    <3> QED BY <2>1, <3>1
  <2> QED BY <2>2, <2>3
<1>6. /\ Scoped(e1) /\ IsTable(facts) /\ (\E S : sc \in Seq(S))
      /\ Len(sc) = Len(e1) /\ Len(e1) \in Nat \ {0}
  BY <1>4 DEF Shaped, Scoped
<1>7. /\ t3 = [facts |-> t3.facts, scopes |-> t3.scopes]
      /\ IsTable(t3.facts)
      /\ \A n \in Locals : n # name => t2.facts[n] = facts[n] /\ t3.facts[n] = facts[n]
      /\ s.type \notin Typed => t2.facts = facts
      /\ name = NoText => t2.facts = facts /\ t3.facts = facts
      /\ t3.scopes = IF name # NoText /\ LooksDeclared(s) THEN Stacked(facts, sc, name) ELSE sc
      /\ name # NoText => t3.facts[name] = After(s, facts[name], t2.facts)
  <2>1. t2 = Judged(facts, sc, s)
    BY <1>3 DEF Judged
  <2>2. t3 = Left(facts, sc, s)
    BY <2>1 DEF Left
  <2> HIDE DEF t2, t3, sc, e1
  <2> QED BY <1>6, <2>1, <2>2, AnalyzerDoes
<1>8. \A n \in Locals : n \notin strayed => facts[n] = f[n]
  BY <1>4, MeaningIsKnown
\* What is judged by names that were not taken for others is judged as the language has it.
<1>9. ASSUME Touched(s) \cap strayed' = {} PROVE found = SinkHits(f, s) \cup SourceHits(f, s)
  <2>1. ASSUME NEW r \in Touched(s), r \in Locals PROVE t2.facts[r] = f[r]
    <3>1. r \notin strayed'
      BY <1>9
    <3>2. r \notin strayed
      BY <1>1, <3>1
    <3>3. t2.facts[r] = facts[r]
      <4>1. CASE r # name
        BY <1>7, <2>1, <4>1
      <4>2. CASE s.type \notin Typed
        BY <1>7, <4>2
      <4>3. CASE r = name /\ s.type \in Typed
        <5>1. LooksDeclared(s)
          BY <4>3 DEF LooksDeclared
        <5>2. name # NoText
          BY <1>2, <2>1, <4>3
        <5>3. s.declares
          BY <1>1, <1>2, <3>1, <4>3, <5>1, <5>2 DEF Strays
        <5> QED BY <1>2, <2>1, <4>3, <5>3
      <4> QED BY <4>1, <4>2, <4>3
    <3> QED BY <1>8, <2>1, <3>2, <3>3
  <2> HIDE DEF t2, f
  <2> QED BY <2>1, StatementHitsTheSame
<1>10. due' \subseteq hits' /\ (strayed' = {} => hits' = due')
  <2>1. due \subseteq hits /\ (strayed = {} => hits = due)
    BY DEF JavaInv
  <2>2. owed \subseteq found
    <3>1. CASE Touched(s) \cap strayed' = {}
      BY <1>9, <3>1
    <3>2. CASE Touched(s) \cap strayed' # {}
      BY <3>2
    <3> QED BY <3>1, <3>2
  <2>3. strayed' = {} => owed = found /\ strayed = {}
    BY <1>1, <1>9
  <2> HIDE DEF owed, found
  <2> QED BY <1>1, <2>1, <2>2, <2>3
<1> HIDE DEF t1, t2, t3, e1, f, sc, found, owed
<1>11. ASSUME name # NoText, name \notin strayed, s.assigns => Mentioned(s.value) \cap strayed = {},
              s.type \in Typed => name \notin Touched(s), NEW known
       PROVE  /\ After(s, known, t2.facts) = After(s, known, facts)
              /\ After(s, known, facts) = After(s, known, f)
  <2>1. CASE ~s.assigns
    BY <2>1 DEF After
  <2>2. CASE s.assigns
    <3>1. ASSUME NEW r \in Mentioned(s.value), r \in Locals PROVE t2.facts[r] = facts[r] /\ facts[r] = f[r]
      <4>1. r \notin strayed /\ r \in Touched(s)
        BY <1>11, <2>2 DEF Touched
      <4> QED BY <1>7, <1>8, <1>11, <3>1, <4>1
    <3>2. /\ Derived(t2.facts, s.value, s.type) = Derived(facts, s.value, s.type)
          /\ Derived(facts, s.value, s.type) = Derived(f, s.value, s.type)
      <4> DEFINE g == t2.facts
                 e == s.value
      <4>1. \A r \in Mentioned(e) : r \in Locals => g[r] = facts[r]
        BY <3>1
      <4>2. \A r \in Mentioned(e) : r \in Locals => facts[r] = f[r]
        BY <3>1
      <4>3. e \in {s.arg, s.value}
        OBVIOUS
      <4> HIDE DEF g, e
      <4>4. SaysTheSame(g, facts, e)
        BY <4>1, <4>3, ExpressionSaysTheSame
      <4>5. SaysTheSame(facts, f, e)
        BY <4>2, <4>3, ExpressionSaysTheSame
      <4> QED BY <4>4, <4>5 DEF SaysTheSame, g, e
    <3> QED BY <3>2 DEF After
  <2> QED BY <2>1, <2>2
\* What the statement leaves, of its own name and of the others.
<1>12. /\ Scoped(e2) /\ Len(e2) = Len(e1)
       /\ \A n \in Locals : n # name =>
            \A i \in 1 .. Len(e1) : (n \in DOMAIN e1[i] <=> n \in DOMAIN e2[i]) /\ (n \in DOMAIN e1[i] => e1[i][n] = e2[i][n])
  <2>1. CASE s.declares
    <3> DEFINE what == After(s, Nothing, f)
    <3>1. e2 = Introduce(e1, name, what)
      BY <2>1
    <3> HIDE DEF what, e2
    <3>2. /\ Scoped(e2) /\ Len(e2) = Len(e1)
          /\ \A i \in 1 .. Len(e1) : i # Len(e1) => e2[i] = e1[i]
          /\ DOMAIN e2[Len(e1)] = DOMAIN e1[Len(e1)] \cup {name}
          /\ \A n \in DOMAIN e1[Len(e1)] : n # name => e2[Len(e1)][n] = e1[Len(e1)][n]
      BY <1>2, <1>6, <2>1, <3>1, IntroduceDoes
    <3> QED BY <3>2
  <2>2. CASE ~s.declares /\ s.assigns /\ name # NoText
    <3> DEFINE what == After(s, f[name], f)
    <3>1. e2 = Bind(e1, name, what)
      BY <2>2
    <3> HIDE DEF what, e2
    <3>2. /\ Scoped(e2) /\ Len(e2) = Len(e1)
          /\ \A i \in 1 .. Len(e1) : i # Scope(e1, name) => e2[i] = e1[i]
          /\ \A i \in 1 .. Len(e1) : DOMAIN e2[i] = DOMAIN e1[i]
          /\ \A n \in DOMAIN e1[Scope(e1, name)] : n # name => e2[Scope(e1, name)][n] = e1[Scope(e1, name)][n]
      BY <1>2, <1>6, <2>2, <3>1, BindDoes
    <3> QED BY <3>2
  <2>3. CASE ~s.declares /\ ~(s.assigns /\ name # NoText)
    <3>1. e2 = e1
      BY <2>3
    <3> HIDE DEF e2
    <3> QED BY <1>6, <3>1
  <2> QED BY <1>2, <2>1, <2>2, <2>3
<1>13. /\ (\E S : t3.scopes \in Seq(S)) /\ Len(t3.scopes) = Len(e1)
       /\ \A n \in Locals : n # name =>
            \A i \in 1 .. Len(e1) : /\ n \in DOMAIN sc[i] <=> n \in DOMAIN t3.scopes[i]
                                    /\ n \in DOMAIN sc[i] => sc[i][n] = t3.scopes[i][n]
  <2>1. CASE name # NoText /\ LooksDeclared(s)
    <3> DEFINE s3 == Stacked(facts, sc, name)
    <3>1. /\ (\E S : s3 \in Seq(S)) /\ Len(s3) = Len(sc)
          /\ \A i \in 1 .. Len(sc) : i # Len(sc) => s3[i] = sc[i]
          /\ DOMAIN s3[Len(sc)] = DOMAIN sc[Len(sc)] \cup {name}
          /\ \A n \in DOMAIN sc[Len(sc)] : s3[Len(sc)][n] = sc[Len(sc)][n]
      <4>1. Len(sc) \in Nat \ {0}
        BY <1>6
      <4>2. Stacks(facts, sc, name)
        BY <1>6, <4>1, DeclareDoes
      <4> QED BY <4>2 DEF Stacks
    <3>2. t3.scopes = s3
      BY <1>7, <2>1
    <3> HIDE DEF s3
    <3> QED BY <1>6, <3>1, <3>2
  <2>2. CASE ~(name # NoText /\ LooksDeclared(s))
    <3>1. t3.scopes = sc
      BY <1>7, <2>2
    <3> QED BY <1>6, <3>1
  <2> QED BY <2>1, <2>2
<1>14. Shaped(t3.facts, t3.scopes, e2)
  BY <1>7, <1>12, <1>13 DEF Shaped
<1>15. ASSUME NEW n \in Locals, n \notin strayed' PROVE Knows(n, t3.facts, t3.scopes, e2)
  <2>0. n \notin strayed /\ Knows(n, facts, sc, e1) /\ ~(n = name /\ Strays(s))
    BY <1>1, <1>4, <1>15
  <2>1. CASE n # name
    <3>1. t3.facts[n] = facts[n]
      BY <1>7, <2>1
    <3> HIDE DEF e2
    <3> QED BY <1>6, <1>12, <1>13, <2>0, <2>1, <3>1, KnowsTheSame
  <2>2. CASE n = name
    <3>1. name # NoText /\ name \in Locals /\ name \notin strayed /\ ~Strays(s) /\ Knows(name, facts, sc, e1)
      BY <1>2, <2>0, <2>2
    <3>2. /\ s.declares => After(s, facts[name], facts) = After(s, Nothing, facts)
          /\ LooksDeclared(s) => s.declares
          /\ s.assigns /\ ~LooksDeclared(s) => ~Unseen(name)
          /\ s.assigns => Mentioned(s.value) \cap strayed = {}
      BY <1>2, <3>1 DEF Strays
    <3>3. s.type \in Typed => name \notin Touched(s)
      BY <1>2, <3>2 DEF LooksDeclared
    <3>4. \A known : /\ After(s, known, t2.facts) = After(s, known, facts)
                     /\ After(s, known, facts) = After(s, known, f)
      BY <1>11, <3>1, <3>2, <3>3
    <3>5. t3.facts[name] = After(s, facts[name], facts)
      BY <1>7, <3>1, <3>4
    <3>6. CASE LooksDeclared(s)
      <4> DEFINE what == After(s, Nothing, f)
      <4>1. s.declares /\ t3.facts[name] = what
        BY <3>2, <3>4, <3>5, <3>6
      <4>2. e2 = Introduce(e1, name, what) /\ t3.scopes = Stacked(facts, sc, name)
        BY <1>7, <3>1, <3>6, <4>1
      <4> HIDE DEF what, e2
      <4> QED BY <1>4, <2>2, <3>1, <4>1, <4>2, HideKnows
    <3>7. CASE ~LooksDeclared(s) /\ s.declares
      <4>1. ~s.assigns /\ s.type \notin Typed
        BY <1>2, <3>7 DEF LooksDeclared
      <4>2. \A known : After(s, known, facts) = known /\ After(s, known, f) = known
        BY <4>1 DEF After
      <4>3. facts[name] = Nothing /\ t3.facts[name] = facts[name]
        BY <3>2, <3>5, <3>7, <4>2
      <4>4. e2 = Introduce(e1, name, facts[name]) /\ t3.scopes = sc
        BY <1>7, <3>7, <4>2, <4>3
      <4> HIDE DEF e2
      <4>5. Knows(name, facts, sc, e2)
        BY <1>4, <3>1, <4>4, UnseenKnows
      <4>6. t3.facts = facts
        BY <1>6, <1>7, <4>3 DEF IsTable
      <4> QED BY <2>2, <4>4, <4>5, <4>6
    <3>8. CASE ~LooksDeclared(s) /\ ~s.declares /\ s.assigns
      <4> DEFINE what == After(s, f[name], f)
      <4>1. facts[name] = f[name]
        BY <1>8, <3>1
      <4>2. t3.facts[name] = what
        BY <3>4, <3>5, <4>1
      <4>3. e2 = Bind(e1, name, what) /\ t3.scopes = sc
        BY <1>7, <3>1, <3>8
      <4>4. Scope(e1, name) > 1 => name \in DOMAIN sc[Scope(e1, name)]
        BY <1>5, <3>1, <3>2, <3>8
      <4> HIDE DEF what, e2
      <4> QED BY <1>4, <2>2, <3>1, <4>2, <4>3, <4>4, BindKnows
    <3>9. CASE ~LooksDeclared(s) /\ ~s.declares /\ ~s.assigns
      <4>1. s.type \notin Typed /\ After(s, facts[name], facts) = facts[name]
        BY <3>9 DEF LooksDeclared, After
      <4>2. e2 = e1 /\ t3.scopes = sc
        BY <1>7, <3>9
      <4>3. t3.facts = facts
        BY <1>6, <1>7, <3>5, <4>1 DEF IsTable
      <4> HIDE DEF e2
      <4> QED BY <2>2, <3>1, <4>2, <4>3
    <3> QED BY <1>2, <3>6, <3>7, <3>8, <3>9
  <2> QED BY <2>1, <2>2
<1> HIDE DEF e2
<1>16. Shaped(facts', scopes', env') /\ \A n \in Locals : n \notin strayed' => Knows(n, facts', scopes', env')
  <2>1. CASE s.boundary = "}" /\ Len(e2) > 1
    <3>1. t4 = Pop([facts |-> t3.facts, scopes |-> t3.scopes]) /\ env' = SubSeq(e2, 1, Len(e2) - 1)
      BY <1>1, <1>7, <2>1
    <3> HIDE DEF t4
    <3> QED BY <1>1, <1>14, <1>15, <2>1, <3>1, PopKeeps
  <2>2. CASE ~(s.boundary = "}" /\ Len(e2) > 1)
    <3>1. env' = e2
      BY <1>1, <2>2
    <3>2. t4 = t3
      <4>1. CASE s.boundary = "}"
        <5>1. Len(t3.scopes) = 1
          <6> DEFINE k == Len(e2)
          <6>1. k \in Nat \ {0} /\ ~(k > 1) /\ Len(t3.scopes) = k
            BY <1>6, <1>12, <1>13, <2>2, <4>1
          <6> HIDE DEF k
          <6> QED BY <6>1
        <5> QED BY <4>1, <5>1 DEF Pop
      <4>2. CASE s.boundary # "}"
        BY <4>2
      <4> QED BY <4>1, <4>2
    <3> HIDE DEF t4
    <3> QED BY <1>1, <1>14, <1>15, <3>1, <3>2
  <2> QED BY <2>1, <2>2
<1> QED BY <1>10, <1>16 DEF JavaInv

LEMMA JavaStarts == JavaInit => JavaInv
<1> SUFFICES ASSUME JavaInit PROVE JavaInv
  OBVIOUS
<1>1. facts = AtFirst /\ scopes = <<NoNames>> /\ env = <<AtFirst>> /\ due = {} /\ hits = {}
  BY DEF JavaInit
<1>2. IsTable(AtFirst) /\ DOMAIN AtFirst = Locals
  BY DEF AtFirst, IsTable
<1> DEFINE e == <<AtFirst>>
           sc == <<NoNames>>
<1>3. /\ e \in Seq({AtFirst}) /\ Len(e) = 1 /\ e[1] = AtFirst
      /\ sc \in Seq({NoNames}) /\ Len(sc) = 1
  OBVIOUS
<1> HIDE DEF e, sc
<1>4. Scoped(e)
  <2>1. Len(e) \in Nat \ {0} /\ DOMAIN e[1] = Locals
    BY <1>2, <1>3
  <2>2. \A i \in 1 .. Len(e) : i = 1
    BY <1>3
  <2> QED BY <1>3, <2>1, <2>2 DEF Scoped
<1>5. \A n \in Locals : Means(e, Len(e), n, AtFirst[n])
  <2> SUFFICES ASSUME NEW n \in Locals PROVE Means(e, 1, n, AtFirst[n])
    BY <1>3
  <2>1. 1 \in 1 .. 1 /\ n \in DOMAIN e[1] /\ AtFirst[n] = e[1][n] /\ \A j \in 1 + 1 .. 1 : n \notin DOMAIN e[j]
    BY <1>2, <1>3
  <2> QED BY <2>1 DEF Means
<1>6. \A i \in 2 .. Len(e) : FALSE
  BY <1>3
<1>7. Shaped(AtFirst, sc, e)
  BY <1>2, <1>3, <1>4 DEF Shaped
<1>8. \A n \in Locals : Knows(n, AtFirst, sc, e)
  BY <1>5, <1>6 DEF Knows
<1> QED BY <1>1, <1>7, <1>8 DEF JavaInv, e, sc

\* newAnalyzerState to Analyze's last statement: of every name that was not taken for another
\* the flat table has what its innermost declaration gave it, whether the analyzer saw that
\* or not, and every open scope what the names it declares meant outside of it; what was
\* found has all that this makes due.
THEOREM SourceKeepsScopes == JavaSpec => []JavaInv
<1>1. JavaInv /\ [JavaNext]_javaVars => JavaInv'
  <2>1. JavaInv /\ JavaNext => JavaInv'
    BY ReadKeeps DEF JavaNext
  <2>2. JavaInv /\ UNCHANGED javaVars => JavaInv'
    BY DEF javaVars, JavaInv, Shaped, Knows
  <2> QED BY <2>1, <2>2
<1> QED BY <1>1, JavaStarts, PTL DEF JavaSpec

\* More that is found takes no finding away, and lowers no score.
LEMMA MoreFoundNeverLowers ==
  ASSUME NEW less, NEW more, less \subseteq more, NEW owed \in Findings(less)
  PROVE  \E found \in Findings(more) : found[2] >= owed[2]
<1>1. CASE "requestExec" \in less /\ owed = <<"request-exec", 85>>
  <2>1. <<"request-exec", 85>> \in Findings(more)
    BY <1>1 DEF Findings
  <2> QED BY <1>1, <2>1
<1>2. CASE "reverseShell" \in less /\ owed = <<"reverse-shell-literal", 40>>
  <2>1. <<"request-exec", 85>> \in Findings(more) \/ <<"reverse-shell-literal", 40>> \in Findings(more)
    BY <1>2 DEF Findings
  <2>2. 85 >= 40 /\ 40 >= 40
    OBVIOUS
  <2> QED BY <1>2, <2>1, <2>2
<1>3. CASE "fileDrop" \in less /\ owed = <<"file-drop-on-request", 85>>
  <2>1. <<"file-drop-on-request", 85>> \in Findings(more)
    BY <1>3 DEF Findings
  <2> QED BY <1>3, <2>1
<1>4. CASE "classloadInput" \in less /\ owed = <<"dynamic-classload", 85>>
  <2>1. <<"dynamic-classload", 85>> \in Findings(more)
    BY <1>4 DEF Findings
  <2> QED BY <1>4, <2>1
<1>5. CASE {"classload", "encoded"} \subseteq less /\ owed = <<"dynamic-classload", 75>>
  <2>1. <<"dynamic-classload", 85>> \in Findings(more) \/ <<"dynamic-classload", 75>> \in Findings(more)
    BY <1>5 DEF Findings
  <2> QED BY <1>5, <2>1
<1>6. CASE "scriptEval" \in less /\ owed = <<"scriptengine-eval", 75>>
  <2>1. <<"scriptengine-eval", 75>> \in Findings(more)
    BY <1>6 DEF Findings
  <2> QED BY <1>6, <2>1
<1>7. CASE "reflectionInput" \in less /\ owed = <<"reflection-invoke", 75>>
  <2>1. <<"reflection-invoke", 75>> \in Findings(more)
    BY <1>7 DEF Findings
  <2> QED BY <1>7, <2>1
<1>8. CASE /\ less \cap {"deserialization", "jndiLookup"} # {} /\ (jsp \/ "requestInput" \in less)
           /\ owed = <<"deserialization-jndi", 60>>
  <2>1. more \cap {"deserialization", "jndiLookup"} # {} /\ (jsp \/ "requestInput" \in more)
    BY <1>8
  <2>2. <<"deserialization-jndi", 60>> \in Findings(more)
    BY <2>1 DEF Findings
  <2> QED BY <1>8, <2>2
<1>9. CASE jsp /\ "hookRegistration" \in less /\ owed = <<"servlet-hook-registration", 60>>
  <2>1. <<"servlet-hook-registration", 60>> \in Findings(more)
    BY <1>9 DEF Findings
  <2> QED BY <1>9, <2>1
<1> QED BY <1>1, <1>2, <1>3, <1>4, <1>5, <1>6, <1>7, <1>8, <1>9 DEF Findings

\* Whatever the blocks, the declarations and the assignments, no name is tainted, or clean,
\* because of another of that name in a block that is closed, unless the analyzer has taken
\* one for the other; a finding that the names' meanings make due is made.
THEOREM FactsAreLexical == JavaSpec => []ScopesAreLexical
<1>1. JavaInv => ScopesAreLexical
  BY MeaningIsKnown, MoreFoundNeverLowers DEF JavaInv, ScopesAreLexical
<1> QED BY <1>1, SourceKeepsScopes, PTL

-----------------------------------------------------------------------------
(* Reading archives.                                                        *)

\* Offsets of an accepted archive are numbers, and an entry is before the directory.
LEMMA SpansAreNumbers ==
  ASSUME NEW a \in Archives, ValidateZIPLocalHeaders(a), NEW i \in DOMAIN a.centrals
  PROVE  LET c == a.centrals[i]
         IN  /\ Start(a, c) \in Nat /\ Start(a, c) <= a.directoryAt
             /\ DataEnd(a, c) \in Nat /\ Start(a, c) <= DataEnd(a, c)
             /\ SpanEnd(a, c) \in Nat /\ Start(a, c) <= SpanEnd(a, c)
<1> DEFINE c == a.centrals[i]
<1>1. LocalOK(a, c)
  BY DEF ValidateZIPLocalHeaders
<1>2. a.directoryAt \in Nat /\ HeaderLen \in Nat /\ c.file.csize \in Nat
  BY ArchivesAssumption
<1>3. Start(a, c) \in DOMAIN a.locals /\ Start(a, c) + HeaderLen <= a.directoryAt
  BY <1>1 DEF LocalOK
<1>4. Start(a, c) \in Nat /\ Local(a, c).length \in Nat
  BY <1>3, ArchivesAssumption DEF Local
<1>5. DataEnd(a, c) = Start(a, c) + Local(a, c).length + c.file.csize
  BY DEF DataEnd, Data
<1>6. \A signed : DescriptorLen(c, signed) \in Nat
  BY DEF DescriptorLen
<1>7. SpanEnd(a, c) \in Nat /\ DataEnd(a, c) <= SpanEnd(a, c)
  BY <1>2, <1>4, <1>5, <1>6 DEF SpanEnd
<1> QED BY <1>2, <1>3, <1>4, <1>5, <1>7

\* The boundary of an entry is the directory or the next entry, and nothing starts
\* between the entry and its boundary.
LEMMA BoundaryIsNext ==
  ASSUME NEW a \in Archives, ValidateZIPLocalHeaders(a), NEW i \in DOMAIN a.centrals
  PROVE  LET c == a.centrals[i]
         IN  /\ Boundary(a, c) \in Nat /\ Boundary(a, c) <= a.directoryAt
             /\ \A j \in DOMAIN a.centrals :
                  Start(a, a.centrals[j]) > Start(a, c) => Boundary(a, c) <= Start(a, a.centrals[j])
<1> DEFINE c == a.centrals[i]
           later == {s \in StartsOf(a) : s > Start(a, c)}
<1>1. \A s \in StartsOf(a) : s \in Nat /\ s <= a.directoryAt
  BY SpansAreNumbers DEF StartsOf
<1>2. \A j \in DOMAIN a.centrals : Start(a, a.centrals[j]) > Start(a, c) => Start(a, a.centrals[j]) \in later
  BY DEF StartsOf
<1>3. CASE later = {}
  BY <1>2, <1>3, ArchivesAssumption DEF Boundary
<1>4. CASE later # {}
  <2>1. \E s \in later : \A t \in later : s <= t
    BY <1>1, <1>4, LeastNumber
  <2>2. Boundary(a, c) = CHOOSE s \in later : \A t \in later : s <= t
    BY <1>4 DEF Boundary
  <2>3. Boundary(a, c) \in later /\ \A t \in later : Boundary(a, c) <= t
    BY <2>1, <2>2
  <2> QED BY <1>1, <1>2, <2>3
<1> QED BY <1>3, <1>4

\* What the loop over the spans says of two entries: the earlier one ends, its
\* descriptor too, before the later one begins.
LEMMA SpansDoNotOverlap ==
  ASSUME NEW a \in Archives, ValidateZIPLocalHeaders(a), NEW i \in DOMAIN a.centrals
  PROVE  /\ "descriptor" \in a.centrals[i].flags =>
              DescriptorOK(a, a.centrals[i], Boundary(a, a.centrals[i]))
         /\ SpanEnd(a, a.centrals[i]) <= a.directoryAt
         /\ \A j \in DOMAIN a.centrals \ {i} :
              \/ SpanEnd(a, a.centrals[i]) <= Start(a, a.centrals[j])
              \/ SpanEnd(a, a.centrals[j]) <= Start(a, a.centrals[i])
<1>1. \A k \in DOMAIN a.centrals :
        LET c == a.centrals[k] IN Fits(a, c, Boundary(a, c)) /\ SpanEnd(a, c) <= Boundary(a, c)
  BY DEF ValidateZIPLocalHeaders, Fits, SpanEnd, DescriptorOK
<1>2. a.directoryAt \in Nat
  BY ArchivesAssumption
<1>3. SpanEnd(a, a.centrals[i]) <= a.directoryAt
  BY <1>1, <1>2, BoundaryIsNext, SpansAreNumbers
<1>4. ASSUME NEW k \in DOMAIN a.centrals, NEW l \in DOMAIN a.centrals,
             Start(a, a.centrals[k]) < Start(a, a.centrals[l])
      PROVE  SpanEnd(a, a.centrals[k]) <= Start(a, a.centrals[l])
  <2>1. Boundary(a, a.centrals[k]) <= Start(a, a.centrals[l])
    BY <1>4, BoundaryIsNext, SpansAreNumbers
  <2> QED BY <1>1, <2>1, BoundaryIsNext, SpansAreNumbers
<1>5. ASSUME NEW j \in DOMAIN a.centrals \ {i}
      PROVE  \/ SpanEnd(a, a.centrals[i]) <= Start(a, a.centrals[j])
             \/ SpanEnd(a, a.centrals[j]) <= Start(a, a.centrals[i])
  <2>1. Start(a, a.centrals[i]) # Start(a, a.centrals[j])
    BY DEF ValidateZIPLocalHeaders
  <2>2. \/ Start(a, a.centrals[i]) < Start(a, a.centrals[j])
        \/ Start(a, a.centrals[j]) < Start(a, a.centrals[i])
    BY <2>1, SpansAreNumbers
  <2> QED BY <1>4, <2>2
<1> QED BY <1>1, <1>3, <1>5 DEF Fits

LEMMA TwoTogether == ASSUME NEW x, NEW y PROVE <<x>> \o <<y>> = <<x, y>>
<1> DEFINE S == {x, y}
           both == <<x>> \o <<y>>
<1>1. <<x>> \in Seq(S) /\ <<y>> \in Seq(S) /\ <<x, y>> \in Seq(S)
  OBVIOUS
<1>2. Len(<<x>>) = 1 /\ Len(<<y>>) = 1 /\ <<x>>[1] = x /\ <<y>>[1] = y
  OBVIOUS
<1>3. both \in Seq(S) /\ Len(both) = 2 /\ both[1] = x /\ both[2] = y
  BY <1>1, <1>2, ConcatProperties
<1>4. Len(<<x, y>>) = 2 /\ <<x, y>>[1] = x /\ <<x, y>>[2] = y
  OBVIOUS
<1> HIDE DEF both
<1>5. \A i \in 1 .. Len(both) : both[i] = <<x, y>>[i]
  <2>1. \A i \in 1 .. 2 : i = 1 \/ i = 2
    OBVIOUS
  <2> QED BY <2>1, <1>3, <1>4
<1>6. both = <<x, y>>
  BY <1>1, <1>3, <1>4, <1>5, SeqEqual
<1> QED BY <1>6 DEF both

\* Where the header has a full field its extra has the size, and what is full in both
\* has them in their order.
LEMMA ExtraHasTheSizes ==
  ASSUME NEW l, NEW c, LocalSizesOK(l, c)
  PROVE  /\ l.usize = Full => l.extra[1] = c.file.usize
         /\ l.csize = Full => l.extra[Len(l.extra)] = c.file.csize
<1>1. CASE l.usize = Full /\ l.csize = Full
  <2>1. <<c.file.usize>> \o <<c.file.csize>> = <<c.file.usize, c.file.csize>>
    BY TwoTogether
  <2>2. l.extra = <<c.file.usize, c.file.csize>>
    BY <1>1, <2>1 DEF LocalSizesOK
  <2> QED BY <2>2
<1>2. CASE l.usize = Full /\ l.csize # Full
  <2>1. <<c.file.usize>> \o <<>> = <<c.file.usize>>
    OBVIOUS
  <2>2. l.extra = <<c.file.usize>>
    BY <1>2, <2>1 DEF LocalSizesOK
  <2> QED BY <1>2, <2>2
<1>3. CASE l.usize # Full /\ l.csize = Full
  <2>1. <<>> \o <<c.file.csize>> = <<c.file.csize>>
    OBVIOUS
  <2>2. l.extra = <<c.file.csize>>
    BY <1>3, <2>1 DEF LocalSizesOK
  <2> QED BY <1>3, <2>2
<1> QED BY <1>1, <1>2, <1>3

ZipInv == /\ archiveFile \in Archives
          /\ zipStage \notin {"validate", "refused"} => ValidateZIPLocalHeaders(archiveFile)
          /\ current = [entry |-> current.entry, out |-> current.out, in |-> current.in]
          /\ \A m \in contents : /\ m.out = archiveFile.centrals[m.entry].file.usize
                                /\ m.in = archiveFile.centrals[m.entry].file.csize

LEMMA ZipStep == ASSUME ZipInv, [ZipNext]_zipVars PROVE ZipInv'
<1> USE DEF ZipInv
<1>1. CASE Validate
  BY <1>1 DEF Validate
<1>2. CASE Open
  <2>1. zipStage = "read" /\ archiveFile' = archiveFile /\ contents' = contents
    BY <1>2 DEF Open
  <2>2. current' = current \/ current' = [entry |-> Head(queue), out |-> 0, in |-> 0]
    BY <1>2 DEF Open
  <2> QED BY <2>1, <2>2
<1>3. CASE EndOfEntry
  <2> DEFINE in == Entry.file.csize
             m == [current EXCEPT !.in = in]
  <2>1. zipStage = "entry" /\ archiveFile' = archiveFile /\ current' = NoEntry
    BY <1>3 DEF EndOfEntry, Dropped
  <2>2. contents' = contents \/ (current.out = Entry.file.usize /\ contents' = contents \cup {m})
    BY <1>3 DEF EndOfEntry
  <2>3. m.out = current.out /\ m.in = in /\ m.entry = current.entry
    OBVIOUS
  <2>4. \A r \in contents' : /\ r.out = archiveFile.centrals[r.entry].file.usize
                            /\ r.in = archiveFile.centrals[r.entry].file.csize
    BY <2>2, <2>3 DEF Entry
  <2>5. current' = [entry |-> current'.entry, out |-> current'.out, in |-> current'.in]
    BY <2>1 DEF NoEntry
  <2> QED BY <2>1, <2>4, <2>5
<1>4. CASE NoMore
  BY <1>4 DEF NoMore
<1>5. CASE \E n \in 1 .. ReadLimits.chunk, k \in 0 .. ReadLimits.chunk : Chunk(n, k)
  <2>1. PICK n \in 1 .. ReadLimits.chunk, k \in 0 .. ReadLimits.chunk : Chunk(n, k)
    BY <1>5
  <2>2. zipStage = "entry" /\ archiveFile' = archiveFile /\ contents' = contents
    BY <2>1 DEF Chunk
  <2>3. \/ current' = NoEntry \/ current' = [current EXCEPT !.out = current.out + n, !.in = current.in + k]
    BY <2>1 DEF Chunk, Dropped
  <2>4. current' = [entry |-> current'.entry, out |-> current'.out, in |-> current'.in]
    <3>1. CASE current' = NoEntry
      BY <3>1 DEF NoEntry
    <3>2. CASE current' = [current EXCEPT !.out = current.out + n, !.in = current.in + k]
      <4>1. current' = [[current EXCEPT !.out = current.out + n] EXCEPT !.in = current.in + k]
        BY <3>2, Zenon
      <4> QED BY <4>1
    <3> QED BY <2>3, <3>1, <3>2
  <2> QED BY <2>2, <2>4
<1>6. CASE UNCHANGED zipVars
  BY <1>6 DEF zipVars
<1> QED BY <1>1, <1>2, <1>3, <1>4, <1>5, <1>6 DEF ZipNext

\* A descriptor that is accepted has one reading that has the entry's checksum, whether or
\* not it begins with the signature.
LEMMA DescriptorHasOneReading ==
  ASSUME NEW a, NEW c, NEW boundary, DescriptorOK(a, c, boundary),
         NEW signed \in Readings(a, c, DataEnd(a, c)),
         ReadAs(c, a.words[DataEnd(a, c)], signed).crc = c.crc
  PROVE  signed = Signed(a, c)
<1> DEFINE words == a.words[DataEnd(a, c)]
<1>1. signed \in BOOLEAN /\ (signed => words[1] = Signature) /\ DataEnd(a, c) \in DOMAIN a.words
  BY DEF Readings
<1>2. CASE signed = TRUE
  BY <1>1, <1>2 DEF Signed
<1>3. CASE signed = FALSE
  <2>1. ReadAs(c, words, FALSE).crc = words[1]
    BY DEF ReadAs
  <2>2. words[1] = c.crc
    BY <1>3, <2>1
  <2>3. ~(words[1] = Signature)
    BY <1>1, <2>2 DEF DescriptorOK, Signed
  <2> QED BY <1>3, <2>3 DEF Signed
<1> QED BY <1>1, <1>2, <1>3

LEMMA AcceptedViewsAgree == ASSUME ZipInv PROVE ViewsAgree
<1> DEFINE a == archiveFile
           inHeader(c, field) ==
             LET l == Local(a, c)
             IN  CASE l[field] # Full -> l[field]
                   [] field = "usize" /\ l[field] = Full -> l.extra[1]
                   [] OTHER -> l.extra[Len(l.extra)]
           inDescriptor(c) ==
             LET behind == DataEnd(a, c)
                 meant == {signed \in Readings(a, c, behind) : ReadAs(c, a.words[behind], signed).crc = c.crc}
             IN  /\ meant # {}
                 /\ \A signed \in meant : /\ ReadAs(c, a.words[behind], signed).csize = c.file.csize
                                          /\ ReadAs(c, a.words[behind], signed).usize = c.file.usize
                                          /\ behind + DescriptorLen(c, signed) = SpanEnd(a, c)
           story(i) ==
             LET c == a.centrals[i]
             IN  /\ SpanEnd(a, c) <= a.directoryAt
                 /\ \A j \in DOMAIN a.centrals \ {i} :
                      SpanEnd(a, c) <= Start(a, a.centrals[j]) \/ SpanEnd(a, a.centrals[j]) <= Start(a, c)
                 /\ Local(a, c).name = c.name /\ Local(a, c).method = c.method /\ c.file.data = Data(a, c)
                 /\ IF "descriptor" \in Local(a, c).flags THEN inDescriptor(c)
                    ELSE inHeader(c, "csize") = c.file.csize /\ inHeader(c, "usize") = c.file.usize
<1> SUFFICES ASSUME zipStage \notin {"validate", "refused"}, NEW i \in DOMAIN a.centrals
             PROVE  story(i)
  BY DEF ZipInv, ViewsAgree
<1> DEFINE c == a.centrals[i]
           l == Local(a, c)
<1>1. a \in Archives /\ ValidateZIPLocalHeaders(a)
  BY DEF ZipInv
<1>2. /\ "descriptor" \in c.flags => DescriptorOK(a, c, Boundary(a, c))
      /\ SpanEnd(a, c) <= a.directoryAt
      /\ \A j \in DOMAIN a.centrals \ {i} :
           SpanEnd(a, c) <= Start(a, a.centrals[j]) \/ SpanEnd(a, a.centrals[j]) <= Start(a, c)
  BY <1>1, SpansDoNotOverlap
<1>3. LocalOK(a, c)
  BY <1>1 DEF ValidateZIPLocalHeaders
<1>4. l.name = c.name /\ l.method = c.method /\ l.flags = c.flags /\ LocalSizesOK(l, c) /\ c.file.data = Data(a, c)
  BY <1>3 DEF LocalOK
<1>5. CASE "descriptor" \in l.flags
  <2> DEFINE behind == DataEnd(a, c)
             signed == Signed(a, c)
             meant == {s \in Readings(a, c, behind) : ReadAs(c, a.words[behind], s).crc = c.crc}
  <2>1. DescriptorOK(a, c, Boundary(a, c))
    BY <1>2, <1>4, <1>5
  <2>2. signed \in Readings(a, c, behind) /\ SaysAsCentral(a, c, behind, signed)
    BY <2>1 DEF DescriptorOK
  <2>3. /\ ReadAs(c, a.words[behind], signed).crc = c.crc
        /\ ReadAs(c, a.words[behind], signed).csize = c.file.csize
        /\ ReadAs(c, a.words[behind], signed).usize = c.file.usize
    BY <2>2 DEF SaysAsCentral
  <2>4. behind + DescriptorLen(c, signed) = SpanEnd(a, c)
    BY <1>4, <1>5 DEF SpanEnd
  <2>5. \A s \in meant : s = signed
    BY <2>1, DescriptorHasOneReading
  <2>6. meant # {}
    BY <2>2, <2>3
  <2> HIDE DEF signed, behind
  <2>7. /\ meant # {}
        /\ \A s \in meant : /\ ReadAs(c, a.words[behind], s).csize = c.file.csize
                           /\ ReadAs(c, a.words[behind], s).usize = c.file.usize
                           /\ behind + DescriptorLen(c, s) = SpanEnd(a, c)
    BY <2>3, <2>4, <2>5, <2>6
  <2>8. inDescriptor(c)
    BY <2>7 DEF behind
  <2> HIDE DEF inDescriptor, inHeader
  <2> QED BY <1>2, <1>4, <1>5, <2>8
<1>6. CASE "descriptor" \notin l.flags
  <2>1. /\ l.csize = Full \/ l.csize = c.file.csize
        /\ l.usize = Full \/ l.usize = c.file.usize
    BY <1>3, <1>6 DEF LocalOK
  <2>2. /\ l.usize = Full => l.extra[1] = c.file.usize
        /\ l.csize = Full => l.extra[Len(l.extra)] = c.file.csize
    BY <1>4, ExtraHasTheSizes
  <2>3. inHeader(c, "csize") = c.file.csize
    BY <2>1, <2>2
  <2>4. inHeader(c, "usize") = c.file.usize
    BY <2>1, <2>2
  <2> HIDE DEF inDescriptor, inHeader
  <2> QED BY <1>2, <1>4, <1>6, <2>3, <2>4
<1> QED BY <1>5, <1>6

\* ValidateZIPLocalHeaders and ReadZIPEntry: of an archive that is accepted, a reader that
\* goes by the central directory and one that goes by the local headers see the same entries,
\* of the same sizes, behind the same bytes, and what the scan reads of one is all of it.
THEOREM ArchiveViewsAgree == ZipSpec => []ViewsAgree
<1>1. ZipInit => ZipInv
  BY DEF ZipInit, ZipInv, NoEntry
<1>2. ZipInv /\ [ZipNext]_zipVars => ZipInv'
  BY ZipStep
<1>3. ZipInv => ViewsAgree
  BY AcceptedViewsAgree
<1> QED BY <1>1, <1>2, <1>3, PTL DEF ZipSpec
=============================================================================
