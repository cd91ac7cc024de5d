--------------------------- MODULE DiskScanProofs ---------------------------
(***************************************************************************)
(* What a disk view that says it ran has examined, and that a file is found *)
(* by what it holds whatever it is called, for every tree, content, set of  *)
(* rules and command, and however much becomes unreadable meanwhile. Then   *)
(* where a scan without a path looks: for every host, configuration, link   *)
(* and table, each proposal is answered and nothing outside is scanned.     *)
(* Then the Java pass: for every tree of artifacts, content and limit, what *)
(* its merged diagnostics leave complete has been examined.                 *)
(***************************************************************************)
EXTENDS DiskProbe, Discovery, JavaArtifacts, NumberLemmas, SequenceTheorems, TLAPS

-----------------------------------------------------------------------------
(* Names and contents.                                                      *)

LEMMA SignsAreSource == ASSUME NEW c, c.matches \subseteq Source PROVE SignsFor(c) \subseteq Source
  BY DEF SignsFor, Source

LEMMA NoSuffixClaimsNothing == Classify(<<>>) = "unknown"
<1>1. Claims(<<>>) = {}
  BY DEF Claims
<1> QED BY <1>1 DEF Classify

\* A rule that is admitted to a file by its name is admitted to one whose name claims
\* nothing, if the content looks like what the first is named for.
LEMMA AdmittedByContent ==
  ASSUME NEW lang \in Languages, NEW n, NEW m, NEW s, NEW signs,
         Classify(n) \in signs, signs \subseteq Source, Classify(m) = "unknown",
         RuleAdmission(lang, n, s) # "refused"
  PROVE  RuleAdmission(lang, m, signs) # "refused"
<1>1. CASE lang = ""
  BY <1>1 DEF RuleAdmission
<1>2. CASE lang # ""
  <2>1. Classify(n) # "unknown"
    BY DEF Source
  <2>2. LangCompatible(lang, Classify(n))
    BY <1>2, <2>1 DEF RuleAdmission
  <2>3. Classify(n) \in DeclaredLangs(lang)
    BY <1>2, <2>2 DEF LangCompatible, DeclaredLangs, Languages, Source
  <2>4. DeclaredLangs(lang) \cap signs # {}
    BY <2>3
  <2> QED BY <1>2, <2>4 DEF RuleAdmission
<1> QED BY <1>1, <1>2

\* A rule is admitted to a file whose name claims a language whatever the content.
LEMMA AdmittedByName ==
  ASSUME NEW lang, NEW n, NEW s, NEW t, Classify(n) # "unknown", RuleAdmission(lang, n, s) # "refused"
  PROVE  RuleAdmission(lang, n, t) # "refused"
  BY DEF RuleAdmission

\* A grammar a file is offered to by its name is one its content is offered to.
LEMMA GrammarByContent ==
  ASSUME NEW c, c.matches \subseteq Source, c.shebang \in {"none", "perl", "python"}, NEW n, NEW m, NEW s,
         Classify(n) \in SignsFor(c), Classify(m) = "unknown",
         Classify(n) = "python" => c.shebang = "python",
         Classify(n) = "perl" => c.shebang # "python",
         NEW g \in Grammars(n, c, s)
  PROVE  g \in Grammars(m, c, SignsFor(c))
<1> DEFINE signs == SignsFor(c)
<1>1. Classify(n) # "unknown" /\ Classify(n) \in signs
  BY SignsAreSource DEF Source
<1>2. n # <<>>
  BY <1>1, NoSuffixClaimsNothing
<1>3. CASE g \in {"php", "shtml"} /\ PassAdmits(n, g, s)
  <2>1. PassAdmits(m, g, signs)
    BY <1>1, <1>3 DEF PassAdmits
  <2> QED BY <1>3, <2>1 DEF Grammars
<1>4. CASE g = "asp" /\ (PassAdmits(n, "asp", s) \/ PassAdmits(n, "aspx", s))
  <2>1. PassAdmits(m, "asp", signs) \/ PassAdmits(m, "aspx", signs)
    BY <1>1, <1>4 DEF PassAdmits
  <2> QED BY <1>4, <2>1 DEF Grammars
<1>5. CASE g = PerlPyGrammar(n, c, s) /\ g # "none"
  <2>1. g = PerlPyLang(n, c)
    BY <1>1, <1>5 DEF PerlPyGrammar
  <2>2. Classify(n) \in {"perl", "python", "cgi"}
    BY <1>1, <1>2, <1>5, <2>1 DEF PerlPyLang
  <2>3. "cgi" \in signs
    BY <1>1, <2>2 DEF SignsFor, Source
  <2>4. g = Interpreter(c)
    BY <1>2, <2>1, <2>2 DEF PerlPyLang, Interpreter
  <2>5. PerlPyLang(m, c) \in {"none", Interpreter(c)}
    BY DEF PerlPyLang, Interpreter
  <2>6. PerlPyGrammar(m, c, signs) = g
    BY <1>5, <2>3, <2>4, <2>5 DEF PerlPyGrammar
  <2> QED BY <1>5, <2>6 DEF Grammars
<1> QED BY <1>3, <1>4, <1>5 DEF Grammars

-----------------------------------------------------------------------------
(* One finding per file and rule.                                           *)

DecodedSet == {decoded[i] : i \in DOMAIN decoded}

\* A finding on a file as it is.
OnTheFile(h) == h = [file |-> h.file, rule |-> h.rule, score |-> h.score, layer |-> 0]

LEMMA FiniteImage ==
  ASSUME NEW S, IsFiniteSet(S), NEW f, DOMAIN f = S PROVE IsFiniteSet({f[x] : x \in S})
<1> DEFINE T == {f[x] : x \in S}
           g == [x \in S |-> f[x]]
<1>1. g \in Surjection(S, T)
  BY DEF Surjection
<1> QED BY <1>1, FS_Surjection

\* Where a finding stands tells two of one file, rule and score apart.
LEMMA PlacesDiffer ==
  ASSUME Len(decoded) \in Nat, DOMAIN decoded = 1 .. Len(decoded),
         \A h \in rawHits \cup taintHits : OnTheFile(h),
         NEW k \in rawHits \cup DecodedSet \cup taintHits, NEW g \in rawHits \cup DecodedSet \cup taintHits,
         g.file = k.file, g.rule = k.rule, g.score = k.score, Place(g) = Place(k)
  PROVE  g = k
<1> DEFINE Where(h) == CHOOSE i \in DOMAIN decoded : decoded[i] = h
<1>1. ASSUME NEW h \in DecodedSet PROVE Where(h) \in 1 .. Len(decoded) /\ decoded[Where(h)] = h
  BY DEF DecodedSet
<1>2. \A h : h \in rawHits => Place(h) = 0
  BY DEF Place
<1>3. \A h : h \notin rawHits /\ h \in DecodedSet => Place(h) = Where(h)
  BY DEF Place, DecodedSet
<1>4. \A h : h \notin rawHits /\ h \notin DecodedSet => Place(h) = Len(decoded) + 1
  BY DEF Place, DecodedSet
<1> HIDE DEF Where
<1>5. ASSUME NEW h \in rawHits \cup DecodedSet \cup taintHits, NEW l \in rawHits \cup DecodedSet \cup taintHits,
             h.file = l.file, h.rule = l.rule, h.score = l.score,
             h \notin DecodedSet \/ h \in rawHits, l \notin DecodedSet \/ l \in rawHits
      PROVE  h = l
  <2>1. OnTheFile(h) /\ OnTheFile(l)
    BY <1>5
  <2> QED BY <1>5, <2>1 DEF OnTheFile
<1>6. CASE k \in rawHits
  <2>1. Place(g) = 0
    BY <1>2, <1>6
  <2>2. g \in rawHits
    BY <1>1, <1>3, <1>4, <2>1
  <2> QED BY <1>5, <1>6, <2>2
<1>7. CASE k \notin rawHits /\ k \in DecodedSet
  <2>1. Place(g) = Where(k) /\ Where(k) \in 1 .. Len(decoded) /\ decoded[Where(k)] = k
    BY <1>1, <1>3, <1>7
  <2>2. g \notin rawHits /\ g \in DecodedSet
    BY <1>2, <1>4, <2>1
  <2> QED BY <1>1, <1>3, <2>1, <2>2
<1>8. CASE k \notin rawHits /\ k \notin DecodedSet
  <2>1. Place(g) = Len(decoded) + 1
    BY <1>4, <1>8
  <2>2. g \notin rawHits /\ g \notin DecodedSet
    BY <1>1, <1>2, <1>3, <2>1
  <2> QED BY <1>5, <1>8, <2>2
<1> QED BY <1>6, <1>7, <1>8

\* Of each file's findings by one rule, one is reported.
LEMMA OneSurvives ==
  ASSUME Len(decoded) \in Nat, DOMAIN decoded = 1 .. Len(decoded),
         \A h \in rawHits \cup taintHits : OnTheFile(h),
         NEW x \in rawHits \cup DecodedSet \cup taintHits,
         NEW scores \in SUBSET Int, IsFiniteSet(scores),
         \A y \in rawHits \cup DecodedSet \cup taintHits : y.file = x.file /\ y.rule = x.rule => y.score \in scores
  PROVE  \E k \in Survivors(rawHits \cup DecodedSet \cup taintHits) : k.file = x.file /\ k.rule = x.rule
<1> DEFINE all == rawHits \cup DecodedSet \cup taintHits
           group == {y \in all : y.file = x.file /\ y.rule = x.rule}
           held == {s \in scores : \E y \in group : y.score = s}
<1>1. \E s \in held : \A n \in held : n <= s
  <2>1. x.score \in held
    OBVIOUS
  <2>2. IsFiniteSet(held)
    BY FS_Subset
  <2> QED BY <2>1, <2>2, HighestNumber
<1>2. PICK top \in held : \A n \in held : n <= top
  BY <1>1
<1> DEFINE best == {y \in group : y.score = top}
           places == {n \in Nat : \E y \in best : Place(y) = n}
<1>3. \A y \in all : Place(y) \in Nat
  <2>1. ASSUME NEW h \in DecodedSet PROVE (CHOOSE i \in DOMAIN decoded : decoded[i] = h) \in 1 .. Len(decoded)
    BY DEF DecodedSet
  <2> QED BY <2>1 DEF Place, DecodedSet
<1>4. PICK first \in places : \A n \in places : first <= n
  <2>1. \E y \in best : Place(y) \in places
    BY <1>2, <1>3
  <2> QED BY <2>1, LeastNumber
<1>5. PICK k \in best : Place(k) = first
  BY <1>4
<1>6. ASSUME NEW g \in all, g.file = k.file, g.rule = k.rule
      PROVE  g.score < k.score \/ (g.score = k.score /\ (g = k \/ Place(k) < Place(g)))
  <2>1. g \in group /\ g.score \in held /\ g.score <= top /\ g.score \in Int /\ top \in Int
    BY <1>2, <1>6
  <2>2. CASE g.score = top
    <3>1. Place(g) \in places /\ first <= Place(g) /\ Place(g) \in Nat /\ first \in Nat
      BY <1>3, <1>4, <2>1, <2>2
    <3>2. Place(g) = Place(k) => g = k
      BY <1>5, <1>6, <2>2, PlacesDiffer
    <3> QED BY <1>5, <2>2, <3>1, <3>2
  <2>3. CASE g.score # top
    BY <1>5, <2>1, <2>3
  <2> QED BY <2>2, <2>3
<1> QED BY <1>5, <1>6 DEF Survivors

-----------------------------------------------------------------------------
(* The inductive invariant.                                                 *)

Ok == stage = "done" /\ diskExit = "ok"
Going == stage # "done" \/ diskExit = "ok"
Steady == Vanished = {} /\ ~cutShort

Listing == {"start", "enumerate"}
Scanning == Listing \cup {"signs", "engine"}
Stages == Scanning \cup {"taint", "java", "mirror", "report", "stuck", "done"}

\* What has been done with a root.
Listed(r) == stage \in Stages \ (Listing \cup {"done"}) \/ Ok \/ (stage = "enumerate" /\ r \notin todo)
Matched(r) == stage \in Stages \ (Scanning \cup {"done"}) \/ Ok \/ (stage = "engine" /\ r \notin todo)
JavaDone(r) == stage \in {"mirror", "report"} \/ Ok \/ (stage = "java" /\ r \notin todo)

DiskTypes ==
  /\ tree \in Trees /\ command \in Commands /\ stage \in Stages
  /\ readable \subseteq {f \in tree : f.readable}
  /\ todo \subseteq command.roots
  /\ stage \in {"signs", "taint"} => todo = command.roots
  /\ skips \in [nonRegular : SUBSET tree, unreadable : SUBSET tree, oversize : SUBSET tree, noDetector : SUBSET tree]
  /\ listed \subseteq {f \in tree : f.kind = "regular" /\ f.readable /\ f.root \in command.roots}
  /\ stage \notin {"start", "done"} \/ Ok => command.usable

\* Every entry of a root that has been listed is in the list or accounted for.
Accounted ==
  \A f \in tree : f.root \in command.roots /\ Listed(f.root) =>
    /\ f.kind \in {"pipe", "linkOut"} => f \in skips.nonRegular
    /\ f.kind = "regular" => f \in listed \cup skips.unreadable
    /\ f.kind = "regular" /\ f.size = "large" /\ Classify(f.name) \in Source => f \in skips.oversize

\* What a content looks like, of a file that opens.
Shown(f) == f.readable /\ f.size = "small"
Settled(f) == IF Shown(f) THEN SignsFor(Text(f)) ELSE {}

\* What the passes find while nothing disturbs them.
RawOf(F) == UNION {Hits(f, f.name, Text(f).hits, Settled(f), 0) : f \in F}
TaintsOf(F) ==
  UNION {{[file |-> f, rule |-> t.rule, score |-> t.score, layer |-> 0] :
            t \in {t \in Text(f).taints : t.grammar \in Grammars(f.name, Text(f), Settled(f))}} :
         f \in {f \in F : Shown(f)}}
JavaSourceOf(f) == Classify(f.name) \in {"jsp", "jvm"} \/ (Unnamed(f) /\ "jsp" \in Settled(f))
JavaOf(F) == {[file |-> f, rule |-> "javadisk", score |-> 85, layer |-> 0] :
                f \in {f \in F : JavaSourceOf(f) /\ Shown(f) /\ Text(f).java}}
LayersOf(f) == UNION {Hits(f, <<MirrorExt(f.name, Settled(f))>>, Text(f).layers[i], {}, i) : i \in DOMAIN Text(f).layers}
ResolvedOf(f) == IF PassAdmits(f.name, "php", Settled(f))
                 THEN Hits(f, <<"php">>, Text(f).resolved, {}, Len(Text(f).layers) + 1) ELSE {}
Decodable == {f \in listed : Shown(f) /\ WebshellLike(f.name, Settled(f))}
DecodedOf == UNION {LayersOf(f) \cup ResolvedOf(f) : f \in Decodable}

InReach == {f \in listed : Matched(f.root) /\ ~f.lineBreak}

Found ==
  /\ \A f \in DOMAIN signed : f \in tree /\ signed[f] = Settled(f)
  /\ rawHits = RawOf(InReach) /\ InReach \subseteq engineSaw
  /\ taintHits \in {{}, TaintsOf(listed)}
  /\ stage \in Scanning \cup {"taint"} => taintHits = {}
  /\ Len(decoded) \in Nat /\ DOMAIN decoded = 1 .. Len(decoded)
  /\ DecodedSet \in {{}, DecodedOf}
  /\ stage \in Stages \ {"report", "done"} => decoded = <<>>
  /\ stage # "stuck" => javaHits = JavaOf({f \in tree : f.root \in command.roots /\ JavaDone(f.root)})

Told ==
  Ok => /\ scanned # {}
        /\ status = "ran" => failedRoots = {} /\ ~(SkipsTotal > 0)
        /\ findings = Survivors(rawHits \cup DecodedSet \cup taintHits) \cup javaHits

DiskInv == DiskTypes /\ Accounted /\ (Going /\ Steady => Found) /\ Told

-----------------------------------------------------------------------------
(* What the invariant says of a view that is done.                          *)

LEMMA NothingVanished ==
  ASSUME DiskTypes, Vanished = {}, NEW f \in tree
  PROVE  (f \in readable <=> f.readable) /\ (Readable(f) <=> Shown(f)) /\ SignsNow(f) = Settled(f)
<1>1. f \in readable <=> f.readable
  BY DEF DiskTypes, Vanished
<1> QED BY <1>1 DEF Readable, Shown, SignsNow, Settled

LEMMA NothingSkipped ==
  ASSUME DiskTypes, ~(SkipsTotal > 0)
  PROVE  skips.nonRegular = {} /\ skips.unreadable = {} /\ skips.oversize = {} /\ skips.noDetector = {}
<1>1. IsFiniteSet(tree)
  BY TreesAssumption DEF DiskTypes
<1>2. ASSUME NEW S \in SUBSET tree PROVE IsFiniteSet(S) /\ Cardinality(S) \in Nat /\ (Cardinality(S) = 0 => S = {})
  BY <1>1, FS_Subset, FS_CardinalityType, FS_EmptySet
<1>3. /\ skips.nonRegular \in SUBSET tree /\ skips.unreadable \in SUBSET tree
      /\ skips.oversize \in SUBSET tree /\ skips.noDetector \in SUBSET tree
  BY DEF DiskTypes
<1> DEFINE a == Cardinality(skips.nonRegular)
           b == Cardinality(skips.unreadable)
           c == Cardinality(skips.oversize)
           d == Cardinality(skips.noDetector)
<1>4. a \in Nat /\ b \in Nat /\ c \in Nat /\ d \in Nat /\ ~(a + b + c + d > 0)
  BY <1>2, <1>3 DEF SkipsTotal
<1> HIDE DEF a, b, c, d
<1>5. a = 0 /\ b = 0 /\ c = 0 /\ d = 0
  BY <1>4
<1> QED BY <1>2, <1>3, <1>5 DEF a, b, c, d

LEMMA HonestWhenDone == ASSUME DiskInv PROVE DiskIsHonest
<1> SUFFICES ASSUME Ok
             PROVE  /\ scanned # {} /\ command.usable
                    /\ (status = "ran" /\ Vanished = {} /\ ~cutShort) =>
                         \A f \in tree : f.root \in command.roots /\ ~f.lineBreak =>
                           f.kind = "linkIn" \/ (f \in engineSaw /\ f \in listed /\ (Classify(f.name) \in Source => Readable(f)))
  BY DEF DiskIsHonest, Ok
<1>1. scanned # {} /\ command.usable
  BY DEF DiskInv, Told, DiskTypes
<1>2. ASSUME status = "ran", Vanished = {}, ~cutShort, NEW f \in tree, f.root \in command.roots, ~f.lineBreak, f.kind # "linkIn"
      PROVE  f \in engineSaw /\ f \in listed /\ (Classify(f.name) \in Source => Readable(f))
  <2>1. skips.nonRegular = {} /\ skips.unreadable = {} /\ skips.oversize = {}
    BY <1>2, NothingSkipped DEF DiskInv, Told
  <2>2. Listed(f.root) /\ Matched(f.root)
    BY DEF Listed, Matched
  <2>3. f.kind \in {"regular", "pipe", "linkIn", "linkOut"} /\ f.size \in {"small", "large"}
    BY TreesAssumption DEF DiskInv, DiskTypes
  <2>4. f.kind = "regular" /\ f \in listed /\ (Classify(f.name) \in Source => f.size = "small")
    BY <1>2, <2>1, <2>2, <2>3 DEF DiskInv, Accounted
  <2>5. f \in readable
    BY <1>2, <2>4, NothingVanished DEF DiskInv, DiskTypes
  <2>6. f \in engineSaw
    BY <1>2, <2>2, <2>4 DEF DiskInv, Found, InReach, Going, Steady, Ok
  <2> QED BY <2>4, <2>5, <2>6 DEF Readable
<1> QED BY <1>1, <1>2

LEMMA TextIsSound ==
  ASSUME NEW t \in Trees, NEW f \in t
  PROVE  /\ Text(f).matches \subseteq Source /\ Text(f).shebang \in {"none", "perl", "python"}
         /\ IsFiniteSet(Text(f).taints)
         /\ \A s \in Text(f).taints : s.score \in Int
         /\ Text(f).hits \subseteq DOMAIN Rules /\ Text(f).resolved \subseteq DOMAIN Rules
         /\ IsFiniteSet(Text(f).hits) /\ IsFiniteSet(Text(f).resolved)
         /\ Len(Text(f).layers) \in Nat /\ DOMAIN Text(f).layers = 1 .. Len(Text(f).layers)
         /\ \A i \in DOMAIN Text(f).layers :
              i \in Nat /\ i > 0 /\ Text(f).layers[i] \subseteq DOMAIN Rules /\ IsFiniteSet(Text(f).layers[i])
<1> DEFINE c == Text(f)
<1>1. /\ c.matches \subseteq Source /\ c.shebang \in {"none", "perl", "python"} /\ IsFiniteSet(c.taints)
      /\ \A x \in c.taints : x.score \in Int
      /\ Len(c.layers) \in Nat /\ DOMAIN c.layers = 1 .. Len(c.layers)
      /\ \A rules \in {c.hits, c.resolved} \cup {c.layers[i] : i \in DOMAIN c.layers} :
           IsFiniteSet(rules) /\ rules \subseteq DOMAIN Rules
  BY TreesAssumption, Zenon
<1> HIDE DEF c
<1>2. \A i \in DOMAIN c.layers : i \in Nat /\ i > 0
  BY <1>1
<1>3. \A rules \in {c.hits, c.resolved} : IsFiniteSet(rules) /\ rules \subseteq DOMAIN Rules
  BY <1>1
<1>4. \A i \in DOMAIN c.layers : IsFiniteSet(c.layers[i]) /\ c.layers[i] \subseteq DOMAIN Rules
  BY <1>1
<1> QED BY <1>1, <1>2, <1>3, <1>4 DEF c

LEMMA HitsAre ==
  ASSUME NEW f, NEW name, NEW hits, NEW signs, NEW layer, NEW h \in Hits(f, name, hits, signs, layer)
  PROVE  /\ h = [file |-> f, rule |-> h.rule, score |-> Rules[h.rule].score, layer |-> layer]
         /\ h.file = f /\ h.score = Rules[h.rule].score /\ h.layer = layer
         /\ h.rule \in hits /\ RuleAdmission(Rules[h.rule].lang, name, signs) # "refused"
<1>1. PICK r \in {r \in hits : RuleAdmission(Rules[r].lang, name, signs) # "refused"} :
        h = [file |-> f, rule |-> r, score |-> Rules[r].score, layer |-> layer]
  BY DEF Hits
<1> QED BY <1>1

LEMMA HitsHave ==
  ASSUME NEW f, NEW name, NEW hits, NEW signs, NEW layer, NEW r \in hits,
         RuleAdmission(Rules[r].lang, name, signs) # "refused"
  PROVE  \E k \in Hits(f, name, hits, signs, layer) : k.file = f /\ k.rule = r
<1>1. [file |-> f, rule |-> r, score |-> Rules[r].score, layer |-> layer] \in Hits(f, name, hits, signs, layer)
  BY DEF Hits
<1> QED BY <1>1

\* A finding of the engine, of a taint pass, and in a layer.
RawFinding(h) ==
  /\ OnTheFile(h) /\ h.file \in listed
  /\ h.rule \in Text(h.file).hits /\ h.score = Rules[h.rule].score
  /\ RuleAdmission(Rules[h.rule].lang, h.file.name, Settled(h.file)) # "refused"
TaintFinding(h) ==
  /\ OnTheFile(h) /\ h.file \in listed /\ Shown(h.file)
  /\ \E t \in Text(h.file).taints : /\ h.rule = t.rule /\ h.score = t.score
                                    /\ t.grammar \in Grammars(h.file.name, Text(h.file), Settled(h.file))
LayerFinding(h) ==
  /\ h.file \in Decodable /\ h.score = Rules[h.rule].score
  /\ \/ \E i \in DOMAIN Text(h.file).layers :
          /\ h.layer = i /\ h.rule \in Text(h.file).layers[i]
          /\ RuleAdmission(Rules[h.rule].lang, <<MirrorExt(h.file.name, Settled(h.file))>>, {}) # "refused"
     \/ /\ PassAdmits(h.file.name, "php", Settled(h.file)) /\ h.rule \in Text(h.file).resolved
        /\ RuleAdmission(Rules[h.rule].lang, <<"php">>, {}) # "refused"

LEMMA FindingsAre ==
  ASSUME Found
  PROVE  /\ \A h \in rawHits : RawFinding(h)
         /\ \A h \in taintHits : TaintFinding(h)
         /\ \A h \in DecodedSet : LayerFinding(h)
<1>1. ASSUME NEW h \in rawHits PROVE RawFinding(h)
  <2>1. PICK f \in InReach : h \in Hits(f, f.name, Text(f).hits, Settled(f), 0)
    BY DEF Found, RawOf
  <2> QED BY <2>1, HitsAre DEF RawFinding, OnTheFile, InReach
<1>2. ASSUME NEW h \in taintHits PROVE TaintFinding(h)
  <2>1. h \in TaintsOf(listed)
    BY DEF Found
  <2>2. PICK f \in {f \in listed : Shown(f)} :
          h \in {[file |-> f, rule |-> t.rule, score |-> t.score, layer |-> 0] :
                   t \in {t \in Text(f).taints : t.grammar \in Grammars(f.name, Text(f), Settled(f))}}
    BY <2>1 DEF TaintsOf
  <2>3. PICK t \in Text(f).taints : /\ t.grammar \in Grammars(f.name, Text(f), Settled(f))
                                    /\ h = [file |-> f, rule |-> t.rule, score |-> t.score, layer |-> 0]
    BY <2>2
  <2>4. h.file = f /\ h.rule = t.rule /\ h.score = t.score /\ OnTheFile(h)
    BY <2>3 DEF OnTheFile
  <2> QED BY <2>2, <2>3, <2>4 DEF TaintFinding
<1>3. ASSUME NEW h \in DecodedSet PROVE LayerFinding(h)
  <2>1. h \in DecodedOf
    BY DEF Found
  <2>2. PICK f \in Decodable : h \in LayersOf(f) \cup ResolvedOf(f)
    BY <2>1 DEF DecodedOf
  <2>3. CASE h \in LayersOf(f)
    <3>1. PICK i \in DOMAIN Text(f).layers : h \in Hits(f, <<MirrorExt(f.name, Settled(f))>>, Text(f).layers[i], {}, i)
      BY <2>3 DEF LayersOf
    <3> QED BY <2>2, <3>1, HitsAre DEF LayerFinding
  <2>4. CASE h \in ResolvedOf(f)
    <3>1. PassAdmits(f.name, "php", Settled(f)) /\ h \in Hits(f, <<"php">>, Text(f).resolved, {}, Len(Text(f).layers) + 1)
      BY <2>4 DEF ResolvedOf
    <3> QED BY <2>2, <3>1, HitsAre DEF LayerFinding
  <2> QED BY <2>2, <2>3, <2>4
<1> QED BY <1>1, <1>2, <1>3

\* What is found of a file by a rule is reported of it by that rule.
LEMMA FoundIsReported ==
  ASSUME DiskInv, Found, Ok, NEW x \in rawHits \cup DecodedSet \cup taintHits
  PROVE  \E k \in findings : k.file = x.file /\ k.rule = x.rule
<1> DEFINE c == Text(x.file)
           known == {s \in Int : s = Rules[x.rule].score}
           shown == {s \in Int : \E t \in c.taints : t.score = s}
<1>1. ASSUME NEW y \in rawHits \cup DecodedSet \cup taintHits PROVE y.file \in tree
  BY FindingsAre DEF RawFinding, TaintFinding, LayerFinding, Decodable, DiskInv, DiskTypes
<1>2. IsFiniteSet(known)
  <2>1. known \in SUBSET {Rules[x.rule].score} /\ IsFiniteSet({Rules[x.rule].score})
    BY FS_Singleton
  <2> QED BY <2>1, FS_Subset
<1>3. IsFiniteSet(shown)
  <2>1. IsFiniteSet(c.taints)
    BY <1>1, TreesAssumption DEF DiskInv, DiskTypes
  <2> DEFINE f == [t \in c.taints |-> t.score]
  <2>2. IsFiniteSet({f[t] : t \in c.taints})
    BY <2>1, FiniteImage
  <2>3. shown \in SUBSET {f[t] : t \in c.taints}
    OBVIOUS
  <2> QED BY <2>2, <2>3, FS_Subset
<1>4. ASSUME NEW y \in rawHits \cup DecodedSet \cup taintHits, y.file = x.file, y.rule = x.rule
      PROVE  y.score \in known \cup shown
  <2>0. x.file \in tree /\ tree \in Trees
    BY <1>1 DEF DiskInv, DiskTypes
  <2>1. CASE y \in taintHits
    <3>1. PICK t \in c.taints : y.score = t.score
      BY <1>4, <2>1, FindingsAre DEF TaintFinding
    <3>2. t.score \in Int
      BY <2>0, <3>1, TextIsSound
    <3> QED BY <3>1, <3>2
  <2>2. CASE y \in rawHits
    <3>1. y.rule \in c.hits /\ y.score = Rules[y.rule].score
      BY <1>4, <2>2, FindingsAre DEF RawFinding
    <3>2. c.hits \subseteq DOMAIN Rules
      BY <2>0, TextIsSound
    <3> QED BY <1>4, <3>1, <3>2, RulesAssumption
  <2>3. CASE y \in DecodedSet
    <3>1. y.score = Rules[y.rule].score /\ (y.rule \in c.resolved \/ \E i \in DOMAIN c.layers : y.rule \in c.layers[i])
      BY <1>4, <2>3, FindingsAre DEF LayerFinding
    <3>2. c.resolved \subseteq DOMAIN Rules /\ \A i \in DOMAIN c.layers : c.layers[i] \subseteq DOMAIN Rules
      BY <2>0, TextIsSound
    <3> QED BY <1>4, <3>1, <3>2, RulesAssumption
  <2> QED BY <2>1, <2>2, <2>3
<1>5. \A h \in rawHits \cup taintHits : OnTheFile(h)
  BY FindingsAre DEF RawFinding, TaintFinding
<1> DEFINE scores == known \cup shown
<1>6. scores \in SUBSET Int /\ IsFiniteSet(scores)
  BY <1>2, <1>3, FS_Union
<1> HIDE DEF known, shown, scores
<1>7. \A y \in rawHits \cup DecodedSet \cup taintHits : y.file = x.file /\ y.rule = x.rule => y.score \in scores
  BY <1>4 DEF scores
<1>8. \E k \in Survivors(rawHits \cup DecodedSet \cup taintHits) : k.file = x.file /\ k.rule = x.rule
  BY <1>5, <1>6, <1>7, OneSurvives DEF Found
<1> QED BY <1>8 DEF DiskInv, Told

LEMMA AlikeWhenDone == ASSUME DiskInv PROVE RenamedIsAsNamed
<1> SUFFICES ASSUME Ok, Vanished = {}, ~cutShort, NEW f \in listed, NEW g \in listed,
                    f.text = g.text, f.size = "small", g.size = "small", ~g.lineBreak, Unnamed(g),
                    Classify(f.name) \in SignsFor(Text(f)),
                    Classify(f.name) = "python" => Text(f).shebang = "python",
                    Classify(f.name) = "perl" => Text(f).shebang # "python",
                    NEW h \in findings, h.file = f,
                    h.layer > 0 => MirrorExt(g.name, SignsFor(Text(g))) = Classify(f.name),
                    h.rule \in DOMAIN Rules => Rules[h.rule].lang \in Languages
             PROVE  \E k \in findings : k.file = g /\ k.rule = h.rule
  BY DEF RenamedIsAsNamed, Ok
<1> DEFINE c == Text(f)
           signs == SignsFor(c)
           L == Classify(f.name)
<1>1. Found /\ DiskTypes
  BY DEF DiskInv, Going, Steady, Ok
<1>2. f \in tree /\ g \in tree /\ tree \in Trees /\ f.readable /\ g.readable /\ f.root \in command.roots /\ g.root \in command.roots
  BY <1>1 DEF DiskTypes
<1>3. Text(g) = c /\ Shown(f) /\ Shown(g) /\ Settled(f) = signs /\ Settled(g) = signs
  BY <1>2 DEF Text, Shown, Settled
<1> HIDE DEF c, signs, L
<1>4. /\ c.matches \subseteq Source /\ c.shebang \in {"none", "perl", "python"}
      /\ c.hits \subseteq DOMAIN Rules /\ c.resolved \subseteq DOMAIN Rules
      /\ \A i \in DOMAIN c.layers : i > 0 /\ c.layers[i] \subseteq DOMAIN Rules
  BY <1>2, TextIsSound DEF c
<1>5. signs \subseteq Source /\ L \in signs /\ L # "unknown" /\ Classify(g.name) = "unknown"
  <2>1. signs \subseteq Source
    BY <1>4, SignsAreSource DEF signs
  <2> QED BY <2>1 DEF Source, Unnamed, signs, c, L
<1>6. CASE h \in rawHits
  <2>1. h.rule \in c.hits /\ RuleAdmission(Rules[h.rule].lang, f.name, signs) # "refused"
    BY <1>1, <1>3, <1>6, FindingsAre DEF RawFinding, c
  <2>2. Rules[h.rule].lang \in Languages
    BY <1>4, <2>1
  <2>3. RuleAdmission(Rules[h.rule].lang, g.name, signs) # "refused"
    BY <1>5, <2>1, <2>2, AdmittedByContent DEF L
  <2>4. PICK x \in Hits(g, g.name, c.hits, signs, 0) : x.file = g /\ x.rule = h.rule
    BY <2>1, <2>3, HitsHave
  <2>5. g \in InReach
    BY DEF InReach, Matched
  <2>6. x \in rawHits
    BY <1>1, <1>3, <2>4, <2>5 DEF Found, RawOf
  <2> QED BY <1>1, <2>4, <2>6, FoundIsReported
<1>7. CASE h \in taintHits
  <2>1. PICK t \in c.taints : h.rule = t.rule /\ h.score = t.score /\ t.grammar \in Grammars(f.name, c, signs)
    BY <1>1, <1>3, <1>7, FindingsAre DEF TaintFinding, c
  <2>2. t.grammar \in Grammars(g.name, c, signs)
    BY <1>4, <1>5, <2>1, GrammarByContent DEF L, signs, c
  <2> DEFINE x == [file |-> g, rule |-> t.rule, score |-> t.score, layer |-> 0]
  <2>3. x \in TaintsOf(listed)
    BY <1>3, <2>1, <2>2 DEF TaintsOf
  <2>4. x \in taintHits
    BY <1>1, <1>7, <2>3 DEF Found
  <2>5. x.file = g /\ x.rule = h.rule
    BY <2>1
  <2> HIDE DEF x
  <2> QED BY <1>1, <2>4, <2>5, FoundIsReported
<1>8. CASE h \in DecodedSet
  <2>1. DecodedSet = DecodedOf
    BY <1>1, <1>8 DEF Found
  <2>2. g \in Decodable
    BY <1>3, <1>5 DEF Decodable, WebshellLike
  <2>3. ASSUME NEW x \in LayersOf(g) \cup ResolvedOf(g), x.file = g, x.rule = h.rule
        PROVE  \E k \in findings : k.file = g /\ k.rule = h.rule
    <3>1. x \in DecodedSet
      BY <2>1, <2>2, <2>3 DEF DecodedOf
    <3> QED BY <1>1, <2>3, <3>1, FoundIsReported
  <2>4. CASE \E i \in DOMAIN c.layers :
               /\ h.layer = i /\ h.rule \in c.layers[i]
               /\ RuleAdmission(Rules[h.rule].lang, <<MirrorExt(f.name, signs)>>, {}) # "refused"
    <3>1. PICK i \in DOMAIN c.layers :
               /\ h.layer = i /\ h.rule \in c.layers[i]
               /\ RuleAdmission(Rules[h.rule].lang, <<MirrorExt(f.name, signs)>>, {}) # "refused"
      BY <2>4
    <3>2. MirrorExt(f.name, signs) = L
      BY <1>5 DEF MirrorExt, L
    <3>3. MirrorExt(g.name, signs) = L
      BY <1>3, <1>4, <3>1 DEF L, signs, c
    <3>4. PICK x \in Hits(g, <<MirrorExt(g.name, signs)>>, c.layers[i], {}, i) : x.file = g /\ x.rule = h.rule
      BY <3>1, <3>2, <3>3, HitsHave
    <3>5. x \in LayersOf(g)
      BY <1>3, <3>1, <3>4 DEF LayersOf
    <3> QED BY <2>3, <3>4, <3>5
  <2>5. CASE /\ PassAdmits(f.name, "php", signs) /\ h.rule \in c.resolved
             /\ RuleAdmission(Rules[h.rule].lang, <<"php">>, {}) # "refused"
    <3>1. L = "php"
      BY <1>5, <2>5 DEF PassAdmits, L
    <3>2. PassAdmits(g.name, "php", signs)
      BY <1>5, <3>1 DEF PassAdmits
    <3>3. PICK x \in Hits(g, <<"php">>, c.resolved, {}, Len(c.layers) + 1) : x.file = g /\ x.rule = h.rule
      BY <2>5, HitsHave
    <3>4. x \in ResolvedOf(g)
      BY <1>3, <3>2, <3>3 DEF ResolvedOf
    <3> QED BY <2>3, <3>3, <3>4
  <2>6. LayerFinding(h)
    BY <1>1, <1>8, FindingsAre
  <2> QED BY <1>3, <2>4, <2>5, <2>6 DEF LayerFinding, c
<1>9. CASE h \in javaHits
  <2>1. javaHits = JavaOf({e \in tree : e.root \in command.roots /\ JavaDone(e.root)})
    BY <1>1 DEF Found, Ok
  <2>2. h.rule = "javadisk" /\ JavaSourceOf(f) /\ c.java
    BY <1>9, <2>1 DEF JavaOf, c
  <2>3. L = "jsp"
    BY <1>5, <2>2 DEF JavaSourceOf, Unnamed, L, Source
  <2>4. JavaSourceOf(g)
    BY <1>3, <1>5, <2>3 DEF JavaSourceOf, Unnamed
  <2> DEFINE x == [file |-> g, rule |-> "javadisk", score |-> 85, layer |-> 0]
  <2>5. x \in javaHits
    BY <1>2, <1>3, <2>1, <2>2, <2>4 DEF JavaOf, JavaDone
  <2>6. x \in findings
    BY <2>5 DEF DiskInv, Told
  <2>7. x.file = g /\ x.rule = h.rule
    BY <2>2
  <2> QED BY <2>6, <2>7
<1> QED
  <2>1. h \in rawHits \cup DecodedSet \cup taintHits \cup javaHits
    BY DEF DiskInv, Told, Survivors
  <2> QED BY <1>6, <1>7, <1>8, <1>9, <2>1

-----------------------------------------------------------------------------
(* One lemma per action.                                                    *)

\* A view that is steady after a step was before it.
LEMMA SteadyBefore ==
  ASSUME DiskInv, DiskNext, Steady' PROVE Steady /\ readable' = readable
<1>1. CASE \E f \in readable : Vanish(f)
  <2>1. PICK f \in readable : Vanish(f)
    BY <1>1
  <2>2. f \in tree' /\ f.readable /\ f \notin readable'
    BY <2>1 DEF Vanish, DiskInv, DiskTypes
  <2> QED BY <2>2 DEF Steady, Vanished
<1>2. CASE \E r \in command.roots : Engine(r)
  <2>1. PICK r \in command.roots : Engine(r)
    BY <1>2
  <2>2. readable' = readable /\ tree' = tree /\ (cutShort => cutShort')
    BY <2>1 DEF Engine
  <2> QED BY <2>2 DEF Steady, Vanished
<1>3. CASE Mirror
  <2>1. readable' = readable /\ tree' = tree /\ (cutShort => cutShort')
    BY <1>3 DEF Mirror
  <2> QED BY <2>1 DEF Steady, Vanished
<1>4. CASE \/ StartDisk \/ ReadSigns \/ Taint \/ ReportDisk
           \/ \E r \in command.roots : Enumerate(r) \/ JavaScan(r)
  <2>1. readable' = readable /\ tree' = tree /\ cutShort' = cutShort
    BY <1>4 DEF StartDisk, ReadSigns, Taint, ReportDisk, Enumerate, JavaScan
  <2> QED BY <2>1 DEF Steady, Vanished
<1> QED BY <1>1, <1>2, <1>3, <1>4 DEF DiskNext

LEMMA DiskStarts == DiskInit => DiskInv
<1> SUFFICES ASSUME DiskInit PROVE DiskInv
  OBVIOUS
<1>1. DiskTypes /\ Accounted /\ Told
  BY DEF DiskInit, DiskTypes, Accounted, Told, Ok, Listed, Skips, Stages, Scanning, Listing
<1>2. InReach = {} /\ \A f : ~JavaDone(f.root)
  BY DEF DiskInit, InReach, JavaDone, Ok
<1>3. Len(decoded) = 0 /\ DOMAIN decoded = 1 .. Len(decoded) /\ DecodedSet = {} /\ DOMAIN signed = {}
  BY DEF DiskInit, DecodedSet
<1>4. Found
  BY <1>2, <1>3 DEF DiskInit, Found, RawOf, JavaOf
<1> QED BY <1>1, <1>4 DEF DiskInv

LEMMA StartKeeps == ASSUME DiskInv, StartDisk PROVE DiskInv'
<1>1. stage = "start" /\ DiskTypes /\ Accounted
  BY DEF DiskInv, StartDisk
<1>2. CASE command.usable /\ command.roots # {}
  <2>1. stage' = "enumerate" /\ todo' = command.roots /\ diskExit' = diskExit
    BY <1>2 DEF StartDisk
  <2>2. DiskTypes'
    BY <1>1, <1>2, <2>1 DEF StartDisk, DiskTypes, Stages, Scanning, Listing, Ok
  <2>3. Accounted' /\ Told'
    BY <1>1, <2>1 DEF StartDisk, Accounted, Told, Ok, Listed, Stages, Listing, Scanning
  <2>4. ASSUME Found PROVE Found'
    <3>1. InReach' = InReach
      BY <1>1, <2>1 DEF InReach, Matched, Ok, Stages, Listing, Scanning, StartDisk
    <3>2. {f \in tree : f.root \in command.roots /\ JavaDone(f.root)}' = {f \in tree : f.root \in command.roots /\ JavaDone(f.root)}
      BY <1>1, <2>1 DEF JavaDone, Ok, StartDisk
    <3>3. UNCHANGED <<signed, rawHits, engineSaw, taintHits, listed, decoded, javaHits>> /\ DecodedOf' = DecodedOf /\ DecodedSet' = DecodedSet /\ tree' = tree
      BY DEF StartDisk, DecodedOf, Decodable, DecodedSet
    <3> QED BY <1>1, <2>1, <2>4, <3>1, <3>2, <3>3 DEF Found, Stages, Listing, Scanning
  <2>5. Going /\ (Steady' => Steady)
    BY <1>1, SteadyBefore DEF Going, DiskNext
  <2> QED BY <2>2, <2>3, <2>4, <2>5 DEF DiskInv
<1>3. CASE ~(command.usable /\ command.roots # {})
  <2>1. stage' = "done" /\ diskExit' = "coverage" /\ todo' = todo
    BY <1>3 DEF StartDisk
  <2>2. ~Going' /\ ~Ok'
    BY <2>1 DEF Going, Ok
  <2>3. DiskTypes' /\ Accounted' /\ Told'
    BY <1>1, <2>1, <2>2 DEF StartDisk, DiskTypes, Stages, Scanning, Listing, Accounted, Told, Listed
  <2> QED BY <2>2, <2>3 DEF DiskInv
<1> QED BY <1>2, <1>3

LEMMA VanishKeeps == ASSUME DiskInv, NEW f \in readable, Vanish(f) PROVE DiskInv'
<1>1. ~Steady'
  <2>1. f \in tree' /\ f.readable /\ f \notin readable'
    BY DEF Vanish, DiskInv, DiskTypes
  <2> QED BY <2>1 DEF Steady, Vanished
<1>2. DiskTypes'
  BY DEF Vanish, DiskInv, DiskTypes, Ok
<1>3. Accounted' /\ Told'
  BY DEF Vanish, DiskInv, Accounted, Told, Ok, Listed
<1> QED BY <1>1, <1>2, <1>3 DEF DiskInv

LEMMA EnumerateKeeps == ASSUME DiskInv, NEW r \in command.roots, Enumerate(r) PROVE DiskInv'
<1> DEFINE entries == {f \in tree : f.root = r}
           regular == {f \in entries : f.kind = "regular"}
<1>1. /\ stage = "enumerate" /\ r \in todo
      /\ skips' = [skips EXCEPT
           !.nonRegular = @ \cup {f \in entries : f.kind \in {"pipe", "linkOut"}},
           !.oversize = @ \cup {f \in regular : f.size = "large" /\ Classify(f.name) \in Source},
           !.unreadable = @ \cup (regular \ readable)]
      /\ listed' = listed \cup (regular \cap readable)
      /\ todo' = IF todo = {r} THEN command.roots ELSE todo \ {r}
      /\ stage' = IF todo # {r} THEN stage ELSE IF command.deobf THEN "signs" ELSE "engine"
      /\ UNCHANGED <<tree, command, readable, signed, engineSaw, scanned, failedRoots, rawHits, taintHits, javaHits,
                     decoded, javaTrouble, opened, cutShort, diskExit, status, findings>>
  BY DEF Enumerate
<1>2. DiskTypes /\ Accounted /\ stage' \in {"enumerate", "signs", "engine"} /\ ~Ok /\ ~Ok'
  BY <1>1 DEF DiskInv, Ok
<1>3. /\ skips'.nonRegular = skips.nonRegular \cup {f \in entries : f.kind \in {"pipe", "linkOut"}}
      /\ skips'.oversize = skips.oversize \cup {f \in regular : f.size = "large" /\ Classify(f.name) \in Source}
      /\ skips'.unreadable = skips.unreadable \cup (regular \ readable)
      /\ skips'.noDetector = skips.noDetector
      /\ skips' \in [nonRegular : SUBSET tree, unreadable : SUBSET tree, oversize : SUBSET tree, noDetector : SUBSET tree]
  BY <1>1, <1>2 DEF DiskTypes
<1>4. DiskTypes'
  BY <1>1, <1>2, <1>3 DEF DiskTypes, Stages, Scanning, Listing
<1>5. Accounted'
  <2> SUFFICES ASSUME NEW f \in tree, f.root \in command.roots, Listed(f.root)'
               PROVE  /\ f.kind \in {"pipe", "linkOut"} => f \in skips'.nonRegular
                      /\ f.kind = "regular" => f \in listed' \cup skips'.unreadable
                      /\ f.kind = "regular" /\ f.size = "large" /\ Classify(f.name) \in Source => f \in skips'.oversize
    BY <1>1 DEF Accounted
  <2>1. CASE f.root = r
    BY <1>1, <1>3, <2>1
  <2>2. CASE f.root # r
    <3>1. Listed(f.root)
      BY <1>1, <1>2, <2>2 DEF Listed, Stages, Listing, Scanning
    <3> QED BY <1>1, <1>2, <1>3, <3>1 DEF Accounted
  <2> QED BY <2>1, <2>2
<1>6. Told'
  BY <1>2 DEF Told
<1>7. ASSUME Found PROVE Found'
  <2>1. InReach = {} /\ InReach' = {}
    BY <1>1, <1>2 DEF InReach, Matched, Stages, Listing, Scanning, DiskTypes
  <2>2. \A f : f.root \in command.roots => ~JavaDone(f.root) /\ ~JavaDone(f.root)'
    BY <1>1, <1>2 DEF JavaDone
  <2>3. /\ {f \in tree : f.root \in command.roots /\ JavaDone(f.root)} = {}
        /\ {f \in tree : f.root \in command.roots /\ JavaDone(f.root)}' = {}
    BY <1>1, <2>2
  <2>4. taintHits' = {} /\ decoded' = decoded /\ decoded = <<>> /\ DecodedSet = {} /\ DecodedSet' = {}
    BY <1>1, <1>7 DEF Found, DecodedSet, Scanning, Listing, Stages
  <2> QED BY <1>1, <1>2, <1>7, <2>1, <2>3, <2>4 DEF Found, Stages, Listing, Scanning
<1>8. Going /\ (Steady' => Steady)
  BY <1>1, SteadyBefore DEF Going, DiskNext
<1> QED BY <1>4, <1>5, <1>6, <1>7, <1>8 DEF DiskInv

\* The list is of what opened, and opens while nothing has vanished.
LEMMA ListedOpen ==
  ASSUME DiskTypes, Steady
  PROVE  /\ listed \cap readable = listed
         /\ \A f \in tree : (Readable(f) <=> Shown(f)) /\ SignsNow(f) = Settled(f)
<1>1. \A f \in listed : f \in tree /\ f.readable
  BY DEF DiskTypes
<1> QED BY <1>1, NothingVanished DEF Steady

LEMMA SignsKeep == ASSUME DiskInv, ReadSigns PROVE DiskInv'
<1>1. /\ stage = "signs" /\ stage' = "engine" /\ DiskTypes /\ Accounted /\ ~Ok /\ ~Ok'
      /\ signed' = [f \in {f \in listed : Unnamed(f)} |-> SignsNow(f)]
      /\ skips' = [skips EXCEPT !.noDetector =
              {f \in listed : Classify(f.name) = "unknown" /\ ~WebshellLike(f.name, SignsNow(f))}]
      /\ UNCHANGED <<tree, command, readable, todo, listed, engineSaw, scanned, failedRoots, rawHits, taintHits, javaHits,
                 decoded, javaTrouble, opened, cutShort, diskExit, status, findings>>
  BY DEF ReadSigns, DiskInv, Ok
<1>2. /\ skips'.nonRegular = skips.nonRegular /\ skips'.oversize = skips.oversize /\ skips'.unreadable = skips.unreadable
      /\ skips' \in [nonRegular : SUBSET tree, unreadable : SUBSET tree, oversize : SUBSET tree, noDetector : SUBSET tree]
  BY <1>1 DEF DiskTypes
<1>3. DiskTypes'
  BY <1>1, <1>2 DEF DiskTypes, Stages, Scanning, Listing
<1>4. Accounted' /\ Told'
  BY <1>1, <1>2 DEF Accounted, Told, Listed, Stages, Listing, Scanning
<1>5. ASSUME Found, Steady PROVE Found'
  <2>1. \A f \in DOMAIN signed' : f \in tree' /\ signed'[f] = Settled(f)
    BY <1>1, <1>5, ListedOpen DEF DiskTypes
  <2>2. InReach = {} /\ InReach' = {}
    BY <1>1 DEF InReach, Matched, Stages, Listing, Scanning, DiskTypes
  <2>3. \A f : f.root \in command.roots => ~JavaDone(f.root) /\ ~JavaDone(f.root)'
    BY <1>1 DEF JavaDone
  <2>4. /\ {f \in tree : f.root \in command.roots /\ JavaDone(f.root)} = {}
        /\ {f \in tree : f.root \in command.roots /\ JavaDone(f.root)}' = {}
    BY <1>1, <2>3
  <2>5. taintHits' = {} /\ decoded' = decoded /\ decoded = <<>> /\ DecodedSet = {} /\ DecodedSet' = {}
    BY <1>1, <1>5 DEF Found, DecodedSet, Scanning, Listing, Stages
  <2> QED BY <1>1, <1>5, <2>1, <2>2, <2>4, <2>5 DEF Found, Stages, Listing, Scanning
<1>6. Going /\ (Steady' => Steady)
  BY <1>1, SteadyBefore DEF Going, DiskNext
<1> QED BY <1>3, <1>4, <1>5, <1>6 DEF DiskInv

LEMMA EngineKeeps == ASSUME DiskInv, NEW r \in command.roots, Engine(r) PROVE DiskInv'
<1> DEFINE targets == {f \in listed : f.root = r /\ ~f.lineBreak}
<1>1. /\ stage = "engine" /\ r \in todo
      /\ todo' = IF todo = {r} THEN command.roots ELSE todo \ {r}
      /\ stage' = IF todo # {r} THEN stage ELSE IF command.deobf THEN "taint" ELSE "java"
      /\ UNCHANGED <<tree, command, readable, listed, skips, signed, taintHits, javaHits, decoded, javaTrouble, opened, diskExit,
                     status, findings>>
  BY DEF Engine
<1>2. DiskTypes /\ Accounted /\ stage' \in {"engine", "taint", "java"} /\ ~Ok /\ ~Ok'
  BY <1>1 DEF DiskInv, Ok
<1>3. DiskTypes'
  BY <1>1, <1>2 DEF DiskTypes, Stages, Scanning, Listing
<1>4. Accounted' /\ Told'
  BY <1>1, <1>2 DEF Accounted, Told, Listed, Stages, Listing, Scanning
<1>5. ASSUME Found, Steady, Steady' PROVE Found'
  <2>1. PICK seen \in SUBSET targets, works \in BOOLEAN :
          /\ works => seen = targets
          /\ LET hits == UNION {Hits(f, f.name, Text(f).hits, SignsNow(f), 0) : f \in seen \cap readable}
             IN  IF works \/ hits # {}
                 THEN /\ scanned' = scanned \cup {r} /\ failedRoots' = failedRoots
                      /\ rawHits' = rawHits \cup hits
                      /\ engineSaw' = engineSaw \cup (seen \cap readable)
                 ELSE /\ failedRoots' = failedRoots \cup {r}
                      /\ UNCHANGED <<scanned, rawHits, engineSaw>>
          /\ cutShort' = (cutShort \/ ~works)
    BY DEF Engine
  <2>2. works /\ seen = targets
    BY <1>5, <2>1 DEF Steady
  <2>3. seen \cap readable = targets
    BY <1>2, <1>5, <2>2, ListedOpen
  <2>4. \A f \in targets : SignsNow(f) = Settled(f)
    BY <1>2, <1>5, ListedOpen DEF DiskTypes
  <2>5. rawHits' = rawHits \cup RawOf(targets) /\ engineSaw' = engineSaw \cup targets
    BY <2>1, <2>2, <2>3, <2>4 DEF RawOf
  <2>6. InReach' = InReach \cup targets
    <3>1. ASSUME NEW f \in listed PROVE Matched(f.root)' <=> Matched(f.root) \/ f.root = r
      <4>1. f.root \in command.roots
        BY <1>2 DEF DiskTypes
      <4> QED BY <1>1, <1>2, <4>1 DEF Matched, Stages, Listing, Scanning
    <3> QED BY <1>1, <3>1 DEF InReach
  <2>7. RawOf(InReach') = RawOf(InReach) \cup RawOf(targets)
    BY <2>6 DEF RawOf
  <2> HIDE DEF targets
  <2>8. \A f : f.root \in command.roots => ~JavaDone(f.root) /\ ~JavaDone(f.root)'
    BY <1>1, <1>2 DEF JavaDone, DiskTypes
  <2>9. /\ {f \in tree : f.root \in command.roots /\ JavaDone(f.root)} = {}
        /\ {f \in tree : f.root \in command.roots /\ JavaDone(f.root)}' = {}
    BY <1>1, <2>8
  <2>10. taintHits = {} /\ taintHits' = {} /\ decoded' = decoded /\ decoded = <<>> /\ DecodedSet = {} /\ DecodedSet' = {}
    BY <1>1, <1>5 DEF Found, DecodedSet, Scanning, Listing, Stages
  <2>11. rawHits' = RawOf(InReach') /\ InReach' \subseteq engineSaw'
    BY <1>5, <2>5, <2>6, <2>7 DEF Found
  <2> QED BY <1>1, <1>2, <1>5, <2>9, <2>10, <2>11 DEF Found, Stages, Listing, Scanning
<1>6. Going /\ (Steady' => Steady)
  BY <1>1, SteadyBefore DEF Going, DiskNext
<1> QED BY <1>3, <1>4, <1>5, <1>6 DEF DiskInv

\* What has been matched stays so.
LEMMA ReachStays ==
  ASSUME UNCHANGED <<listed, rawHits, engineSaw>>, stage \in Stages \ (Scanning \cup {"done"}),
         stage' \in Stages \ (Scanning \cup {"done"}) \/ Ok'
  PROVE  InReach' = InReach
  BY DEF InReach, Matched

LEMMA TaintKeeps == ASSUME DiskInv, Taint PROVE DiskInv'
<1>1. /\ stage = "taint" /\ stage' = "java" /\ DiskTypes /\ Accounted /\ ~Ok /\ ~Ok'
      /\ taintHits' = UNION {
           {[file |-> f, rule |-> t.rule, score |-> t.score, layer |-> 0] :
              t \in {t \in Text(f).taints : t.grammar \in Grammars(f.name, Text(f), Signs(f))}} :
           f \in {f \in listed : Readable(f)}}
      /\ UNCHANGED <<tree, command, readable, todo, listed, skips, signed, engineSaw, scanned, failedRoots, rawHits,
                 javaHits, decoded, javaTrouble, opened, cutShort, diskExit, status, findings>>
  BY DEF Taint, DiskInv, Ok
<1>2. DiskTypes'
  BY <1>1 DEF DiskTypes, Stages, Scanning, Listing
<1>3. Accounted' /\ Told'
  BY <1>1 DEF Accounted, Told, Listed, Stages, Listing, Scanning
<1>4. ASSUME Found, Steady PROVE Found'
  <2>1. \A f \in listed : (Readable(f) <=> Shown(f)) /\ Signs(f) = Settled(f)
    BY <1>1, <1>4, ListedOpen DEF Signs, Found, DiskTypes
  <2>2. {f \in listed : Readable(f)} = {f \in listed : Shown(f)}
    BY <2>1
  <2>3. taintHits' = TaintsOf(listed)
    BY <1>1, <2>1, <2>2 DEF TaintsOf
  <2>4. InReach' = InReach
    BY <1>1, ReachStays DEF Stages, Scanning, Listing
  <2>5. \A f : f.root \in command.roots => ~JavaDone(f.root) /\ ~JavaDone(f.root)'
    BY <1>1 DEF JavaDone, DiskTypes
  <2>6. /\ {f \in tree : f.root \in command.roots /\ JavaDone(f.root)} = {}
        /\ {f \in tree : f.root \in command.roots /\ JavaDone(f.root)}' = {}
    BY <1>1, <2>5
  <2>7. decoded' = decoded /\ decoded = <<>> /\ DecodedSet = {} /\ DecodedSet' = {}
    BY <1>1, <1>4 DEF Found, DecodedSet, Scanning, Listing, Stages
  <2> QED BY <1>1, <1>4, <2>3, <2>4, <2>6, <2>7 DEF Found, Stages, Listing, Scanning
<1>5. Going /\ (Steady' => Steady)
  BY <1>1, SteadyBefore DEF Going, DiskNext
<1> QED BY <1>2, <1>3, <1>4, <1>5 DEF DiskInv

LEMMA JavaKeeps == ASSUME DiskInv, NEW r \in command.roots, JavaScan(r) PROVE DiskInv'
<1> DEFINE entries == {f \in tree : f.root = r}
           named == {f \in entries : Classify(f.name) \in {"jsp", "jvm"}}
           asJSP == {f \in entries : \/ Classify(f.name) = "jsp" /\ f.name[Len(f.name)] # "jsp"
                                     \/ Unnamed(f) /\ "jsp" \in Signs(f)}
           piped == \E f \in opened' : f.kind = "pipe"
<1>1. /\ stage = "java" /\ r \in todo /\ todo' = todo \ {r}
      /\ stage' = CASE piped -> "stuck"
                    [] (\A f \in opened' : f.kind # "pipe") /\ todo # {r} -> stage
                    [] OTHER -> IF command.deobf THEN "mirror" ELSE "report"
      /\ javaHits' = javaHits \cup {[file |-> f, rule |-> "javadisk", score |-> 85, layer |-> 0] :
                                      f \in {f \in entries : (f \in asJSP \/ f \in named) /\ Readable(f) /\ Text(f).java}}
      /\ UNCHANGED <<tree, command, readable, listed, skips, signed, engineSaw, scanned, failedRoots, rawHits, taintHits,
                 decoded, cutShort, diskExit, status, findings>>
  BY DEF JavaScan
<1>2. \/ piped /\ stage' = "stuck"
      \/ ~piped /\ todo # {r} /\ stage' = "java"
      \/ ~piped /\ todo = {r} /\ stage' \in {"mirror", "report"}
  BY <1>1
<1>3. DiskTypes /\ Accounted /\ stage' \in {"java", "stuck", "mirror", "report"} /\ ~Ok /\ ~Ok'
  BY <1>1, <1>2 DEF DiskInv, Ok
<1>4. DiskTypes'
  BY <1>1, <1>3 DEF DiskTypes, Stages, Scanning, Listing
<1>5. Accounted' /\ Told'
  BY <1>1, <1>3 DEF Accounted, Told, Listed, Stages, Listing, Scanning
<1>6. ASSUME Found, Steady PROVE Found'
  <2>1. \A f \in tree : (Readable(f) <=> Shown(f)) /\ Signs(f) = Settled(f)
    BY <1>3, <1>6, ListedOpen DEF Signs, Found
  <2>2. \A f \in entries : f \in asJSP \/ f \in named <=> JavaSourceOf(f)
    BY <2>1 DEF JavaSourceOf
  <2>3. {f \in entries : (f \in asJSP \/ f \in named) /\ Readable(f) /\ Text(f).java}
        = {f \in entries : JavaSourceOf(f) /\ Shown(f) /\ Text(f).java}
    BY <2>1, <2>2
  <2>4. javaHits' = javaHits \cup JavaOf(entries)
    BY <1>1, <2>3 DEF JavaOf
  <2>5. ASSUME stage' # "stuck" PROVE javaHits' = JavaOf({f \in tree : f.root \in command.roots /\ JavaDone(f.root)}')
    <3>1. \A f : f.root \in command.roots => (JavaDone(f.root)' <=> JavaDone(f.root) \/ f.root = r)
      BY <1>1, <1>2, <1>3, <2>5 DEF JavaDone, DiskTypes
    <3>2. {f \in tree : f.root \in command.roots /\ JavaDone(f.root)}'
          = {f \in tree : f.root \in command.roots /\ JavaDone(f.root)} \cup entries
      BY <1>1, <3>1
    <3>3. javaHits = JavaOf({f \in tree : f.root \in command.roots /\ JavaDone(f.root)})
      BY <1>1, <1>6 DEF Found
    <3>4. \A A, B : JavaOf(A \cup B) = JavaOf(A) \cup JavaOf(B)
      BY DEF JavaOf
    <3> QED BY <2>4, <3>2, <3>3, <3>4
  <2>6. InReach' = InReach
    BY <1>1, <1>3, ReachStays DEF Stages, Scanning, Listing
  <2>7. decoded' = decoded /\ decoded = <<>> /\ DecodedSet = {} /\ DecodedSet' = {}
    BY <1>1, <1>6 DEF Found, DecodedSet, Scanning, Listing, Stages
  <2>8. taintHits' \in {{}, TaintsOf(listed')} /\ stage' \notin Scanning \cup {"taint"}
    BY <1>1, <1>3, <1>6 DEF Found, Scanning, Listing
  <2> QED BY <1>1, <1>3, <1>6, <2>5, <2>6, <2>7, <2>8 DEF Found, Stages, Listing, Scanning
<1>7. Going /\ (Steady' => Steady)
  BY <1>1, SteadyBefore DEF Going, DiskNext
<1> QED BY <1>4, <1>5, <1>6, <1>7 DEF DiskInv

\* The engine's findings on the layers of a tree are finitely many.
LEMMA HitsAreFinite ==
  ASSUME NEW f, NEW name, NEW hits, IsFiniteSet(hits), NEW signs, NEW layer
  PROVE  IsFiniteSet(Hits(f, name, hits, signs, layer))
<1> DEFINE admitted == {r \in hits : RuleAdmission(Rules[r].lang, name, signs) # "refused"}
           hit == [r \in admitted |-> [file |-> f, rule |-> r, score |-> Rules[r].score, layer |-> layer]]
<1>1. IsFiniteSet(admitted)
  BY FS_Subset
<1>2. IsFiniteSet({hit[r] : r \in admitted})
  <2> HIDE DEF admitted
  <2> QED BY <1>1, FiniteImage
<1>3. Hits(f, name, hits, signs, layer) = {hit[r] : r \in admitted}
  BY DEF Hits
<1> QED BY <1>2, <1>3

LEMMA DecodedIsFinite ==
  ASSUME DiskTypes PROVE IsFiniteSet(DecodedOf)
<1>1. listed \subseteq tree /\ tree \in Trees /\ IsFiniteSet(tree)
  BY TreesAssumption DEF DiskTypes
<1>2. IsFiniteSet(Decodable) /\ Decodable \subseteq tree
  BY <1>1, FS_Subset DEF Decodable
<1>3. ASSUME NEW f \in tree PROVE IsFiniteSet(LayersOf(f) \cup ResolvedOf(f))
  <2> DEFINE c == Text(f)
             layer == [i \in 1 .. Len(c.layers) |-> Hits(f, <<MirrorExt(f.name, Settled(f))>>, c.layers[i], {}, i)]
             each == {layer[i] : i \in 1 .. Len(c.layers)}
  <2>1. /\ Len(c.layers) \in Nat /\ DOMAIN c.layers = 1 .. Len(c.layers) /\ IsFiniteSet(c.resolved)
        /\ \A i \in DOMAIN c.layers : IsFiniteSet(c.layers[i])
    BY <1>1, TextIsSound
  <2>2. IsFiniteSet(1 .. Len(c.layers))
    BY <2>1, FS_Interval
  <2>3. IsFiniteSet(each)
    BY <2>2, FiniteImage
  <2>4. \A T \in each : IsFiniteSet(T)
    BY <2>1, HitsAreFinite
  <2>5. IsFiniteSet(UNION each)
    BY <2>3, <2>4, FS_UNION
  <2>6. LayersOf(f) = UNION each
    BY <2>1 DEF LayersOf
  <2>7. IsFiniteSet(ResolvedOf(f))
    BY <2>1, HitsAreFinite, FS_EmptySet DEF ResolvedOf
  <2> QED BY <2>5, <2>6, <2>7, FS_Union
<1> DEFINE of == [f \in Decodable |-> LayersOf(f) \cup ResolvedOf(f)]
           sets == {of[f] : f \in Decodable}
<1>4. IsFiniteSet(sets)
  BY <1>2, FiniteImage
<1>5. \A T \in sets : IsFiniteSet(T)
  BY <1>2, <1>3
<1>6. DecodedOf = UNION sets
  BY DEF DecodedOf
<1> QED BY <1>4, <1>5, <1>6, FS_UNION

LEMMA OrderHasAll ==
  ASSUME NEW S, IsFiniteSet(S), NEW q \in Orders(S)
  PROVE  Len(q) \in Nat /\ DOMAIN q = 1 .. Len(q) /\ {q[i] : i \in DOMAIN q} = S
<1>1. Cardinality(S) \in Nat
  BY FS_CardinalityType
<1>2. q \in [1 .. Cardinality(S) -> S] /\ \A x \in S : \E i \in DOMAIN q : q[i] = x
  BY DEF Orders
<1>3. q \in Seq(S) /\ Len(q) = Cardinality(S)
  BY <1>1, <1>2
<1> QED BY <1>1, <1>2, <1>3

LEMMA MirrorKeeps == ASSUME DiskInv, Mirror PROVE DiskInv'
<1>1. /\ stage = "mirror" /\ stage' = "report" /\ DiskTypes /\ Accounted /\ ~Ok /\ ~Ok'
      /\ UNCHANGED <<tree, command, readable, todo, listed, skips, signed, engineSaw, scanned, failedRoots, rawHits,
                 taintHits, javaHits, javaTrouble, opened, diskExit, status, findings>>
  BY DEF Mirror, DiskInv, Ok
<1>2. DiskTypes'
  BY <1>1 DEF DiskTypes, Stages, Scanning, Listing
<1>3. Accounted' /\ Told'
  BY <1>1 DEF Accounted, Told, Listed, Stages, Listing, Scanning
<1>4. ASSUME Found, Steady, Steady' PROVE Found'
  <2> DEFINE decodable == {f \in listed : Readable(f) /\ WebshellLike(f.name, Signs(f))}
             layers(f) == UNION {Hits(f, <<MirrorExt(f.name, Signs(f))>>, Text(f).layers[i], {}, i) : i \in DOMAIN Text(f).layers}
             resolved(f) == IF PassAdmits(f.name, "php", Signs(f))
                            THEN Hits(f, <<"php">>, Text(f).resolved, {}, Len(Text(f).layers) + 1) ELSE {}
             all == UNION {layers(f) \cup resolved(f) : f \in decodable}
  <2>1. PICK scannable \in {all, {}} : \E order \in Orders(scannable) :
           /\ cutShort' = (cutShort \/ scannable # all)
           /\ decoded' = order
    BY DEF Mirror
  <2>2. \A f \in listed : (Readable(f) <=> Shown(f)) /\ Signs(f) = Settled(f)
    BY <1>1, <1>4, ListedOpen DEF Signs, Found, DiskTypes
  <2>3. decodable = Decodable /\ \A f \in decodable : layers(f) = LayersOf(f) /\ resolved(f) = ResolvedOf(f)
    BY <2>2 DEF Decodable, LayersOf, ResolvedOf
  <2> HIDE DEF decodable, layers, resolved
  <2>4. all = DecodedOf
    BY <2>3 DEF DecodedOf
  <2> HIDE DEF all
  <2>5. scannable = DecodedOf
    BY <1>4, <2>1, <2>4 DEF Steady
  <2>6. /\ Len(decoded') \in Nat /\ DOMAIN decoded' = 1 .. Len(decoded')
        /\ {decoded'[i] : i \in DOMAIN decoded'} = DecodedOf
    BY <1>1, <2>1, <2>5, DecodedIsFinite, OrderHasAll
  <2>7. DecodedSet' = DecodedOf /\ DecodedOf' = DecodedOf
    BY <1>1, <2>6 DEF DecodedSet, DecodedOf, Decodable
  <2>8. InReach' = InReach
    BY <1>1, ReachStays DEF Stages, Scanning, Listing
  <2>9. {f \in tree : f.root \in command.roots /\ JavaDone(f.root)}' = {f \in tree : f.root \in command.roots /\ JavaDone(f.root)}
    BY <1>1 DEF JavaDone
  <2>10. stage' \notin Scanning \cup {"taint"} /\ stage' \notin Stages \ {"report", "done"}
    BY <1>1 DEF Scanning, Listing
  <2> QED BY <1>1, <1>4, <2>6, <2>7, <2>8, <2>9, <2>10 DEF Found
<1>5. Going /\ (Steady' => Steady)
  BY <1>1, SteadyBefore DEF Going, DiskNext
<1> QED BY <1>2, <1>3, <1>4, <1>5 DEF DiskInv

LEMMA ReportKeeps == ASSUME DiskInv, ReportDisk PROVE DiskInv'
<1>1. /\ stage = "report" /\ stage' = "done" /\ DiskTypes /\ Accounted /\ ~Ok
      /\ UNCHANGED <<tree, command, readable, todo, listed, skips, signed, engineSaw, scanned, failedRoots, rawHits,
                 taintHits, javaHits, decoded, javaTrouble, opened, cutShort>>
  BY DEF ReportDisk, DiskInv, Ok
<1>2. DiskTypes'
  BY <1>1 DEF DiskTypes, Stages, Scanning, Listing
<1>3. Accounted'
  BY <1>1 DEF Accounted, Listed, Stages, Listing, Scanning, Ok
<1>4. Told'
  <2> SUFFICES ASSUME Ok'
               PROVE  /\ scanned # {}
                      /\ status' = "ran" => failedRoots = {} /\ ~(SkipsTotal > 0)
                      /\ findings' = Survivors(rawHits \cup DecodedSet \cup taintHits) \cup javaHits
    <3>1. UNCHANGED <<SkipsTotal, DecodedSet>>
      BY <1>1 DEF SkipsTotal, DecodedSet
    <3>2. Survivors(rawHits \cup DecodedSet \cup taintHits)' = Survivors(rawHits \cup DecodedSet \cup taintHits)
      BY <1>1, <3>1 DEF Survivors, Place
    <3> QED BY <1>1, <3>1, <3>2 DEF Told
  <2>1. scanned # {}
    BY DEF ReportDisk, Ok
  <2> QED BY <2>1 DEF ReportDisk, DecodedSet
<1>5. ASSUME Found, Going' PROVE Found'
  <2>1. Ok'
    BY <1>1, <1>5 DEF Going, Ok
  <2>2. InReach' = InReach
    BY <1>1, <2>1, ReachStays DEF Stages, Scanning, Listing
  <2>3. {f \in tree : f.root \in command.roots /\ JavaDone(f.root)}' = {f \in tree : f.root \in command.roots /\ JavaDone(f.root)}
    BY <1>1, <2>1 DEF JavaDone
  <2>4. stage' \notin Scanning \cup {"taint"} /\ stage' \notin Stages \ {"report", "done"}
    BY <1>1 DEF Scanning, Listing
  <2>5. UNCHANGED <<DecodedSet, DecodedOf>>
    BY <1>1 DEF DecodedSet, DecodedOf, Decodable
  <2> QED BY <1>1, <1>5, <2>2, <2>3, <2>4, <2>5 DEF Found
<1>6. Going /\ (Steady' => Steady)
  BY <1>1, SteadyBefore DEF Going, DiskNext
<1> QED BY <1>2, <1>3, <1>4, <1>5, <1>6 DEF DiskInv

LEMMA DiskStutters == ASSUME DiskInv, UNCHANGED diskVars PROVE DiskInv'
<1>1. DiskTypes' /\ Accounted'
  BY DEF diskVars, DiskInv, DiskTypes, Accounted, Listed, Ok
<1>2. UNCHANGED <<SkipsTotal, DecodedSet, DecodedOf, InReach>>
  BY DEF diskVars, SkipsTotal, DecodedSet, DecodedOf, Decodable, InReach, Matched, Ok
<1>3. Survivors(rawHits \cup DecodedSet \cup taintHits)' = Survivors(rawHits \cup DecodedSet \cup taintHits)
  BY <1>2 DEF diskVars, Survivors, Place
<1>4. Told'
  BY <1>2, <1>3 DEF diskVars, DiskInv, Told, Ok
<1>5. Found => Found'
  <2>1. {f \in tree : f.root \in command.roots /\ JavaDone(f.root)}' = {f \in tree : f.root \in command.roots /\ JavaDone(f.root)}
    BY DEF diskVars, JavaDone, Ok
  <2> QED BY <1>2, <2>1 DEF diskVars, Found
<1>6. (Steady' => Steady) /\ (Going' => Going)
  BY DEF diskVars, Steady, Vanished, Going
<1> QED BY <1>1, <1>4, <1>5, <1>6 DEF DiskInv

-----------------------------------------------------------------------------
(* The theorems.                                                            *)

\* Through every pass, whatever vanishes, fails or is cut short, each entry of a root that
\* was listed is on the list or among the skips; while nothing has happened to the files,
\* each pass has found all there is to find in what it went over; and a view that says it
\* ran left no root and skipped nothing.
THEOREM DiskKeepsAccount == DiskSpec => []DiskInv
<1>1. DiskInv /\ [DiskNext]_diskVars => DiskInv'
  <2> SUFFICES ASSUME DiskInv, [DiskNext]_diskVars PROVE DiskInv'
    OBVIOUS
  <2>1. CASE StartDisk
    BY <2>1, StartKeeps
  <2>2. CASE \E r \in command.roots : Enumerate(r)
    BY <2>2, EnumerateKeeps
  <2>3. CASE ReadSigns
    BY <2>3, SignsKeep
  <2>4. CASE \E r \in command.roots : Engine(r)
    BY <2>4, EngineKeeps
  <2>5. CASE Taint
    BY <2>5, TaintKeeps
  <2>6. CASE \E r \in command.roots : JavaScan(r)
    BY <2>6, JavaKeeps
  <2>7. CASE Mirror
    BY <2>7, MirrorKeeps
  <2>8. CASE ReportDisk
    BY <2>8, ReportKeeps
  <2>9. CASE \E f \in readable : Vanish(f)
    BY <2>9, VanishKeeps
  <2>10. CASE UNCHANGED diskVars
    BY <2>10, DiskStutters
  <2> QED BY <2>1, <2>2, <2>3, <2>4, <2>5, <2>6, <2>7, <2>8, <2>9, <2>10 DEF DiskNext
<1> QED BY <1>1, DiskStarts, PTL DEF DiskSpec

\* A disk view that says it ran has looked at everything in its roots, unless a file went
\* or the engine was cut short under it.
THEOREM ViewsAreHonest == DiskSpec => []DiskIsHonest
<1> QED BY DiskKeepsAccount, HonestWhenDone, PTL

\* A shell under a name that claims no language is found as it is under its own.
THEOREM RenamingHidesNothing == DiskSpec => []RenamedIsAsNamed
<1> QED BY DiskKeepsAccount, AlikeWhenDone, PTL

-----------------------------------------------------------------------------
(* Discovery: sequences made of sequences.                                  *)

\* FlattenSeq joins the sequences one after the other.
LEMMA FlattenSteps ==
  ASSUME NEW S, NEW ss \in Seq(Seq(S)), ss # <<>>
  PROVE  \E f \in [1 .. Len(ss) -> Seq(S)] :
           /\ f[1] = ss[1] /\ \A i \in 2 .. Len(ss) : f[i] = f[i - 1] \o ss[i]
           /\ FlattenSeq(ss) = f[Len(ss)]
<1> DEFINE n == Len(ss)
           step == [x \in Nat \X Seq(S) |-> IF x[1] = 1 THEN ss[1]
                                            ELSE IF x[1] \in 1 .. n THEN x[2] \o ss[x[1]] ELSE <<>>]
           Right(f) == f = [i \in 1 .. n |-> IF i = 1 THEN ss[i] ELSE f[i - 1] \o ss[i]]
           f == CHOOSE f : Right(f)
<1>1. n \in Nat /\ n >= 1 /\ \A i \in 1 .. n : ss[i] \in Seq(S)
  BY EmptySeq, LenProperties
<1>2. step \in [Nat \X Seq(S) -> Seq(S)]
  <2>1. \A k \in Nat, t \in Seq(S) : step[<<k, t>>] \in Seq(S)
    BY <1>1, EmptySeq, ConcatProperties
  <2> QED BY <2>1
<1> HIDE DEF step
<1> DEFINE Q == Seq(S)
<1>0. <<>> \in Q /\ (\A s, t \in Q : s \o t \in Q) /\ step \in [Nat \X Q -> Q] /\ \A i \in 1 .. n : ss[i] \in Q
  BY <1>1, <1>2, EmptySeq, ConcatProperties
<1> HIDE DEF Q, n
<1>3. PICK g : Stepwise(g, n, Q, <<>>, step)
  BY <1>0, <1>1, Recursion
<1> DEFINE h == [i \in 1 .. n |-> g[i]]
<1>4. \A i \in 1 .. n : h[i] = IF i = 1 THEN ss[i] ELSE h[i - 1] \o ss[i]
  <2> TAKE i \in 1 .. n
  <2>1. i - 1 \in 0 .. n /\ g[i - 1] \in Q /\ i \in Nat
    BY <1>1, <1>3 DEF Stepwise
  <2>2. h[i] = step[<<i, g[i - 1]>>] /\ step[<<i, g[i - 1]>>] = IF i = 1 THEN ss[i] ELSE g[i - 1] \o ss[i]
    BY <1>1, <1>3, <2>1 DEF step, Q, Stepwise
  <2>3. i # 1 => i - 1 \in 1 .. n /\ h[i - 1] = g[i - 1]
    BY <1>1, <2>1
  <2> QED BY <2>2, <2>3
<1>5. Right(h)
  BY <1>4, Zenon
<1>6. Right(f)
  BY <1>5
<1> HIDE DEF f
<1>7. FlattenSeq(ss) = f[n]
  BY <1>1 DEF FlattenSeq, f, n
<1>8. /\ DOMAIN f = 1 .. n
      /\ \A i \in 1 .. n : f[i] = IF i = 1 THEN ss[i] ELSE f[i - 1] \o ss[i]
      /\ f = [i \in 1 .. n |-> f[i]]
  <2> DEFINE E(i) == IF i = 1 THEN ss[i] ELSE f[i - 1] \o ss[i]
  <2>1. f = [i \in 1 .. n |-> E(i)]
    BY <1>6
  <2> QED BY <2>1
<1>9. \A i \in 1 .. n : f[i] \in Q
  <2> DEFINE T == {0} \cup {i \in 1 .. n : f[i] \in Q}
  <2>1. ASSUME NEW i \in 1 .. n, i - 1 \in T PROVE i \in T
    <3>1. CASE i = 1
      BY <1>0, <1>1, <1>8, <3>1
    <3>2. CASE i # 1
      <4>1. f[i - 1] \in Q
        BY <1>1, <2>1, <3>2
      <4>2. ss[i] \in Q /\ f[i] = f[i - 1] \o ss[i]
        BY <1>0, <1>8, <3>2
      <4> QED BY <1>0, <4>1, <4>2
    <3> QED BY <3>1, <3>2
  <2>2. \A i \in 0 .. n : i \in T
    BY <1>1, <2>1, UpTo
  <2> QED BY <1>1, <2>2
<1>10. f \in [1 .. n -> Q] /\ f[1] = ss[1] /\ \A i \in 2 .. n : f[i] = f[i - 1] \o ss[i]
  <2>1. f \in [1 .. n -> Q]
    BY <1>8, <1>9
  <2>2. 1 \in 1 .. n /\ \A i \in 2 .. n : i \in 1 .. n /\ i # 1
    BY <1>1
  <2> QED BY <1>8, <2>1, <2>2
<1> QED BY <1>7, <1>10 DEF n, Q

\* Where the items of two sequences are in the one made of both.
LEMMA Concatenated ==
  ASSUME NEW S, NEW s \in Seq(S), NEW t \in Seq(S)
  PROVE  /\ s \o t \in Seq(S)
         /\ \A a \in DOMAIN s : a \in DOMAIN (s \o t) /\ (s \o t)[a] = s[a]
         /\ \A b \in DOMAIN t : Len(s) + b \in DOMAIN (s \o t) /\ (s \o t)[Len(s) + b] = t[b]
         /\ \A c \in DOMAIN (s \o t) : \/ c \in DOMAIN s
                                       \/ \E b \in DOMAIN t : c = Len(s) + b
<1>1. /\ s \o t \in Seq(S) /\ Len(s \o t) = Len(s) + Len(t)
      /\ \A i \in 1 .. Len(s) + Len(t) : (s \o t)[i] = IF i <= Len(s) THEN s[i] ELSE t[i - Len(s)]
  BY ConcatProperties
<1>2. /\ Len(s) \in Nat /\ Len(t) \in Nat /\ DOMAIN s = 1 .. Len(s) /\ DOMAIN t = 1 .. Len(t)
      /\ DOMAIN (s \o t) = 1 .. Len(s) + Len(t)
  BY <1>1, LenProperties
<1>3. \A c \in 1 .. Len(s) + Len(t) : c \in 1 .. Len(s) \/ c - Len(s) \in 1 .. Len(t)
  BY <1>2
<1>4. ASSUME NEW c \in 1 .. Len(s) + Len(t), c - Len(s) \in 1 .. Len(t)
      PROVE  \E b \in 1 .. Len(t) : c = Len(s) + b
  <2>1. c = Len(s) + (c - Len(s))
    BY <1>2
  <2> QED BY <1>4, <2>1, Zenon
<1>5. s \o t \in Seq(S) /\ \A a \in DOMAIN s : a \in DOMAIN (s \o t) /\ (s \o t)[a] = s[a]
  BY <1>1, <1>2
<1>6. \A b \in DOMAIN t : Len(s) + b \in DOMAIN (s \o t) /\ (s \o t)[Len(s) + b] = t[b]
  <2> TAKE b \in DOMAIN t
  <2>1. b \in 1 .. Len(t) /\ Len(s) + b \in 1 .. Len(s) + Len(t) /\ ~(Len(s) + b <= Len(s)) /\ Len(s) + b - Len(s) = b
    BY <1>2
  <2> QED BY <1>1, <1>2, <2>1
<1>7. \A c \in DOMAIN (s \o t) : c \in DOMAIN s \/ \E b \in DOMAIN t : c = Len(s) + b
  BY <1>2, <1>3, <1>4, Zenon
<1> QED BY <1>5, <1>6, <1>7

\* What FlattenSeq makes has every item of every sequence and no other, in their order: a
\* relation of earlier items to later ones within and between the sequences is one in it.
LEMMA Flattened ==
  ASSUME NEW S, NEW ss \in Seq(Seq(S)), NEW R,
         \A i \in DOMAIN ss : \A a, b \in DOMAIN ss[i] : a < b => <<ss[i][a], ss[i][b]>> \in R,
         \A i, j \in DOMAIN ss : \A a \in DOMAIN ss[i], b \in DOMAIN ss[j] :
           i < j => <<ss[i][a], ss[j][b]>> \in R
  PROVE  /\ FlattenSeq(ss) \in Seq(S)
         /\ \A i \in DOMAIN ss : \A a \in DOMAIN ss[i] :
              \E b \in DOMAIN FlattenSeq(ss) : FlattenSeq(ss)[b] = ss[i][a]
         /\ \A b \in DOMAIN FlattenSeq(ss) :
              \E i \in DOMAIN ss : \E a \in DOMAIN ss[i] : FlattenSeq(ss)[b] = ss[i][a]
         /\ \A a, b \in DOMAIN FlattenSeq(ss) : a < b => <<FlattenSeq(ss)[a], FlattenSeq(ss)[b]>> \in R
<1>1. CASE ss = <<>>
  <2>1. FlattenSeq(ss) = <<>> /\ DOMAIN ss = {}
    BY <1>1 DEF FlattenSeq
  <2> QED BY <2>1, EmptySeq
<1>2. CASE ss # <<>>
  <2>1. PICK f \in [1 .. Len(ss) -> Seq(S)] :
           /\ f[1] = ss[1] /\ \A i \in 2 .. Len(ss) : f[i] = f[i - 1] \o ss[i]
           /\ FlattenSeq(ss) = f[Len(ss)]
    BY <1>2, FlattenSteps
  <2>2. PICK n \in Nat : n = Len(ss) /\ n >= 1 /\ DOMAIN ss = 1 .. n /\ \A i \in 1 .. n : ss[i] \in Seq(S)
    BY <1>2, EmptySeq, LenProperties
  <2> DEFINE Held(k) == \A i \in 1 .. k : \A a \in DOMAIN ss[i] : \E b \in DOMAIN f[k] : f[k][b] = ss[i][a]
             From(k) == \A b \in DOMAIN f[k] : \E i \in 1 .. k : \E a \in DOMAIN ss[i] : f[k][b] = ss[i][a]
             Apart(k) == \A a, b \in DOMAIN f[k] : a < b => <<f[k][a], f[k][b]>> \in R
             T == {0} \cup {k \in 1 .. n : Held(k) /\ From(k) /\ Apart(k)}
  <2>3. 1 \in T
    <3>1. 1 \in 1 .. n /\ f[1] = ss[1] /\ \A i \in 1 .. 1 : i = 1
      BY <2>1, <2>2
    <3>2. Held(1) /\ From(1)
      BY <2>2, <3>1
    <3>3. Apart(1)
      BY <2>2, <3>1
    <3> QED BY <3>1, <3>2, <3>3
  <2>4. ASSUME NEW k \in 2 .. n, k - 1 \in T PROVE k \in T
    <3>1. k \in 1 .. n /\ k - 1 \in 1 .. n /\ k - 1 # 0 /\ k - 1 < k /\ \A i \in 1 .. k : i \in 1 .. k - 1 \/ i = k
      BY <2>2
    <3>2. Held(k - 1) /\ From(k - 1) /\ Apart(k - 1)
      BY <2>4, <3>1
    <3>3. PICK s \in Seq(S) : s = f[k - 1]
      BY <2>1, <2>2, <3>1
    <3>4. PICK t \in Seq(S) : t = ss[k]
      BY <2>2, <3>1
    <3>5. f[k] = s \o t
      BY <2>1, <2>2, <3>3, <3>4
    <3> DEFINE u == s \o t
    <3>6. /\ \A a \in DOMAIN s : a \in DOMAIN u /\ u[a] = s[a]
          /\ \A b \in DOMAIN t : Len(s) + b \in DOMAIN u /\ u[Len(s) + b] = t[b]
          /\ \A c \in DOMAIN u : c \in DOMAIN s \/ \E b \in DOMAIN t : c = Len(s) + b
      BY Concatenated
    <3>0. f[k] = u
      BY <3>5
    <3> HIDE DEF u
    <3>7. Held(k)
      <4>1. ASSUME NEW i \in 1 .. k, NEW a \in DOMAIN ss[i] PROVE \E b \in DOMAIN u : u[b] = ss[i][a]
        <5>1. CASE i = k
          BY <3>4, <3>6, <5>1
        <5>2. CASE i \in 1 .. k - 1
          BY <3>2, <3>3, <3>6, <5>2
        <5> QED BY <3>1, <5>1, <5>2
      <4> QED BY <3>0, <4>1
    <3>8. From(k)
      <4>1. ASSUME NEW c \in DOMAIN u PROVE \E i \in 1 .. k : \E a \in DOMAIN ss[i] : u[c] = ss[i][a]
        <5>1. CASE c \in DOMAIN s
          <6>1. PICK i \in 1 .. k - 1 : \E a \in DOMAIN ss[i] : s[c] = ss[i][a]
            BY <3>2, <3>3, <5>1
          <6> QED BY <3>1, <3>6, <5>1, <6>1
        <5>2. CASE \E b \in DOMAIN t : c = Len(s) + b
          BY <2>2, <3>1, <3>4, <3>6, <5>2
        <5> QED BY <3>6, <4>1, <5>1, <5>2
      <4> QED BY <3>0, <4>1
    <3>9. Apart(k)
      <4>0. DOMAIN s = 1 .. Len(s) /\ DOMAIN t = 1 .. Len(t) /\ Len(s) \in Nat /\ Len(t) \in Nat
        BY LenProperties
      <4>1. ASSUME NEW c \in DOMAIN u, NEW d \in DOMAIN u, c < d PROVE <<u[c], u[d]>> \in R
        <5>1. CASE c \in DOMAIN s /\ d \in DOMAIN s
          BY <3>2, <3>3, <3>6, <4>1, <5>1
        <5>2. ASSUME c \in DOMAIN s, NEW b \in DOMAIN t, d = Len(s) + b PROVE <<u[c], u[d]>> \in R
          <6>1. PICK i \in 1 .. k - 1 : \E a \in DOMAIN ss[i] : s[c] = ss[i][a]
            BY <3>2, <3>3, <5>2
          <6>0. PICK a \in DOMAIN ss[i] : s[c] = ss[i][a]
            BY <6>1
          <6>2. i \in DOMAIN ss /\ k \in DOMAIN ss /\ i < k /\ b \in DOMAIN ss[k]
            BY <2>2, <3>1, <3>4
          <6>3. <<ss[i][a], ss[k][b]>> \in R
            BY <6>0, <6>2
          <6>4. u[c] = ss[i][a] /\ u[d] = ss[k][b]
            BY <3>4, <3>6, <5>2, <6>0
          <6> QED BY <6>3, <6>4
        <5>3. ASSUME NEW a \in DOMAIN t, c = Len(s) + a, NEW b \in DOMAIN t, d = Len(s) + b PROVE <<u[c], u[d]>> \in R
          <6>1. a < b /\ k \in DOMAIN ss
            BY <2>2, <3>1, <4>0, <4>1, <5>3
          <6> QED BY <3>4, <3>6, <5>3, <6>1
        <5>4. ASSUME NEW a \in DOMAIN t, c = Len(s) + a, d \in DOMAIN s PROVE FALSE
          BY <4>0, <4>1, <5>4
        <5> QED BY <3>6, <4>1, <5>1, <5>2, <5>3, <5>4
      <4> QED BY <3>0, <4>1
    <3> QED BY <3>1, <3>7, <3>8, <3>9
  <2>5. \A i \in 0 .. n : i \in T
    <3>1. ASSUME NEW k \in 1 .. n, k - 1 \in T PROVE k \in T
      <4>1. k = 1 \/ k \in 2 .. n
        BY <2>2
      <4> HIDE DEF T
      <4> QED BY <2>3, <2>4, <3>1, <4>1
    <3>2. 0 \in T
      OBVIOUS
    <3> HIDE DEF T
    <3> QED BY <2>2, <3>1, <3>2, UpTo
  <2>6. n \in 1 .. n /\ Held(n) /\ From(n) /\ Apart(n)
    <3>1. n \in T /\ n # 0
      <4> HIDE DEF T
      <4>1. n \in 0 .. n /\ n # 0
        BY <2>2
      <4> QED BY <2>5, <4>1
    <3> QED BY <2>2, <3>1
  <2>7. \E t \in Seq(S) : t = FlattenSeq(ss) /\ t = f[n]
    BY <2>1, <2>2, <2>6
  <2>8. PICK t \in Seq(S) : t = FlattenSeq(ss) /\ t = f[n]
    BY <2>7
  <2>9. /\ \A i \in DOMAIN ss : \A a \in DOMAIN ss[i] : \E b \in DOMAIN t : t[b] = ss[i][a]
        /\ \A b \in DOMAIN t : \E i \in DOMAIN ss : \E a \in DOMAIN ss[i] : t[b] = ss[i][a]
        /\ \A a, b \in DOMAIN t : a < b => <<t[a], t[b]>> \in R
    <3>1. Held(n) /\ From(n) /\ Apart(n) /\ DOMAIN ss = 1 .. n
      BY <2>2, <2>6
    <3>2. \A i \in DOMAIN ss : \A a \in DOMAIN ss[i] : \E b \in DOMAIN t : t[b] = ss[i][a]
      BY <2>8, <3>1
    <3>3. \A b \in DOMAIN t : \E i \in DOMAIN ss : \E a \in DOMAIN ss[i] : t[b] = ss[i][a]
      <4> TAKE b \in DOMAIN t
      <4>1. b \in DOMAIN f[n] /\ t[b] = f[n][b]
        BY <2>8
      <4>2. PICK i \in 1 .. n : \E a \in DOMAIN ss[i] : f[n][b] = ss[i][a]
        BY <3>1, <4>1
      <4>3. PICK a \in DOMAIN ss[i] : f[n][b] = ss[i][a]
        BY <4>2
      <4>4. i \in DOMAIN ss /\ t[b] = ss[i][a]
        BY <2>2, <4>1, <4>3
      <4> QED BY <4>4
    <3>4. \A a, b \in DOMAIN t : a < b => <<t[a], t[b]>> \in R
      BY <2>8, <3>1
    <3> QED BY <3>2, <3>3, <3>4
  <2> QED BY <2>8, <2>9
<1> QED BY <1>1, <1>2

-----------------------------------------------------------------------------
(* Prefixes.                                                                *)

\* A prefix agrees on all its items, and a strict one is shorter.
LEMMA PrefixIs ==
  ASSUME NEW S, NEW s \in Seq(S), NEW t \in Seq(S)
  PROVE  /\ IsPrefix(s, t) <=> Len(s) <= Len(t) /\ \A i \in 1 .. Len(s) : s[i] = t[i]
         /\ IsStrictPrefix(s, t) => Len(s) < Len(t)
<1>1. Len(s) \in Nat /\ Len(t) \in Nat /\ DOMAIN s = 1 .. Len(s) /\ DOMAIN t = 1 .. Len(t)
  BY LenProperties
<1>2. SubSeq(s, 1, Len(s)) = s
  BY SubSeqFull
<1>3. (\A i \in 1 .. Len(t) : t[i] \in S) /\ \A i \in 1 .. Len(s) : s[i] \in S
  BY <1>1, ElementOfSeq
<1>4. ASSUME Len(s) <= Len(t)
      PROVE  /\ SubSeq(t, 1, Len(s)) \in Seq(S) /\ Len(SubSeq(t, 1, Len(s))) = Len(s)
             /\ \A i \in 1 .. Len(s) : SubSeq(t, 1, Len(s))[i] = t[i]
  <2>1. \A i \in 1 .. Len(s) : t[i] \in S /\ 1 + i - 1 = i
    BY <1>1, <1>3, <1>4
  <2>2. /\ SubSeq(t, 1, Len(s)) \in Seq(S)
        /\ Len(SubSeq(t, 1, Len(s))) = IF 1 <= Len(s) THEN Len(s) - 1 + 1 ELSE 0
        /\ \A i \in 1 .. Len(s) - 1 + 1 : SubSeq(t, 1, Len(s))[i] = t[1 + i - 1]
    BY <1>1, <2>1, SubSeqProperties
  <2> DEFINE u == SubSeq(t, 1, Len(s))
  <2> HIDE DEF u
  <2>3. u \in Seq(S) /\ Len(u) = Len(s)
    BY <1>1, <2>2 DEF u
  <2>4. ASSUME NEW i \in 1 .. Len(s) PROVE u[i] = t[i]
    <3>1. i \in 1 .. Len(s) - 1 + 1 /\ 1 + i - 1 = i
      BY <1>1
    <3>2. u[i] = t[1 + i - 1]
      BY <2>2, <3>1 DEF u
    <3> QED BY <3>1, <3>2
  <2> QED BY <2>3, <2>4 DEF u
<1>5. ASSUME IsPrefix(s, t) PROVE Len(s) <= Len(t) /\ \A i \in 1 .. Len(s) : s[i] = t[i]
  BY <1>2, <1>4, <1>5 DEF IsPrefix
<1>6. ASSUME Len(s) <= Len(t), \A i \in 1 .. Len(s) : s[i] = t[i] PROVE IsPrefix(s, t)
  <2>1. s = SubSeq(t, 1, Len(s))
    BY <1>4, <1>6, SeqEqual
  <2> QED BY <1>2, <1>6, <2>1 DEF IsPrefix
<1>7. ASSUME IsStrictPrefix(s, t) PROVE Len(s) < Len(t)
  <2>1. Len(s) <= Len(t) /\ (\A i \in 1 .. Len(s) : s[i] = t[i]) /\ s # t
    BY <1>5, <1>7 DEF IsStrictPrefix
  <2>2. Len(s) # Len(t)
    BY <2>1, SeqEqual
  <2>3. PICK n \in Nat, m \in Nat : n = Len(s) /\ m = Len(t)
    BY <1>1
  <2>4. n <= m /\ n # m
    BY <2>1, <2>2, <2>3
  <2>5. n < m
    BY <2>4
  <2> QED BY <2>3, <2>5
<1> QED BY <1>5, <1>6, <1>7

LEMMA PrefixTransitive ==
  ASSUME NEW S, NEW s \in Seq(S), NEW t \in Seq(S), NEW u \in Seq(S), IsPrefix(s, t), IsPrefix(t, u)
  PROVE  IsPrefix(s, u)
BY LenProperties, PrefixIs

LEMMA PrefixConcat ==
  ASSUME NEW S, NEW s \in Seq(S), NEW t \in Seq(S)
  PROVE  IsPrefix(s, s \o t)
<1>1. PICK u \in Seq(S) : u = s \o t /\ Len(u) = Len(s) + Len(t) /\ \A i \in DOMAIN s : u[i] = s[i]
  <2>1. s \o t \in Seq(S) /\ Len(s \o t) = Len(s) + Len(t)
    BY ConcatProperties
  <2>2. \A i \in DOMAIN s : (s \o t)[i] = s[i]
    BY Concatenated
  <2> QED BY <2>1, <2>2
<1>2. PICK n \in Nat, m \in Nat : n = Len(s) /\ m = Len(t) /\ DOMAIN s = 1 .. n
  BY LenProperties
<1>3. n <= n + m
  BY <1>2
<1>4. Len(s) <= Len(u) /\ \A i \in 1 .. Len(s) : s[i] = u[i]
  BY <1>1, <1>2, <1>3
<1>5. IsPrefix(s, u)
  BY <1>4, PrefixIs
<1> QED BY <1>1, <1>5

LEMMA PrefixAppend ==
  ASSUME NEW S, NEW s \in Seq(S), NEW t \in Seq(S), NEW c \in S, IsPrefix(s, t)
  PROVE  Append(t, c) \in Seq(S) /\ IsPrefix(s, Append(t, c))
<1>1. /\ Append(t, c) \in Seq(S) /\ Len(Append(t, c)) = Len(t) + 1
      /\ \A i \in 1 .. Len(t) : Append(t, c)[i] = t[i]
  BY AppendProperties
<1>2. PICK u \in Seq(S) : u = Append(t, c) /\ Len(u) = Len(t) + 1 /\ \A i \in 1 .. Len(t) : u[i] = t[i]
  BY <1>1
<1>3. Len(s) \in Nat /\ Len(t) \in Nat /\ Len(s) <= Len(t) /\ \A i \in 1 .. Len(s) : s[i] = t[i]
  BY LenProperties, PrefixIs
<1>4. Len(s) <= Len(u) /\ \A i \in 1 .. Len(s) : s[i] = u[i]
  BY <1>2, <1>3
<1>5. IsPrefix(s, u)
  BY <1>4, PrefixIs
<1> QED BY <1>2, <1>5

LEMMA PrefixFront ==
  ASSUME NEW S, NEW s \in Seq(S), NEW t \in Seq(S), IsPrefix(s, t), t # s
  PROVE  Front(t) \in Seq(S) /\ IsPrefix(s, Front(t))
<1>1. Len(s) \in Nat /\ Len(t) \in Nat /\ Len(s) < Len(t) /\ \A i \in 1 .. Len(s) : s[i] = t[i]
  BY LenProperties, PrefixIs DEF IsStrictPrefix
<1>2. \A i \in 1 .. Len(t) - 1 : t[i] \in S /\ 1 + i - 1 = i
  BY <1>1, ElementOfSeq, LenProperties
<1>3. /\ SubSeq(t, 1, Len(t) - 1) \in Seq(S)
      /\ Len(SubSeq(t, 1, Len(t) - 1)) = IF 1 <= Len(t) - 1 THEN Len(t) - 1 - 1 + 1 ELSE 0
      /\ \A i \in 1 .. Len(t) - 1 - 1 + 1 : SubSeq(t, 1, Len(t) - 1)[i] = t[1 + i - 1]
  BY <1>1, <1>2, SubSeqProperties
<1>4. PICK u \in Seq(S) : u = Front(t) /\ Len(u) = Len(t) - 1 /\ \A i \in 1 .. Len(t) - 1 : u[i] = t[i]
  <2> DEFINE u == SubSeq(t, 1, Len(t) - 1)
  <2> HIDE DEF u
  <2>1. u \in Seq(S) /\ Len(u) = Len(t) - 1
    <3>1. PICK m \in Nat : m = Len(t) /\ m >= 1
      BY <1>1
    <3>2. (IF 1 <= m - 1 THEN m - 1 - 1 + 1 ELSE 0) = m - 1
      BY <3>1
    <3> QED BY <1>3, <3>1, <3>2 DEF u
  <2>2. ASSUME NEW i \in 1 .. Len(t) - 1 PROVE u[i] = t[i]
    <3>1. i \in 1 .. Len(t) - 1 - 1 + 1 /\ 1 + i - 1 = i
      BY <1>1
    <3>2. u[i] = t[1 + i - 1]
      BY <1>3, <3>1 DEF u
    <3> QED BY <3>1, <3>2
  <2> QED BY <2>1, <2>2 DEF u, Front
<1>5. Len(s) <= Len(u) /\ \A i \in 1 .. Len(s) : s[i] = u[i]
  BY <1>1, <1>4
<1>6. IsPrefix(s, u)
  BY <1>5, PrefixIs
<1> QED BY <1>4, <1>6

LEMMA FrontOfSeq ==
  ASSUME NEW S, NEW t \in Seq(S), t # <<>>
  PROVE  Front(t) \in Seq(S)
<1>1. <<>> \in Seq(S) /\ IsPrefix(<<>>, t)
  <2>1. <<>> \in Seq(S) /\ Len(<<>>) = 0 /\ Len(t) \in Nat
    BY EmptySeq, LenProperties
  <2>2. PICK e \in Seq(S) : e = <<>> /\ Len(e) = 0
    BY <2>1
  <2>3. Len(e) <= Len(t) /\ \A i \in 1 .. Len(e) : e[i] = t[i]
    BY <2>1, <2>2
  <2>4. IsPrefix(e, t)
    BY <2>3, PrefixIs
  <2> QED BY <2>2, <2>4
<1> QED BY <1>1, PrefixFront

-----------------------------------------------------------------------------
(* Rows: sequences of whatever they hold.                                   *)

Rows(s) == s \in Seq(Range(s))

\* A function on the first numbers is a sequence.
LEMMA RowsOf ==
  ASSUME NEW n \in Nat, NEW s, s = [i \in 1 .. n |-> s[i]]
  PROVE  Rows(s) /\ Len(s) = n /\ DOMAIN s = 1 .. n
<1>1. DOMAIN s = 1 .. n /\ \A i \in 1 .. n : s[i] \in Range(s)
  BY DEF Range
<1>2. s \in [1 .. n -> Range(s)]
  BY <1>1
<1>3. s \in Seq(Range(s))
  BY <1>2
<1> QED BY <1>1, <1>3, LenProperties DEF Rows

LEMMA RowsAre ==
  ASSUME NEW s, Rows(s)
  PROVE  \E n \in Nat : n = Len(s) /\ DOMAIN s = 1 .. n /\ s = [i \in 1 .. n |-> s[i]]
BY LenProperties DEF Rows

LEMMA RowsIn ==
  ASSUME NEW S, NEW s \in Seq(S)
  PROVE  Rows(s) /\ Range(s) \subseteq S
<1>1. PICK n \in Nat : n = Len(s) /\ DOMAIN s = 1 .. n /\ s = [i \in 1 .. n |-> s[i]] /\ \A i \in 1 .. n : s[i] \in S
  BY LenProperties, ElementOfSeq
<1> QED BY <1>1, RowsOf DEF Range

LEMMA RowsMapped ==
  ASSUME NEW s, Rows(s), NEW t, t = [i \in DOMAIN s |-> t[i]]
  PROVE  Rows(t) /\ DOMAIN t = DOMAIN s
BY RowsAre, RowsOf

LEMMA RowsWithin ==
  ASSUME NEW S, NEW s, Rows(s), Range(s) \subseteq S
  PROVE  s \in Seq(S)
<1>1. PICK n \in Nat : DOMAIN s = 1 .. n /\ s = [i \in 1 .. n |-> s[i]]
  BY RowsAre
<1>2. \A i \in 1 .. n : s[i] \in S
  BY <1>1 DEF Range
<1>3. s \in [1 .. n -> S]
  BY <1>1, <1>2
<1> QED BY <1>3

LEMMA RowsJoined ==
  ASSUME NEW s, NEW t, Rows(s), Rows(t)
  PROVE  Rows(s \o t) /\ Range(s \o t) = Range(s) \cup Range(t)
<1> DEFINE S == Range(s) \cup Range(t)
<1>1. s \in Seq(S) /\ t \in Seq(S)
  BY RowsWithin
<1> HIDE DEF S
<1>2. /\ s \o t \in Seq(S)
      /\ \A a \in DOMAIN s : a \in DOMAIN (s \o t) /\ (s \o t)[a] = s[a]
      /\ \A b \in DOMAIN t : Len(s) + b \in DOMAIN (s \o t) /\ (s \o t)[Len(s) + b] = t[b]
  BY <1>1, Concatenated
<1>3. Rows(s \o t) /\ Range(s \o t) \subseteq S
  BY <1>2, RowsIn
<1>4. S \subseteq Range(s \o t)
  BY <1>2 DEF Range, S
<1> QED BY <1>3, <1>4 DEF S

LEMMA RowsOfOne == \A x : Rows(<<x>>) /\ Range(<<x>>) = {x}
<1> TAKE x
<1>1. <<x>> = [i \in 1 .. 1 |-> <<x>>[i]] /\ \A i \in 1 .. 1 : i = 1
  OBVIOUS
<1>2. Rows(<<x>>) /\ DOMAIN <<x>> = 1 .. 1
  BY <1>1, RowsOf
<1> QED BY <1>1, <1>2 DEF Range

LEMMA RowsOfNone == Rows(<<>>) /\ Range(<<>>) = {}
<1>1. <<>> \in Seq({}) /\ DOMAIN <<>> = {}
  OBVIOUS
<1> QED BY <1>1, RowsIn DEF Range

\* What is in the sequence made of sequences is what is in one of them.
LEMMA RowsFlattened ==
  ASSUME NEW ss, Rows(ss), \A i \in DOMAIN ss : Rows(ss[i])
  PROVE  Rows(FlattenSeq(ss)) /\ Range(FlattenSeq(ss)) = UNION {Range(ss[i]) : i \in DOMAIN ss}
<1> DEFINE S == UNION {Range(ss[i]) : i \in DOMAIN ss}
           R == S \X S
<1>1. \A i \in DOMAIN ss : ss[i] \in Seq(S) /\ \A a \in DOMAIN ss[i] : ss[i][a] \in S
  <2> TAKE i \in DOMAIN ss
  <2>1. Range(ss[i]) \subseteq S
    OBVIOUS
  <2> HIDE DEF S
  <2>2. ss[i] \in Seq(S)
    BY <2>1, RowsWithin
  <2> QED BY <2>1, <2>2 DEF Range
<1> HIDE DEF S
<1>2. ss \in Seq(Seq(S))
  <2>1. Range(ss) \subseteq Seq(S)
    BY <1>1 DEF Range
  <2> QED BY <2>1, RowsWithin
<1>3. /\ \A i \in DOMAIN ss : \A a, b \in DOMAIN ss[i] : a < b => <<ss[i][a], ss[i][b]>> \in R
      /\ \A i, j \in DOMAIN ss : \A a \in DOMAIN ss[i], b \in DOMAIN ss[j] : i < j => <<ss[i][a], ss[j][b]>> \in R
  BY <1>1
<1> HIDE DEF R
<1>4. /\ FlattenSeq(ss) \in Seq(S)
      /\ \A i \in DOMAIN ss : \A a \in DOMAIN ss[i] : \E b \in DOMAIN FlattenSeq(ss) : FlattenSeq(ss)[b] = ss[i][a]
  BY <1>2, <1>3, Flattened
<1>5. Rows(FlattenSeq(ss)) /\ Range(FlattenSeq(ss)) \subseteq S
  BY <1>4, RowsIn
<1>6. S \subseteq Range(FlattenSeq(ss))
  BY <1>4 DEF S, Range
<1> QED BY <1>5, <1>6 DEF S

-----------------------------------------------------------------------------
(* Paths.                                                                   *)

LEMMA PathSteps ==
  /\ <<>> \in FilePath
  /\ \A q \in FilePath, c \in Components : Append(q, c) \in FilePath
  /\ \A q \in FilePath : q # <<>> => Front(q) \in FilePath /\ Head(q) \in Components /\ Tail(q) \in FilePath
  /\ \A q, r \in FilePath : q \o r \in FilePath
<1>1. <<>> \in FilePath
  BY EmptySeq DEF FilePath
<1>2. \A q \in FilePath, c \in Components : Append(q, c) \in FilePath
  BY AppendProperties DEF FilePath
<1>3. \A q \in FilePath : q # <<>> => Front(q) \in FilePath /\ Head(q) \in Components /\ Tail(q) \in FilePath
  BY FrontOfSeq, HeadTailProperties DEF FilePath
<1>4. \A q, r \in FilePath : q \o r \in FilePath
  BY ConcatProperties DEF FilePath
<1> QED BY <1>1, <1>2, <1>3, <1>4

LEMMA JoinedIsPath ==
  ASSUME NEW done \in FilePath, NEW c \in Components
  PROVE  Joined(done, c) \in FilePath
BY PathSteps DEF Joined

\* A path made clean is a path.
LEMMA CleanIsPath ==
  ASSUME NEW path \in FilePath
  PROVE  Clean(path) \in FilePath
<1>1. PICK n \in Nat : n = Len(path) /\ \A i \in 1 .. n : path[i] \in Components
  BY LenProperties, ElementOfSeq DEF FilePath
<1> DEFINE step == [x \in Nat \X FilePath |-> IF x[1] \in 1 .. n THEN Joined(x[2], path[x[1]]) ELSE <<>>]
           Right(f) == f = [i \in 0 .. n |-> IF i = 0 THEN <<>> ELSE Joined(f[i - 1], path[i])]
           f == CHOOSE f : Right(f)
<1>2. step \in [Nat \X FilePath -> FilePath]
  <2>1. \A k \in Nat, q \in FilePath : step[<<k, q>>] \in FilePath
    BY <1>1, PathSteps, JoinedIsPath
  <2> QED BY <2>1
<1>3. \A i \in 1 .. n, q \in FilePath : step[<<i, q>>] = Joined(q, path[i])
  BY <1>1
<1> HIDE DEF step
<1>4. PICK g : Stepwise(g, n, FilePath, <<>>, step)
  BY <1>1, <1>2, PathSteps, Recursion
<1>5. /\ DOMAIN g = 0 .. n /\ g[0] = <<>> /\ g = [i \in 0 .. n |-> g[i]]
      /\ \A i \in 1 .. n : g[i - 1] \in FilePath /\ g[i] = step[<<i, g[i - 1]>>]
  BY <1>1, <1>4 DEF Stepwise
<1>6. \A i \in 0 .. n : g[i] = IF i = 0 THEN <<>> ELSE Joined(g[i - 1], path[i])
  <2> TAKE i \in 0 .. n
  <2>1. CASE i = 0
    BY <1>5, <2>1
  <2>2. CASE i # 0
    <3>1. i \in 1 .. n
      BY <1>1, <2>2
    <3> QED BY <1>3, <1>5, <2>2, <3>1
  <2> QED BY <2>1, <2>2
<1>7. Right(g)
  BY <1>5, <1>6
<1>8. Right(f)
  BY <1>7
<1> HIDE DEF f
<1>9. Clean(path) = f[n]
  BY <1>1 DEF Clean, f
<1> DEFINE T == {i \in 0 .. n : f[i] \in FilePath}
<1>10. \A i \in 0 .. n : f[i] = IF i = 0 THEN <<>> ELSE Joined(f[i - 1], path[i])
  <2> DEFINE E(i) == IF i = 0 THEN <<>> ELSE Joined(f[i - 1], path[i])
  <2>1. f = [i \in 0 .. n |-> E(i)]
    BY <1>8
  <2> QED BY <2>1
<1>11. 0 \in T
  BY <1>1, <1>10, PathSteps
<1>12. ASSUME NEW i \in 1 .. n, i - 1 \in T PROVE i \in T
  <2>1. i \in 0 .. n /\ i # 0 /\ f[i - 1] \in FilePath /\ path[i] \in Components
    BY <1>1, <1>12
  <2>2. f[i] = Joined(f[i - 1], path[i])
    BY <1>10, <2>1
  <2> QED BY <2>1, <2>2, JoinedIsPath
<1>13. \A i \in 0 .. n : i \in T
  <2> HIDE DEF T
  <2> QED BY <1>1, <1>11, <1>12, UpTo
<1> QED BY <1>1, <1>9, <1>13

\* What has been resolved of a path: it has not left the root.
Errors == {"none", "escapes", "loop", "notDirectory", "absent"}
Course(root) == [left : FilePath, here : {q \in FilePath : IsPrefix(root, q)}, hops : Nat, error : Errors]

LEMMA FollowStaysWithin ==
  ASSUME NEW h \in Hosts, NEW root \in FilePath, NEW at \in Course(root)
  PROVE  Follow(h, root, at) \in Course(root)
<1> DEFINE c == Head(at.left)
           next == Append(at.here, c)
<1>1. /\ at.left \in FilePath /\ at.here \in FilePath /\ IsPrefix(root, at.here) /\ at.hops \in Nat /\ at.error \in Errors
      /\ at = [left |-> at.left, here |-> at.here, hops |-> at.hops, error |-> at.error]
  BY DEF Course
<1>2. CASE at.left = <<>> \/ at.error # "none"
  BY <1>2 DEF Follow
<1>3. CASE ~(at.left = <<>> \/ at.error # "none")
  <2>1. c \in Components /\ Tail(at.left) \in FilePath
    BY <1>1, <1>3, PathSteps
  <2>2. next \in FilePath /\ IsPrefix(root, next)
    BY <1>1, <2>1, PrefixAppend DEF FilePath
  <2>3. at.here # root => Front(at.here) \in FilePath /\ IsPrefix(root, Front(at.here))
    BY <1>1, PrefixFront DEF FilePath
  <2>4. IsPrefix(root, root)
    BY LenProperties, PrefixIs DEF FilePath
  <2>5. next \in DOMAIN h.links => h.links[next].to \o Tail(at.left) \in FilePath
    BY <2>1, PathSteps, HostsAssumption
  <2> HIDE DEF next, c
  <2>6. \A q \in FilePath, r \in FilePath, k \in Nat, e \in Errors :
          IsPrefix(root, r) => [left |-> q, here |-> r, hops |-> k, error |-> e] \in Course(root)
    BY DEF Course
  <2>0. \A e \in {"escapes", "loop", "notDirectory", "absent"} :
          [left |-> at.left, here |-> at.here, hops |-> at.hops, error |-> e] \in Course(root)
    <3>1. \A e \in {"escapes", "loop", "notDirectory", "absent"} : e \in Errors
      BY DEF Errors
    <3> QED BY <1>1, <2>6, <3>1
  <2>7. CASE c = Up /\ at.here = root
    <3>1. Follow(h, root, at) = IF root = <<>> THEN [at EXCEPT !.left = Tail(@)] ELSE [at EXCEPT !.error = "escapes"]
      BY <1>3, <2>7 DEF Follow, c, next
    <3>2. CASE root = <<>>
      <4>1. Follow(h, root, at) = [left |-> Tail(at.left), here |-> at.here, hops |-> at.hops, error |-> at.error]
        BY <1>1, <3>1, <3>2
      <4> QED BY <1>1, <2>1, <2>6, <4>1
    <3>3. CASE root # <<>>
      <4>1. Follow(h, root, at) = [left |-> at.left, here |-> at.here, hops |-> at.hops, error |-> "escapes"]
        BY <1>1, <3>1, <3>3
      <4> QED BY <2>0, <4>1
    <3> QED BY <3>2, <3>3
  <2>8. CASE c = Up /\ at.here # root
    <3>1. Follow(h, root, at) = [at EXCEPT !.left = Tail(@), !.here = Front(@)]
      BY <1>3, <2>8 DEF Follow, c, next
    <3>2. Follow(h, root, at) = [left |-> Tail(at.left), here |-> Front(at.here), hops |-> at.hops, error |-> at.error]
      BY <1>1, <3>1
    <3> QED BY <1>1, <2>1, <2>3, <2>6, <2>8, <3>2
  <2>9. CASE c # Up /\ Link(h, next)
    <3>1. Follow(h, root, at) = IF at.hops = MaxHops THEN [at EXCEPT !.error = "loop"]
                                ELSE [at EXCEPT !.hops = @ + 1, !.left = h.links[next].to \o Tail(@),
                                                !.here = IF h.links[next].absolute THEN root ELSE @]
      BY <1>3, <2>9 DEF Follow, c, next
    <3>2. CASE at.hops = MaxHops
      <4>1. Follow(h, root, at) = [left |-> at.left, here |-> at.here, hops |-> at.hops, error |-> "loop"]
        BY <1>1, <3>1, <3>2
      <4> QED BY <2>0, <4>1
    <3>3. CASE at.hops # MaxHops
      <4>1. Follow(h, root, at) = [left |-> h.links[next].to \o Tail(at.left),
                                   here |-> IF h.links[next].absolute THEN root ELSE at.here,
                                   hops |-> at.hops + 1, error |-> at.error]
        BY <1>1, <3>1, <3>3
      <4>2. at.hops + 1 \in Nat
        BY <1>1
      <4> QED BY <1>1, <2>4, <2>5, <2>6, <2>9, <4>1, <4>2 DEF Link
    <3> QED BY <3>2, <3>3
  <2>10. CASE c # Up /\ ~Link(h, next) /\ Exists(h, next)
    <3>1. Follow(h, root, at) = [at EXCEPT !.left = Tail(@), !.here = next]
      BY <1>3, <2>10 DEF Follow, c, next
    <3>2. Follow(h, root, at) = [left |-> Tail(at.left), here |-> next, hops |-> at.hops, error |-> at.error]
      BY <1>1, <3>1
    <3> QED BY <1>1, <2>1, <2>2, <2>6, <3>2
  <2>11. CASE c # Up /\ ~Link(h, next) /\ ~Exists(h, next)
    <3>1. Follow(h, root, at) = [at EXCEPT !.error = IF at.here \in DOMAIN h.configs THEN "notDirectory" ELSE "absent"]
      BY <1>3, <2>11 DEF Follow, c, next
    <3>2. Follow(h, root, at) = [left |-> at.left, here |-> at.here, hops |-> at.hops,
                                 error |-> IF at.here \in DOMAIN h.configs THEN "notDirectory" ELSE "absent"]
      BY <1>1, <3>1
    <3> QED BY <2>0, <3>2
  <2> QED BY <2>7, <2>8, <2>9, <2>10, <2>11
<1> QED BY <1>2, <1>3

\* Resolving leads nowhere outside the root.
LEMMA ResolveStaysWithin ==
  ASSUME NEW h \in Hosts, NEW root \in FilePath, NEW p \in FilePath
  PROVE  Resolve(h, root, p).here \in FilePath /\ IsPrefix(root, Resolve(h, root, p).here)
<1> DEFINE W == Course(root)
           start == [left |-> SubSeq(p, Len(root) + 1, Len(p)), here |-> root, hops |-> 0, error |-> "none"]
           n == MaxComponents
           step == [x \in Nat \X W |-> Follow(h, root, x[2])]
           Right(f) == f = [i \in 0 .. n |-> IF i = 0 THEN start ELSE Follow(h, root, f[i - 1])]
           f == CHOOSE f : Right(f)
<1>1. start \in W
  <2>1. IsPrefix(root, root) /\ "none" \in Errors /\ 0 \in Nat
    BY LenProperties, PrefixIs DEF FilePath, Errors
  <2>2. SubSeq(p, Len(root) + 1, Len(p)) \in FilePath
    <3>1. PICK k \in Nat, m \in Nat : k = Len(root) /\ m = Len(p) /\ \A i \in 1 .. m : p[i] \in Components
      BY LenProperties, ElementOfSeq DEF FilePath
    <3>2. k + 1 \in Int /\ m \in Int /\ \A i \in k + 1 .. m : p[i] \in Components
      BY <3>1
    <3> QED BY <3>1, <3>2, SubSeqProperties DEF FilePath
  <2> QED BY <2>1, <2>2 DEF Course
<1>2. \A w \in W : Follow(h, root, w) \in W
  BY FollowStaysWithin
<1>3. n \in Nat
  BY TablesAssumption
<1> HIDE DEF start, W, n
<1>4. step \in [Nat \X W -> W] /\ \A i \in 1 .. n, w \in W : step[<<i, w>>] = Follow(h, root, w)
  BY <1>2, <1>3
<1> HIDE DEF step
<1>5. PICK g : Stepwise(g, n, W, start, step)
  BY <1>1, <1>3, <1>4, Recursion
<1>6. /\ DOMAIN g = 0 .. n /\ g[0] = start /\ g = [i \in 0 .. n |-> g[i]]
      /\ \A i \in 1 .. n : g[i - 1] \in W /\ g[i] = step[<<i, g[i - 1]>>]
  BY <1>3, <1>5 DEF Stepwise
<1>7. \A i \in 0 .. n : g[i] = IF i = 0 THEN start ELSE Follow(h, root, g[i - 1])
  <2> TAKE i \in 0 .. n
  <2>1. CASE i = 0
    BY <1>6, <2>1
  <2>2. CASE i # 0
    <3>1. i \in 1 .. n
      BY <1>3, <2>2
    <3> QED BY <1>4, <1>6, <2>2, <3>1
  <2> QED BY <2>1, <2>2
<1>8. Right(g)
  BY <1>6, <1>7
<1>9. Right(f)
  BY <1>8
<1> HIDE DEF f
<1>10. Resolve(h, root, p) = f[n]
  BY DEF Resolve, f, start, n
<1>11. \A i \in 0 .. n : f[i] = IF i = 0 THEN start ELSE Follow(h, root, f[i - 1])
  <2> DEFINE E(i) == IF i = 0 THEN start ELSE Follow(h, root, f[i - 1])
  <2>1. f = [i \in 0 .. n |-> E(i)]
    BY <1>9
  <2> QED BY <2>1
<1> DEFINE T == {i \in 0 .. n : f[i] \in W}
<1>12. 0 \in T
  BY <1>1, <1>3, <1>11
<1>13. ASSUME NEW i \in 1 .. n, i - 1 \in T PROVE i \in T
  <2>1. i \in 0 .. n /\ i # 0 /\ f[i - 1] \in W
    BY <1>3, <1>13
  <2>2. f[i] = Follow(h, root, f[i - 1])
    BY <1>11, <2>1
  <2> QED BY <1>2, <2>1, <2>2
<1>14. \A i \in 0 .. n : i \in T
  <2> HIDE DEF T
  <2> QED BY <1>3, <1>12, <1>13, UpTo
<1>15. f[n] \in W
  BY <1>3, <1>14
<1> QED BY <1>10, <1>15 DEF W, Course

-----------------------------------------------------------------------------
(* What the mechanisms propose.                                             *)

\* A place in the filesystem that is scanned, unless the operator named it.
Fit(p) == p.path \in FilePath /\ (p.mech # "explicit" /\ Offline => InRoot(p.path))
Good(gathered) == Rows(gathered) /\ \A p \in Range(gathered) : Fit(p)
Given == host \in Hosts /\ search \in Searches

LEMMA PathsAreRows ==
  ASSUME NEW paths \in FilePaths
  PROVE  Rows(paths) /\ \A i \in DOMAIN paths : paths[i] \in FilePath
<1>1. paths \in Seq(FilePath)
  BY DEF FilePaths
<1>2. Rows(paths) /\ Range(paths) \subseteq FilePath
  BY <1>1, RowsIn
<1> QED BY <1>2 DEF Range

\* What a loop that adds the rows of each item makes.
LEMMA LoopMakes ==
  ASSUME NEW items, Rows(items), NEW ss, ss = [i \in DOMAIN items |-> ss[i]], \A i \in DOMAIN items : Rows(ss[i])
  PROVE  /\ Rows(FlattenSeq(ss))
         /\ \A x \in Range(FlattenSeq(ss)) : \E i \in DOMAIN items : x \in Range(ss[i])
<1>1. Rows(ss) /\ DOMAIN ss = DOMAIN items
  BY RowsMapped
<1>2. Rows(FlattenSeq(ss)) /\ Range(FlattenSeq(ss)) = UNION {Range(ss[i]) : i \in DOMAIN ss}
  BY <1>1, RowsFlattened
<1> QED BY <1>1, <1>2

LEMMA LoopIsGood ==
  ASSUME NEW items, Rows(items), NEW ss, ss = [i \in DOMAIN items |-> ss[i]], \A i \in DOMAIN items : Good(ss[i])
  PROVE  Good(FlattenSeq(ss))
BY LoopMakes DEF Good

LEMMA NoneIsGood == Good(<<>>)
BY RowsOfNone DEF Good

LEMMA OneIsGood ==
  ASSUME NEW p, Fit(p)
  PROVE  Good(<<p>>)
BY RowsOfOne DEF Good

LEMMA BothAreGood ==
  ASSUME NEW s, NEW t, Good(s), Good(t)
  PROVE  Good(s \o t)
BY RowsJoined DEF Good

\* A path named in the scanned filesystem is one here.
LEMMA RootedIsPath ==
  ASSUME Given, NEW p \in FilePath
  PROVE  Rooted(p) \in FilePath
BY SearchesAssumption, PathSteps, CleanIsPath DEF Given, Rooted

\* What leads out of the scanned filesystem is not proposed.
LEMMA ProposeIsGood ==
  ASSUME Given, NEW paths \in FilePaths, NEW mech, NEW source
  PROVE  Good(Propose(paths, mech, source))
<1> DEFINE ss == [i \in DOMAIN paths |->
                    IF Escapes(paths[i]) THEN <<>>
                    ELSE IF Offline THEN <<Proposal(Rooted(paths[i]), mech, source, paths[i])>>
                    ELSE <<Proposal(IF Relative(paths[i]) THEN paths[i] ELSE Clean(paths[i]), mech, source, <<>>)>>]
<1>1. Rows(paths) /\ \A i \in DOMAIN paths : paths[i] \in FilePath
  BY PathsAreRows
<1>2. ASSUME NEW i \in DOMAIN paths PROVE Good(ss[i])
  <2>1. CASE Escapes(paths[i])
    BY <2>1, NoneIsGood
  <2>2. CASE ~Escapes(paths[i]) /\ Offline
    <3>1. Rooted(paths[i]) \in FilePath /\ InRoot(Rooted(paths[i]))
      BY <1>1, <2>2, RootedIsPath DEF Escapes
    <3>2. Fit(Proposal(Rooted(paths[i]), mech, source, paths[i]))
      BY <3>1 DEF Fit, Proposal
    <3> QED BY <2>2, <3>2, OneIsGood
  <2>3. CASE ~Escapes(paths[i]) /\ ~Offline
    <3> DEFINE q == IF Relative(paths[i]) THEN paths[i] ELSE Clean(paths[i])
    <3>1. q \in FilePath
      BY <1>1, CleanIsPath
    <3> HIDE DEF q
    <3>2. Fit(Proposal(q, mech, source, <<>>))
      BY <2>3, <3>1 DEF Fit, Proposal
    <3>3. ss[i] = <<Proposal(q, mech, source, <<>>)>>
      BY <2>3 DEF q
    <3> QED BY <3>2, <3>3, OneIsGood
  <2> QED BY <2>1, <2>2, <2>3
<1>3. Good(FlattenSeq(ss))
  <2>1. ss = [i \in DOMAIN paths |-> ss[i]]
    OBVIOUS
  <2> HIDE DEF ss
  <2> QED BY <1>1, <1>2, <2>1, LoopIsGood
<1> QED BY <1>3 DEF Propose

\* A file that can be read holds paths.
LEMMA ReadablesPass ==
  ASSUME NEW items, Rows(items)
  PROVE  /\ Rows(Passing(items, IsReadable))
         /\ \A x \in Range(Passing(items, IsReadable)) : IsReadable(x)
<1> DEFINE ss == [i \in DOMAIN items |-> IF IsReadable(items[i]) THEN <<items[i]>> ELSE <<>>]
<1>1. \A i \in DOMAIN items : Rows(ss[i]) /\ \A x \in Range(ss[i]) : IsReadable(x)
  BY RowsOfOne, RowsOfNone
<1>2. ss = [i \in DOMAIN items |-> ss[i]]
  OBVIOUS
<1>3. Passing(items, IsReadable) = FlattenSeq(ss)
  BY DEF Passing
<1> HIDE DEF ss
<1> QED BY <1>1, <1>2, <1>3, LoopMakes

LEMMA ReadableHoldsPaths ==
  ASSUME Given, NEW p, IsReadable(p)
  PROVE  File(p).names \in FilePaths /\ File(p).hosts \in FilePaths /\ File(p).contexts \in FilePaths
BY HostsAssumption DEF Given, IsReadable, IsFile, File

\* What is read of files is good, whichever files are there.
LEMMA FilesAreGood ==
  ASSUME Given, NEW tried, Rows(tried), NEW mech
  PROVE  LET read == Passing(tried, IsReadable)
         IN  Good(FlattenSeq([i \in DOMAIN read |-> Propose(File(read[i]).names, mech, read[i])]))
<1> DEFINE read == Passing(tried, IsReadable)
           ss == [i \in DOMAIN read |-> Propose(File(read[i]).names, mech, read[i])]
<1>1. Rows(read) /\ \A i \in DOMAIN read : IsReadable(read[i])
  BY ReadablesPass DEF Range
<1> HIDE DEF read
<1>2. \A i \in DOMAIN read : Good(ss[i])
  BY <1>1, ReadableHoldsPaths, ProposeIsGood
<1>3. ss = [i \in DOMAIN read |-> ss[i]]
  OBVIOUS
<1> HIDE DEF ss
<1>4. Good(FlattenSeq(ss))
  BY <1>1, <1>2, <1>3, LoopIsGood
<1> QED BY <1>4 DEF ss, read

\* A finite set made a sequence, in whichever order.
LEMMA SetAsRows ==
  ASSUME NEW S, IsFiniteSet(S)
  PROVE  Rows(SetToSeq(S))
<1> DEFINE n == Cardinality(S)
           Right(f) == f \in [1 .. n -> S] /\ IsInjective(f)
           f == CHOOSE f \in [1 .. n -> S] : IsInjective(f)
<1>1. n \in Nat /\ ExistsBijection(1 .. n, S)
  BY FS_CardinalityType
<1>2. \E g \in [1 .. n -> S] : IsInjective(g)
  BY <1>1 DEF ExistsBijection, Bijection, Injection
<1>3. f \in [1 .. n -> S]
  BY <1>2
<1> HIDE DEF f, n
<1>4. SetToSeq(S) = f
  BY DEF SetToSeq, f, n
<1>5. f = [i \in 1 .. n |-> f[i]]
  BY <1>3
<1> QED BY <1>1, <1>4, <1>5, RowsOf

\* The configuration files looked for are finitely many.
LEMMA ConfigPathsAreRows ==
  ASSUME Given, NEW server \in {"apache", "nginx"}
  PROVE  Rows(ConfigPaths(server))
<1> DEFINE dirs == Candidates[server].dropIns
           ss == [i \in DOMAIN dirs |-> DropIns(dirs[i])]
           tried == ConfigFiles(server)
           tt == [i \in DOMAIN tried |-> IF Escapes(tried[i]) THEN <<>> ELSE <<Rooted(tried[i])>>]
<1>1. Rows(Candidates[server].fixed) /\ Rows(dirs)
  BY TablesAssumption, PathsAreRows
<1>2. \A i \in DOMAIN dirs : Rows(ss[i])
  <2> TAKE i \in DOMAIN dirs
  <2> DEFINE D == {p \in DOMAIN host.configs : p # <<>> /\ Front(p) = dirs[i]}
  <2>1. IsFiniteSet(DOMAIN host.configs) /\ D \subseteq DOMAIN host.configs
    BY HostsAssumption DEF Given
  <2>2. IsFiniteSet(D)
    BY <2>1, FS_Subset
  <2>3. ss[i] = SetToSeq(D)
    BY DEF DropIns
  <2> HIDE DEF D
  <2> QED BY <2>2, <2>3, SetAsRows
<1>3. ss = [i \in DOMAIN dirs |-> ss[i]]
  OBVIOUS
<1>4. tried = Candidates[server].fixed \o FlattenSeq(ss)
  BY DEF ConfigFiles
<1> HIDE DEF ss, dirs, tried
<1>5. Rows(FlattenSeq(ss))
  BY <1>1, <1>2, <1>3, LoopMakes
<1>6. Rows(tried)
  BY <1>1, <1>4, <1>5, RowsJoined
<1>7. \A i \in DOMAIN tried : Rows(tt[i])
  BY RowsOfOne, RowsOfNone
<1>8. tt = [i \in DOMAIN tried |-> tt[i]]
  OBVIOUS
<1>9. ConfigPaths(server) = FlattenSeq(tt)
  BY DEF ConfigPaths, tried
<1> HIDE DEF tt
<1> QED BY <1>6, <1>7, <1>8, <1>9, LoopMakes

\* A conventional location is in the filesystem that is scanned.
LEMMA LocationsAreIn ==
  ASSUME Given, NEW kind \in {"tomcat", "appserver"}
  PROVE  /\ Rows(Locations(kind))
         /\ \A l \in Range(Locations(kind)) : l.path \in FilePath /\ (Offline => InRoot(l.path))
<1> DEFINE names == Guesses[kind]
           ss == [i \in DOMAIN names |->
                    LET mapped == Rooted(names[i])
                    IN  IF ~Offline THEN <<[path |-> mapped, inside |-> <<>>]>>
                        ELSE IF InRoot(mapped) THEN <<[path |-> mapped, inside |-> Below(mapped)]>> ELSE <<>>]
           In(l) == l.path \in FilePath /\ (Offline => InRoot(l.path))
<1>1. Rows(names) /\ \A i \in DOMAIN names : names[i] \in FilePath
  BY TablesAssumption, PathsAreRows
<1>2. ASSUME NEW i \in DOMAIN names PROVE Rows(ss[i]) /\ \A l \in Range(ss[i]) : In(l)
  <2>1. PICK q \in FilePath : q = Rooted(names[i])
    BY <1>1, RootedIsPath
  <2>2. \/ ss[i] = <<[path |-> q, inside |-> <<>>]>> /\ ~Offline
        \/ ss[i] = <<[path |-> q, inside |-> Below(q)]>> /\ InRoot(q)
        \/ ss[i] = <<>>
    BY <2>1
  <2> HIDE DEF ss
  <2>3. CASE ss[i] = <<[path |-> q, inside |-> <<>>]>> /\ ~Offline
    BY <2>1, <2>3, RowsOfOne
  <2>4. CASE ss[i] = <<[path |-> q, inside |-> Below(q)]>> /\ InRoot(q)
    BY <2>1, <2>4, RowsOfOne
  <2>5. CASE ss[i] = <<>>
    BY <2>5, RowsOfNone
  <2> QED BY <2>2, <2>3, <2>4, <2>5
<1>3. ss = [i \in DOMAIN names |-> ss[i]]
  OBVIOUS
<1>4. Locations(kind) = FlattenSeq(ss)
  BY DEF Locations
<1> HIDE DEF ss, names, In
<1>5. Rows(FlattenSeq(ss)) /\ \A x \in Range(FlattenSeq(ss)) : \E i \in DOMAIN names : x \in Range(ss[i])
  BY <1>1, <1>2, <1>3, LoopMakes
<1>6. \A x \in Range(FlattenSeq(ss)) : In(x)
  BY <1>2, <1>5
<1> QED BY <1>4, <1>5, <1>6 DEF In

\* What passes a test is among what was tested.
LEMMA ConfirmedPass ==
  ASSUME NEW items, Rows(items)
  PROVE  /\ Rows(Passing(items, Confirmed)) /\ Range(Passing(items, Confirmed)) \subseteq Range(items)
         /\ Rows(Passing(items, HasDeployments)) /\ Range(Passing(items, HasDeployments)) \subseteq Range(items)
         /\ Rows(Passing(items, IsDir)) /\ Range(Passing(items, IsDir)) \subseteq Range(items)
<1>1. ASSUME NEW T
      PROVE  LET ss == [i \in DOMAIN items |-> IF i \in T THEN <<items[i]>> ELSE <<>>]
             IN  Rows(FlattenSeq(ss)) /\ Range(FlattenSeq(ss)) \subseteq Range(items)
  <2> DEFINE ss == [i \in DOMAIN items |-> IF i \in T THEN <<items[i]>> ELSE <<>>]
  <2>1. \A i \in DOMAIN items : Rows(ss[i]) /\ \A x \in Range(ss[i]) : x \in Range(items)
    BY RowsOfOne, RowsOfNone DEF Range
  <2>2. ss = [i \in DOMAIN items |-> ss[i]]
    OBVIOUS
  <2> HIDE DEF ss
  <2>3. Rows(FlattenSeq(ss)) /\ Range(FlattenSeq(ss)) \subseteq Range(items)
    BY <2>1, <2>2, LoopMakes
  <2> QED BY <2>3 DEF ss
<1>2. Passing(items, Confirmed) =
        FlattenSeq([i \in DOMAIN items |-> IF i \in {j \in DOMAIN items : Confirmed(items[j])} THEN <<items[i]>> ELSE <<>>])
  BY DEF Passing
<1>3. Passing(items, HasDeployments) =
        FlattenSeq([i \in DOMAIN items |-> IF i \in {j \in DOMAIN items : HasDeployments(items[j])} THEN <<items[i]>> ELSE <<>>])
  BY DEF Passing
<1>4. Passing(items, IsDir) =
        FlattenSeq([i \in DOMAIN items |-> IF i \in {j \in DOMAIN items : IsDir(items[j])} THEN <<items[i]>> ELSE <<>>])
  BY DEF Passing
<1>5. Rows(Passing(items, Confirmed)) /\ Range(Passing(items, Confirmed)) \subseteq Range(items)
  BY <1>1, <1>2
<1>6. Rows(Passing(items, HasDeployments)) /\ Range(Passing(items, HasDeployments)) \subseteq Range(items)
  BY <1>1, <1>3
<1>7. Rows(Passing(items, IsDir)) /\ Range(Passing(items, IsDir)) \subseteq Range(items)
  BY <1>1, <1>4
<1> QED BY <1>5, <1>6, <1>7

\* Deployments are below the server's home.
LEMMA DeploymentsAreBelow ==
  ASSUME NEW base \in FilePath
  PROVE  /\ Rows(DeploymentDirs(base))
         /\ \A d \in Range(DeploymentDirs(base)) : d \in FilePath /\ IsPrefix(base, d)
<1> DEFINE all == [i \in DOMAIN Deployments |-> base \o Deployments[i]]
<1>1. Rows(Deployments) /\ \A i \in DOMAIN Deployments : Deployments[i] \in FilePath
  BY TablesAssumption, PathsAreRows
<1>2. \A i \in DOMAIN Deployments : all[i] \in FilePath /\ IsPrefix(base, all[i])
  <2> TAKE i \in DOMAIN Deployments
  <2>1. all[i] = base \o Deployments[i] /\ Deployments[i] \in FilePath
    BY <1>1
  <2> HIDE DEF all
  <2> QED BY <2>1, PathSteps, PrefixConcat DEF FilePath
<1>3. Rows(all) /\ DOMAIN all = DOMAIN Deployments
  BY <1>1, RowsMapped
<1>4. DeploymentDirs(base) = Passing(all, IsDir)
  BY DEF DeploymentDirs
<1> HIDE DEF all
<1>5. \A d \in Range(all) : d \in FilePath /\ IsPrefix(base, d)
  BY <1>2, <1>3 DEF Range
<1> QED BY <1>3, <1>4, <1>5, ConfirmedPass

\* Every base of a Tomcat has a path.
LEMMA BasesHavePaths ==
  ASSUME Given
  PROVE  LET bases == EnvBases \o ProcessBases \o ConventionBases
         IN  Rows(bases) /\ \A b \in Range(bases) : b.path \in FilePath
<1> DEFINE Homes(s) == Rows(s) /\ \A b \in Range(s) : b.path \in FilePath
<1>1. ASSUME NEW mech, NEW paths \in FilePaths PROVE Homes(LiveBases(mech, paths))
  <2>1. Rows(paths) /\ \A i \in DOMAIN paths : paths[i] \in FilePath
    BY PathsAreRows
  <2>2. PICK t : t = LiveBases(mech, paths)
    OBVIOUS
  <2>3. t = [i \in DOMAIN paths |-> t[i]] /\ \A i \in DOMAIN paths : t[i].path = paths[i]
    BY <2>2 DEF LiveBases
  <2>4. Rows(t) /\ DOMAIN t = DOMAIN paths
    BY <2>1, <2>3, RowsMapped
  <2> QED BY <2>1, <2>2, <2>3, <2>4 DEF Range
<1>2. Homes(<<>>)
  BY RowsOfNone
<1>3. Homes(EnvBases) /\ Homes(ProcessBases)
  <2>1. host.env \in FilePaths /\ host.processes.tomcat \in FilePaths
    BY HostsAssumption DEF Given
  <2> HIDE DEF Homes
  <2> QED BY <1>1, <1>2, <2>1 DEF EnvBases, ProcessBases
<1>4. Homes(ConventionBases)
  <2>1. CASE Refused("tomcat-convention")
    BY <1>2, <2>1 DEF ConventionBases
  <2>2. CASE ~Refused("tomcat-convention")
    <3> DEFINE there == Passing(Locations("tomcat"), Confirmed)
    <3>1. Rows(there) /\ \A i \in DOMAIN there : there[i].path \in FilePath
      BY LocationsAreIn, ConfirmedPass DEF Range
    <3>2. PICK t : t = ConventionBases
      OBVIOUS
    <3>3. t = [i \in DOMAIN there |-> t[i]] /\ \A i \in DOMAIN there : t[i].path = there[i].path
      BY <2>2, <3>2 DEF ConventionBases
    <3> HIDE DEF there
    <3>4. Rows(t) /\ DOMAIN t = DOMAIN there
      BY <3>1, <3>3, RowsMapped
    <3> QED BY <3>1, <3>2, <3>3, <3>4 DEF Range
  <2> QED BY <2>1, <2>2
<1>5. Rows(EnvBases \o ProcessBases) /\ Range(EnvBases \o ProcessBases) = Range(EnvBases) \cup Range(ProcessBases)
  BY <1>3, RowsJoined
<1>6. /\ Rows((EnvBases \o ProcessBases) \o ConventionBases)
      /\ Range((EnvBases \o ProcessBases) \o ConventionBases) = Range(EnvBases \o ProcessBases) \cup Range(ConventionBases)
  BY <1>4, <1>5, RowsJoined
<1> QED BY <1>3, <1>4, <1>5, <1>6

\* What a server.xml names is placed in the scanned filesystem or left out.
LEMMA PlacedIsGood ==
  ASSUME Given, NEW b, b.path \in FilePath, NEW name \in FilePath, NEW source
  PROVE  Good(Placed(b, name, source))
<1>1. CASE ~Relative(name)
  <2>1. <<name>> \in FilePaths
    BY DEF FilePaths
  <2> QED BY <1>1, <2>1, ProposeIsGood DEF Placed
<1>2. CASE Relative(name)
  <2>1. PICK p \in FilePath : p = Clean(b.path \o name)
    BY PathSteps, CleanIsPath
  <2>2. CASE Offline /\ ~InRoot(p)
    BY <1>2, <2>1, <2>2, NoneIsGood DEF Placed
  <2>3. CASE ~(Offline /\ ~InRoot(p))
    <3> DEFINE inside == IF Offline THEN Clean(b.inside \o name) ELSE <<>>
    <3>1. Placed(b, name, source) = <<Proposal(p, b.mech, source, inside)>>
      BY <1>2, <2>1, <2>3 DEF Placed
    <3> HIDE DEF inside
    <3>2. Fit(Proposal(p, b.mech, source, inside))
      BY <2>3 DEF Fit, Proposal
    <3> QED BY <3>1, <3>2, OneIsGood
  <2> QED BY <2>2, <2>3
<1> QED BY <1>1, <1>2

LEMMA BaseRootsAreGood ==
  ASSUME Given, NEW b, b.path \in FilePath
  PROVE  Good(BaseRoots(b))
<1>1. Webapps \in FilePath /\ <<Webapps>> \in FilePaths
  <2>1. "." \in Components /\ "webapps" \in Components
    BY ComponentsAssumption
  <2>2. Webapps \in FilePath
    BY <2>1 DEF Webapps, FilePath
  <2> QED BY <2>2 DEF FilePaths
<1>2. CASE ~Parses(b)
  BY <1>1, <1>2, PlacedIsGood DEF BaseRoots
<1>3. CASE Parses(b)
  <2> DEFINE xml == File(ServerXml(b))
             hostDirs == IF xml.hosts = <<>> THEN <<Webapps>> ELSE xml.hosts
             all == hostDirs \o xml.contexts
             ss == [i \in DOMAIN all |-> Placed(b, all[i], ServerXml(b))]
  <2>1. xml.hosts \in FilePaths /\ xml.contexts \in FilePaths
    BY <1>3, ReadableHoldsPaths DEF Parses
  <2>2. hostDirs \in FilePaths
    BY <1>1, <2>1
  <2>3. BaseRoots(b) = FlattenSeq(ss)
    BY <1>3 DEF BaseRoots
  <2>4. all \in FilePaths
    <3> HIDE DEF hostDirs
    <3> QED BY <2>1, <2>2, ConcatProperties DEF FilePaths
  <2> HIDE DEF all
  <2>5. Rows(all) /\ \A i \in DOMAIN all : all[i] \in FilePath
    BY <2>4, PathsAreRows
  <2>6. \A i \in DOMAIN all : Good(ss[i])
    BY <2>5, PlacedIsGood
  <2>7. ss = [i \in DOMAIN all |-> ss[i]]
    OBVIOUS
  <2> HIDE DEF ss
  <2> QED BY <2>3, <2>5, <2>6, <2>7, LoopIsGood
<1> QED BY <1>2, <1>3

-----------------------------------------------------------------------------
(* The mechanisms, one by one.                                              *)

Turns == {"begin", "apache", "apacheDump", "nginx", "nginxDump", "tomcat", "appserver", "appserverConvention", "convention"}

\* A mechanism's turn: what it proposes is added, and nothing is judged yet.
Gathers == \E gathered : /\ Good(gathered) /\ proposed' = proposed \o gathered
                      /\ turn \in Turns /\ turn' \in Turns \cup {"judge"}
                      /\ UNCHANGED <<host, search, judged, roots, rejected, rejectedTotal, credit, verdict>>

LEMMA TakesGathers ==
  ASSUME NEW now \in Turns, NEW next \in Turns \cup {"judge"}, NEW gathered, Good(gathered), NEW told, NEW tried,
         Takes(now, next, gathered, told, tried)
  PROVE  Gathers
BY DEF Takes, Gathers

LEMMA BeginGathers ==
  ASSUME Given, Explicit \/ Disabled \/ Iis
  PROVE  Gathers
<1>1. CASE Explicit
  <2> DEFINE names == search.explicit
             gathered == [i \in DOMAIN names |->
                         Proposal(names[i], "explicit", "", IF Offline /\ InRoot(names[i]) THEN Below(names[i]) ELSE <<>>)]
  <2>1. Takes("begin", "judge", gathered, <<Account("explicit", "succeeded", {})>>, {})
    BY <1>1 DEF Explicit
  <2>2. Rows(names) /\ \A i \in DOMAIN names : names[i] \in FilePath
    BY PathsAreRows, SearchesAssumption DEF Given
  <2>3. \A i \in DOMAIN names : Fit(gathered[i])
    BY <2>2 DEF Fit, Proposal
  <2>4. gathered = [i \in DOMAIN names |-> gathered[i]]
    OBVIOUS
  <2> HIDE DEF gathered
  <2>5. Good(gathered)
    BY <2>2, <2>3, <2>4, RowsMapped DEF Good, Range
  <2> QED BY <2>1, <2>5, TakesGathers DEF Turns
<1>2. CASE Disabled
  BY <1>2, NoneIsGood, TakesGathers DEF Disabled, Turns
<1>3. CASE Iis
  <2> DEFINE byDefault == IF Refused("iis-default") THEN <<>> ELSE <<Proposal(InetPub, "iis-default", "", <<>>)>>
             xml == Candidates["iis"].fixed[1]
             configured == IF Refused("iis-config") \/ ~IsReadable(xml) THEN <<>>
                           ELSE Propose(File(xml).names, "iis-config", "applicationHost.config")
  <2>1. CASE Offline \/ ~host.windows
    BY <1>3, <2>1, NoneIsGood, TakesGathers DEF Iis, Turns
  <2>2. CASE ~(Offline \/ ~host.windows)
    <3>1. \E told, tried : Takes("begin", "apache", byDefault \o configured, told, tried)
      BY <1>3, <2>2 DEF Iis
    <3>2. Good(byDefault)
      <4>1. "inetpub" \in Components
        BY ComponentsAssumption
      <4>2. InetPub \in FilePath
        BY <4>1 DEF InetPub, FilePath
      <4>3. Fit(Proposal(InetPub, "iis-default", "", <<>>))
        BY <2>2, <4>2 DEF Fit, Proposal
      <4> QED BY <4>3, NoneIsGood, OneIsGood
    <3>3. Good(configured)
      BY NoneIsGood, ReadableHoldsPaths, ProposeIsGood
    <3> HIDE DEF byDefault, configured
    <3> QED BY <3>1, <3>2, <3>3, BothAreGood, TakesGathers DEF Turns
  <2> QED BY <2>1, <2>2
<1> QED BY <1>1, <1>2, <1>3

LEMMA ConfigGathers ==
  ASSUME Given, ApacheConfig \/ NginxConfig \/ ApacheDump \/ NginxDump
  PROVE  Gathers
<1>1. ASSUME NEW server \in {"apache", "nginx"}, NEW mech, NEW now \in Turns, NEW next \in Turns,
             ConfigTurn(server, mech, now, next)
      PROVE  Gathers
  <2> DEFINE read == Passing(ConfigPaths(server), IsReadable)
             gathered == FlattenSeq([i \in DOMAIN read |-> Propose(File(read[i]).names, mech, read[i])])
  <2>1. Good(gathered)
    BY ConfigPathsAreRows, FilesAreGood
  <2>2. \E told, tried : Takes(now, next, <<>>, told, tried) \/ Takes(now, next, gathered, told, tried)
    BY <1>1 DEF ConfigTurn
  <2> HIDE DEF gathered
  <2> QED BY <2>1, <2>2, NoneIsGood, TakesGathers
<1>2. CASE ApacheConfig
  BY <1>1, <1>2 DEF ApacheConfig, Turns
<1>3. CASE NginxConfig
  BY <1>1, <1>3 DEF NginxConfig, Turns
<1>4. CASE ApacheDump
  <2> DEFINE read == Passing(host.apache.files, IsReadable)
             main == Propose(host.apache.names, "apache-dump", "-S")
             rest == FlattenSeq([i \in DOMAIN read |-> Propose(File(read[i]).names, "apache-dump", read[i])])
  <2>1. Good(main) /\ Good(rest)
    <3>1. host.apache.names \in FilePaths /\ Rows(host.apache.files)
      BY HostsAssumption, PathsAreRows DEF Given
    <3> QED BY <3>1, ProposeIsGood, FilesAreGood
  <2>2. \E told, tried : \/ Takes("apacheDump", "nginx", <<>>, told, tried)
                         \/ Takes("apacheDump", "nginx", main \o rest, told, tried)
    BY <1>4 DEF ApacheDump
  <2> HIDE DEF main, rest
  <2> QED BY <2>1, <2>2, NoneIsGood, BothAreGood, TakesGathers DEF Turns
<1>5. CASE NginxDump
  <2> DEFINE gathered == Propose(host.nginx.names, "nginx-dump", "-T")
  <2>1. Good(gathered)
    BY HostsAssumption, ProposeIsGood DEF Given
  <2>2. \E told, tried : \/ Takes("nginxDump", "tomcat", <<>>, told, tried)
                         \/ Takes("nginxDump", "tomcat", gathered, told, tried)
    BY <1>5 DEF NginxDump
  <2> HIDE DEF gathered
  <2> QED BY <2>1, <2>2, NoneIsGood, TakesGathers DEF Turns
<1> QED BY <1>2, <1>3, <1>4, <1>5

LEMMA ServersGather ==
  ASSUME Given, Tomcat \/ Appserver \/ AppserverConvention \/ Convention
  PROVE  Gathers
<1>1. CASE Tomcat
  <2> DEFINE bases == EnvBases \o ProcessBases \o ConventionBases
             ss == [i \in DOMAIN bases |-> BaseRoots(bases[i])]
  <2>1. Rows(bases) /\ \A i \in DOMAIN bases : bases[i].path \in FilePath
    BY BasesHavePaths DEF Range
  <2>2. \E told, tried : Takes("tomcat", "appserver", FlattenSeq(ss), told, tried)
    BY <1>1 DEF Tomcat
  <2> HIDE DEF bases
  <2>3. \A i \in DOMAIN bases : Good(ss[i])
    BY <2>1, BaseRootsAreGood
  <2>4. ss = [i \in DOMAIN bases |-> ss[i]]
    OBVIOUS
  <2> HIDE DEF ss
  <2>5. Good(FlattenSeq(ss))
    BY <2>1, <2>3, <2>4, LoopIsGood
  <2> QED BY <2>2, <2>5, TakesGathers DEF Turns
<1>2. CASE Appserver
  <2> DEFINE homes == IF Refused("appserver-process") \/ Offline THEN <<>> ELSE host.processes.servers
             ss == [i \in DOMAIN homes |-> DeploymentDirs(homes[i])]
             dirs == FlattenSeq(ss)
             gathered == [i \in DOMAIN dirs |-> Proposal(dirs[i], "appserver-process", "pid", <<>>)]
  <2>1. \E told, tried : Takes("appserver", "appserverConvention", gathered, told, tried)
    BY <1>2 DEF Appserver
  <2>2. Rows(homes) /\ (\A i \in DOMAIN homes : homes[i] \in FilePath) /\ (Offline => DOMAIN homes = {})
    <3>1. host.processes.servers \in FilePaths
      BY HostsAssumption DEF Given
    <3>2. DOMAIN <<>> = {}
      OBVIOUS
    <3> QED BY <3>1, <3>2, PathsAreRows, RowsOfNone
  <2> HIDE DEF homes
  <2>3. \A i \in DOMAIN homes : Rows(ss[i]) /\ \A d \in Range(ss[i]) : d \in FilePath
    BY <2>2, DeploymentsAreBelow
  <2>4. ss = [i \in DOMAIN homes |-> ss[i]]
    OBVIOUS
  <2> HIDE DEF ss
  <2>5. Rows(dirs) /\ \A x \in Range(dirs) : \E i \in DOMAIN homes : x \in Range(ss[i])
    BY <2>2, <2>3, <2>4, LoopMakes
  <2>6. \A i \in DOMAIN dirs : dirs[i] \in FilePath /\ ~Offline
    BY <2>2, <2>3, <2>5 DEF Range
  <2> HIDE DEF dirs
  <2>7. \A i \in DOMAIN dirs : Fit(gathered[i])
    BY <2>6 DEF Fit, Proposal
  <2>8. gathered = [i \in DOMAIN dirs |-> gathered[i]]
    OBVIOUS
  <2> HIDE DEF gathered
  <2>9. Good(gathered)
    BY <2>5, <2>7, <2>8, RowsMapped DEF Good, Range
  <2> QED BY <2>1, <2>9, TakesGathers DEF Turns
<1>3. CASE AppserverConvention
  <2> DEFINE mech == "appserver-convention"
             there == Passing(Locations("appserver"), HasDeployments)
             ss == [i \in DOMAIN there |-> DeploymentDirs(there[i].path)]
             dirs == FlattenSeq(ss)
             gathered == [i \in DOMAIN dirs |-> Proposal(dirs[i], mech, "convention", IF Offline THEN Below(dirs[i]) ELSE <<>>)]
  <2>1. \E told, tried : \/ Takes("appserverConvention", "convention", <<>>, told, tried)
                         \/ Takes("appserverConvention", "convention", gathered, told, tried)
    BY <1>3 DEF AppserverConvention
  <2>2. /\ Rows(there)
        /\ \A i \in DOMAIN there : there[i].path \in FilePath /\ (Offline => InRoot(there[i].path))
    BY LocationsAreIn, ConfirmedPass DEF Range
  <2> HIDE DEF there
  <2>3. \A i \in DOMAIN there : Rows(ss[i]) /\ \A d \in Range(ss[i]) : d \in FilePath /\ (Offline => InRoot(d))
    <3> TAKE i \in DOMAIN there
    <3>1. PICK base \in FilePath : base = there[i].path /\ (Offline => InRoot(base))
      BY <2>2
    <3>2. Rows(DeploymentDirs(base)) /\ \A d \in Range(DeploymentDirs(base)) : d \in FilePath /\ IsPrefix(base, d)
      BY DeploymentsAreBelow
    <3>3. ASSUME NEW d \in FilePath, IsPrefix(base, d), Offline PROVE InRoot(d)
      <4>1. search.root \in FilePath /\ IsPrefix(search.root, base)
        BY <3>1, <3>3, SearchesAssumption DEF Given, InRoot
      <4> QED BY <3>3, <4>1, PrefixTransitive DEF InRoot, FilePath
    <3> QED BY <3>1, <3>2, <3>3
  <2>4. ss = [i \in DOMAIN there |-> ss[i]]
    OBVIOUS
  <2> HIDE DEF ss
  <2>5. Rows(dirs) /\ \A x \in Range(dirs) : \E i \in DOMAIN there : x \in Range(ss[i])
    BY <2>2, <2>3, <2>4, LoopMakes
  <2>6. \A i \in DOMAIN dirs : dirs[i] \in FilePath /\ (Offline => InRoot(dirs[i]))
    BY <2>3, <2>5 DEF Range
  <2> HIDE DEF dirs
  <2>7. \A i \in DOMAIN dirs : Fit(gathered[i])
    BY <2>6 DEF Fit, Proposal
  <2>8. gathered = [i \in DOMAIN dirs |-> gathered[i]]
    OBVIOUS
  <2> HIDE DEF gathered
  <2>9. Good(gathered)
    BY <2>5, <2>7, <2>8, RowsMapped DEF Good, Range
  <2> QED BY <2>1, <2>9, NoneIsGood, TakesGathers DEF Turns
<1>4. CASE Convention
  <2>1. Good(Propose(Guesses["web"], "convention", ""))
    BY TablesAssumption, ProposeIsGood
  <2>2. \E told, tried : \/ Takes("convention", "judge", <<>>, told, tried)
                         \/ Takes("convention", "judge", Propose(Guesses["web"], "convention", ""), told, tried)
    BY <1>4 DEF Convention
  <2> QED BY <2>1, <2>2, NoneIsGood, TakesGathers DEF Turns
<1> QED BY <1>1, <1>2, <1>3, <1>4

-----------------------------------------------------------------------------
(* The invariant.                                                           *)

\* Judge, with what it reads as parameters.
Verdict(h, s, p) ==
  LET under == p.mech # "explicit" /\ s.root # <<>> /\ IsPrefix(s.root, p.path)
      at == IF under THEN Resolve(h, s.root, p.path) ELSE Resolve(h, <<>>, p.path)
  IN  IF p.mech # "explicit" /\ Relative(p.path) THEN "notAbsolute"
      ELSE IF at.error = "absent" THEN "absent"
      ELSE IF at.error # "none" THEN "unresolved"
      ELSE IF at.here \in DOMAIN h.configs THEN "notDirectory"
      ELSE IF p.mech = "explicit" THEN (IF at.here \in h.locked THEN "unreadable" ELSE "none")
      ELSE IF Contained(IF under THEN s.root ELSE <<>>, at.here) THEN "none" ELSE "contained"
Silent(h, s, p) == p.mech \in Conventions /\ Verdict(h, s, p) \in {"absent", "notAbsolute"}

\* What is kept has its path and its mechanism from a proposal that was accepted.
Kept(r) ==
  /\ \E path, mech, also, subsumes, inside :
       r = [path |-> path, mech |-> mech, also |-> also, subsumes |-> subsumes, inside |-> inside]
  /\ \E k \in DOMAIN proposed : /\ proposed[k].path = r.path /\ proposed[k].mech = r.mech
                                /\ Verdict(host, search, proposed[k]) = "none"
Entry(h, s, p) == [path |-> p.path, mech |-> p.mech, reason |-> Verdict(h, s, p)]
ListFull == Len(rejected) = MaxReported /\ MaxReported < rejectedTotal
Answered(k) ==
  IF Verdict(host, search, proposed[k]) = "none" THEN Covered(proposed[k].path)
  ELSE \/ Silent(host, search, proposed[k])
       \/ \E i \in DOMAIN rejected : rejected[i] = Entry(host, search, proposed[k])
       \/ ListFull

\* Of the proposals that were judged, those that were refused: all are counted, and as
\* many are listed as there is room for.
RefusedOf(h, s, ps, n) == {k \in 1 .. n : Verdict(h, s, ps[k]) # "none" /\ ~Silent(h, s, ps[k])}
Counted == /\ rejectedTotal \in Nat /\ rejectedTotal = Cardinality(RefusedOf(host, search, proposed, judged))
           /\ Len(rejected) = IF rejectedTotal <= MaxReported THEN rejectedTotal ELSE MaxReported
Different == \A i, j \in DOMAIN roots : i # j => roots[i].path # roots[j].path
Apart == \A i, j \in DOMAIN roots : i # j => ~IsPrefix(roots[i].path, roots[j].path)

DiscoveryInv ==
  /\ Given /\ Good(proposed)
  /\ Rows(roots) /\ \A i \in DOMAIN roots : Kept(roots[i])
  /\ Rows(rejected) /\ Counted
  /\ judged \in 0 .. Len(proposed)
  /\ turn \in Turns \cup {"judge", "reconcile", "gate", "end"}
  /\ turn \in Turns => judged = 0 /\ roots = <<>> /\ rejected = <<>> /\ rejectedTotal = 0
  /\ turn \in Turns \cup {"judge"} => Different /\ \A k \in 1 .. judged : Answered(k)
  /\ turn \in {"reconcile", "gate", "end"} => /\ Apart /\ judged = Len(proposed)
                                            /\ \A k \in DOMAIN proposed : Answered(k)

\* A proposal is judged by the host and the search alone.
LEMMA JudgeIs == \A p : Judge(p) = Verdict(host, search, p) /\ (SilentMiss(p) <=> Silent(host, search, p))
<1> TAKE p
<1>1. Judge(p) = Verdict(host, search, p)
  BY DEF Judge, Verdict, Offline, InRoot, Kernel
<1> QED BY <1>1 DEF SilentMiss, Silent

\* Nothing judged, nothing refused.
LEMMA NoneIsCounted ==
  ASSUME rejectedTotal = 0, rejected = <<>>, judged = 0
  PROVE  Counted
<1>1. RefusedOf(host, search, proposed, judged) = {}
  <2>1. 1 .. 0 = {}
    OBVIOUS
  <2> QED BY <2>1 DEF RefusedOf
<1>2. Len(rejected) = 0 /\ 0 <= MaxReported
  BY TablesAssumption
<1> QED BY <1>1, <1>2, FS_EmptySet DEF Counted

\* One more is judged: it is refused, and there is one more of those, or not.
LEMMA OneMoreIsJudged ==
  ASSUME NEW h, NEW s, NEW ps, NEW n \in Nat
  PROVE  /\ IsFiniteSet(RefusedOf(h, s, ps, n)) /\ Cardinality(RefusedOf(h, s, ps, n)) \in Nat
         /\ Cardinality(RefusedOf(h, s, ps, n + 1)) =
              IF Verdict(h, s, ps[n + 1]) # "none" /\ ~Silent(h, s, ps[n + 1])
              THEN Cardinality(RefusedOf(h, s, ps, n)) + 1 ELSE Cardinality(RefusedOf(h, s, ps, n))
<1> DEFINE Fell(k) == Verdict(h, s, ps[k]) # "none" /\ ~Silent(h, s, ps[k])
<1>0. RefusedOf(h, s, ps, n) = {k \in 1 .. n : Fell(k)} /\ RefusedOf(h, s, ps, n + 1) = {k \in 1 .. n + 1 : Fell(k)}
  BY DEF RefusedOf
<1> HIDE DEF Fell
<1>1. PICK T : T = RefusedOf(h, s, ps, n) /\ T \subseteq 1 .. n
  BY <1>0
<1>2. IsFiniteSet(T) /\ Cardinality(T) \in Nat
  <2>1. 1 \in Int /\ n \in Int
    OBVIOUS
  <2>2. IsFiniteSet(1 .. n)
    BY <2>1, FS_Interval
  <2>3. IsFiniteSet(T)
    BY <1>1, <2>2, FS_Subset
  <2> QED BY <2>3, FS_CardinalityType
<1>3. n + 1 \notin 1 .. n /\ 1 .. n + 1 = 1 .. n \cup {n + 1}
  OBVIOUS
<1>4. CASE Fell(n + 1)
  <2>1. RefusedOf(h, s, ps, n + 1) = T \cup {n + 1} /\ n + 1 \notin T
    BY <1>0, <1>1, <1>3, <1>4
  <2>2. Cardinality(T \cup {n + 1}) = Cardinality(T) + 1
    BY <1>2, <2>1, FS_AddElement
  <2> QED BY <1>1, <1>2, <1>4, <2>1, <2>2 DEF Fell
<1>5. CASE ~Fell(n + 1)
  <2>1. RefusedOf(h, s, ps, n + 1) = T
    BY <1>0, <1>1, <1>3, <1>5
  <2> QED BY <1>1, <1>2, <1>5, <2>1 DEF Fell
<1> QED BY <1>4, <1>5

\* One item more.
LEMMA RowsAppended ==
  ASSUME NEW s, Rows(s), NEW x
  PROVE  \E m : /\ Rows(Append(s, x)) /\ Len(s) \in Nat /\ Len(Append(s, x)) = Len(s) + 1 /\ m \notin DOMAIN s /\ DOMAIN Append(s, x) = DOMAIN s \cup {m}
                /\ Append(s, x)[m] = x /\ \A i \in DOMAIN s : Append(s, x)[i] = s[i]
<1>1. PICK n \in Nat : n = Len(s) /\ DOMAIN s = 1 .. n
  BY RowsAre
<1> DEFINE S == Range(s) \cup {x}
<1>2. s \in Seq(S) /\ x \in S
  BY RowsWithin
<1> HIDE DEF S
<1>3. /\ Append(s, x) \in Seq(S) /\ Len(Append(s, x)) = n + 1
      /\ (\A i \in 1 .. n : Append(s, x)[i] = s[i]) /\ Append(s, x)[n + 1] = x
  BY <1>1, <1>2, AppendProperties
<1>4. Rows(Append(s, x)) /\ DOMAIN Append(s, x) = 1 .. n + 1
  BY <1>3, RowsIn, LenProperties
<1>5. n + 1 \notin 1 .. n /\ 1 .. n + 1 = 1 .. n \cup {n + 1}
  BY <1>1
<1> QED BY <1>1, <1>3, <1>4, <1>5

LEMMA KeptIsPath ==
  ASSUME DiscoveryInv, NEW i \in DOMAIN roots
  PROVE  roots[i].path \in FilePath
<1>1. PICK k \in DOMAIN proposed : proposed[k].path = roots[i].path
  BY DEF DiscoveryInv, Kept
<1> QED BY <1>1 DEF DiscoveryInv, Good, Fit, Range

LEMMA InitHolds == DiscoveryInit => DiscoveryInv
<1> SUFFICES ASSUME DiscoveryInit PROVE DiscoveryInv
  OBVIOUS
<1>1. DOMAIN <<>> = {} /\ Len(<<>>) = 0 /\ 0 \in 0 .. 0 /\ 1 .. 0 = {}
  OBVIOUS
<1>2. Counted
  BY NoneIsCounted DEF DiscoveryInit
<1> QED BY <1>1, <1>2, RowsOfNone DEF DiscoveryInit, DiscoveryInv, Given, Good, Turns, Different

LEMMA GatherKeeps ==
  ASSUME DiscoveryInv, Gathers
  PROVE  DiscoveryInv'
<1>1. PICK gathered : Good(gathered) /\ proposed' = proposed \o gathered
  BY DEF Gathers
<1>2. /\ turn \in Turns /\ turn' \in Turns \cup {"judge"}
      /\ UNCHANGED <<host, search, judged, roots, rejected, rejectedTotal, credit, verdict>>
  BY DEF Gathers
<1>3. Good(proposed \o gathered)
  BY <1>1, BothAreGood DEF DiscoveryInv
<1>4. Good(proposed')
  BY <1>1, <1>3
<1>5. Given' /\ Good(proposed)'
  BY <1>2, <1>4 DEF DiscoveryInv, Given, Good, Fit, Offline, InRoot
<1>6. judged' = 0 /\ roots' = <<>> /\ rejected' = <<>> /\ rejectedTotal' = 0
  BY <1>2 DEF DiscoveryInv
<1>7. (judged \in 0 .. Len(proposed))'
  <2>1. \E n \in Nat : n = Len(proposed')
    BY <1>4, RowsAre DEF Good
  <2> QED BY <1>6, <2>1
<1>8. DOMAIN <<>> = {} /\ 1 .. 0 = {}
  OBVIOUS
<1>9. turn' \notin {"reconcile", "gate", "end"}
  BY <1>2 DEF Turns
<1>10. (Rows(roots) /\ (\A i \in DOMAIN roots : Kept(roots[i])) /\ Rows(rejected) /\ Counted)'
  <2>1. Counted'
    <3>1. RefusedOf(host', search', proposed', 0) = {}
      <4>1. 1 .. 0 = {}
        OBVIOUS
      <4> QED BY <4>1 DEF RefusedOf
    <3>2. Len(rejected') = 0 /\ 0 <= MaxReported
      BY <1>6, TablesAssumption
    <3> QED BY <1>6, <3>1, <3>2, FS_EmptySet DEF Counted
  <2> QED BY <1>6, <1>8, <2>1, RowsOfNone
<1>11. (Different /\ \A k \in 1 .. judged : Answered(k))'
  BY <1>6, <1>8 DEF Different
<1> QED BY <1>2, <1>5, <1>6, <1>7, <1>9, <1>10, <1>11 DEF DiscoveryInv

LEMMA ReconcileKeeps ==
  ASSUME DiscoveryInv, Reconcile \/ Gate \/ UNCHANGED discoveryVars
  PROVE  DiscoveryInv'
<1>1. UNCHANGED <<host, search, proposed, judged, roots, rejected, rejectedTotal>>
  BY DEF Reconcile, Gate, discoveryVars
<1>2. turn' = turn \/ (turn \in {"reconcile", "gate"} /\ turn' \in {"gate", "end"})
  BY DEF Reconcile, Gate, discoveryVars
<1>3. turn \in {"reconcile", "gate"} /\ turn' \in {"gate", "end"} =>
        turn' \notin Turns \cup {"judge"}
  BY DEF Turns
<1>4. (Given /\ Good(proposed))'
  BY <1>1 DEF DiscoveryInv, Given, Good, Fit, Offline, InRoot
<1>5. /\ (Rows(roots) /\ (\A i \in DOMAIN roots : Kept(roots[i])) /\ Rows(rejected) /\ judged \in 0 .. Len(proposed))'
      /\ Counted'
  BY <1>1 DEF DiscoveryInv, Kept, Counted
<1>6. (Different' <=> Different) /\ (Apart' <=> Apart)
  BY <1>1 DEF Different, Apart
<1>7. \A k : Answered(k)' <=> Answered(k)
  BY <1>1 DEF Answered, Covered, ListFull
<1> QED BY <1>1, <1>2, <1>3, <1>4, <1>5, <1>6, <1>7 DEF DiscoveryInv

\* A record made of a kept one's path and mechanism is kept.
LEMMA KeptAs ==
  ASSUME NEW r, Kept(r), NEW also, NEW subsumes, NEW inside, NEW t,
         t = [path |-> r.path, mech |-> r.mech, also |-> also, subsumes |-> subsumes, inside |-> inside]
  PROVE  Kept(t) /\ t.path = r.path
<1>1. t.path = r.path /\ t.mech = r.mech
  OBVIOUS
<1>2. \E path, mech, also1, subsumes1, inside1 :
        t = [path |-> path, mech |-> mech, also |-> also1, subsumes |-> subsumes1, inside |-> inside1]
  OBVIOUS
<1> QED BY <1>1, <1>2 DEF Kept

\* One proposal judged: kept, merged into the root at its path, refused, or silently missed.
LEMMA WeighKeeps ==
  ASSUME DiscoveryInv, Weigh
  PROVE  DiscoveryInv'
<1> DEFINE p == proposed[judged + 1]
           new == [path |-> p.path, mech |-> p.mech, also |-> {}, subsumes |-> {}, inside |-> p.inside]
           refusal == [path |-> p.path, mech |-> p.mech, reason |-> Judge(p)]
           none == Verdict(host, search, p) = "none"
           silent == Silent(host, search, p)
           refused == ~none /\ ~silent
<1>1. /\ turn = "judge" /\ judged < Len(proposed) /\ judged' = judged + 1
      /\ UNCHANGED <<host, search, turn, proposed>>
      /\ rejectedTotal' = IF refused THEN rejectedTotal + 1 ELSE rejectedTotal
      /\ rejected' = IF refused /\ Len(rejected) < MaxReported THEN Append(rejected, refusal) ELSE rejected
      /\ roots' = IF ~none THEN roots
                  ELSE IF \E i \in DOMAIN roots : roots[i].path = p.path
                  THEN [i \in DOMAIN roots |-> IF roots[i].path = p.path THEN MergeSamePath(roots[i], new) ELSE roots[i]]
                  ELSE Append(roots, new)
  BY JudgeIs DEF Weigh
<1>2. PICK n \in Nat : n = Len(proposed) /\ DOMAIN proposed = 1 .. n
  BY RowsAre DEF DiscoveryInv, Good
<1>3. /\ judged \in Nat /\ judged + 1 \in 1 .. n /\ judged' \in 0 .. n
      /\ \A k \in 1 .. judged' : k \in 1 .. judged \/ k = judged + 1
  BY <1>1, <1>2 DEF DiscoveryInv
<1>4. p.path \in FilePath /\ judged + 1 \in DOMAIN proposed
  BY <1>2, <1>3 DEF DiscoveryInv, Good, Fit, Range
<1>5. /\ Different /\ (\A k \in 1 .. judged : Answered(k)) /\ Rows(roots) /\ Rows(rejected) /\ Counted
      /\ \A i \in DOMAIN roots : Kept(roots[i])
  BY <1>1 DEF DiscoveryInv
<1>6. IsPrefix(p.path, p.path)
  BY <1>4, LenProperties, PrefixIs DEF FilePath
<1>13. refusal = Entry(host, search, p) /\ MaxReported \in Nat
  BY JudgeIs, TablesAssumption DEF Entry
<1>14. Cardinality(RefusedOf(host, search, proposed, judged + 1)) =
         IF refused THEN Cardinality(RefusedOf(host, search, proposed, judged)) + 1
         ELSE Cardinality(RefusedOf(host, search, proposed, judged))
  BY <1>3, OneMoreIsJudged
<1> HIDE DEF p, none, silent, refused, refusal
\* What has been refused stays counted, and listed; a full list stays full.
<1>7. /\ Rows(rejected') /\ Counted'
      /\ \A i \in DOMAIN rejected : i \in DOMAIN rejected' /\ rejected'[i] = rejected[i]
      /\ ListFull => ListFull'
      /\ refused => ListFull' \/ \E i \in DOMAIN rejected' : rejected'[i] = Entry(host, search, p)
  <2>1. rejectedTotal' = Cardinality(RefusedOf(host, search, proposed, judged + 1)) /\ rejectedTotal' \in Nat
    BY <1>1, <1>5, <1>14 DEF Counted
  <2>2. CASE ~refused
    BY <1>1, <1>5, <2>1, <2>2 DEF Counted, ListFull
  <2>3. CASE refused /\ ~(Len(rejected) < MaxReported)
    <3>1. rejected' = rejected /\ rejectedTotal' = rejectedTotal + 1
      BY <1>1, <2>3
    <3> QED BY <1>1, <1>5, <1>13, <2>1, <2>3, <3>1 DEF Counted, ListFull
  <2>4. CASE refused /\ Len(rejected) < MaxReported
    <3>1. rejected' = Append(rejected, refusal) /\ rejectedTotal' = rejectedTotal + 1
      BY <1>1, <2>4
    <3>2. PICK m : /\ Rows(rejected') /\ Len(rejected') = Len(rejected) + 1 /\ Len(rejected) \in Nat
                   /\ DOMAIN rejected' = DOMAIN rejected \cup {m} /\ rejected'[m] = refusal
                   /\ \A i \in DOMAIN rejected : rejected'[i] = rejected[i]
      BY <1>5, <3>1, RowsAppended
    <3>3. Counted' /\ ~ListFull
      BY <1>1, <1>5, <1>13, <2>1, <2>4, <3>1, <3>2 DEF Counted, ListFull
    <3> QED BY <1>13, <3>2, <3>3
  <2> QED BY <2>2, <2>3, <2>4
\* What has been kept stays, at its path.
<1>8. /\ Rows(roots') /\ Different'
      /\ \A i \in DOMAIN roots : i \in DOMAIN roots' /\ roots'[i].path = roots[i].path
      /\ none => \E i \in DOMAIN roots' : roots'[i].path = p.path
      /\ \A i \in DOMAIN roots' : Kept(roots'[i])
  <2>0. /\ none => Kept(new)
        /\ new.path = p.path /\ new.mech = p.mech
    BY <1>4 DEF Kept, none, p
  <2> HIDE DEF new
  <2>1. CASE ~none
    BY <1>1, <1>5, <2>1 DEF Different
  <2>2. CASE none /\ \E i \in DOMAIN roots : roots[i].path = p.path
    <3>1. roots' = [i \in DOMAIN roots |-> IF roots[i].path = p.path THEN MergeSamePath(roots[i], new) ELSE roots[i]]
      BY <1>1, <2>2
    <3>2. ASSUME NEW a, NEW b, Kept(a), Kept(b), a.path = b.path
          PROVE  Kept(MergeSamePath(a, b)) /\ MergeSamePath(a, b).path = b.path
      <4> DEFINE strong == IF Specificity(b.mech) > Specificity(a.mech) THEN b ELSE a
                 weak == IF strong = b THEN a ELSE b
                 all == strong.also \cup {weak.mech} \cup weak.also
      <4>1. MergeSamePath(a, b) = [strong EXCEPT !.also = all]
        BY DEF MergeSamePath
      <4>2. Kept(strong) /\ strong.path = b.path
        BY <3>2
      <4> HIDE DEF strong, all
      <4>3. MergeSamePath(a, b) = [path |-> strong.path, mech |-> strong.mech, also |-> all,
                                   subsumes |-> strong.subsumes, inside |-> strong.inside]
        BY <4>1, <4>2 DEF Kept
      <4> QED BY <4>2, <4>3, KeptAs
    <3>3. \A i \in DOMAIN roots : Kept(roots'[i]) /\ roots'[i].path = roots[i].path
      BY <1>5, <2>0, <2>2, <3>1, <3>2
    <3>4. Rows(roots') /\ DOMAIN roots' = DOMAIN roots
      BY <1>5, <3>1, RowsMapped
    <3> QED BY <1>5, <2>2, <3>3, <3>4 DEF Different
  <2>3. CASE none /\ ~\E i \in DOMAIN roots : roots[i].path = p.path
    <3>1. roots' = Append(roots, new)
      BY <1>1, <2>3
    <3>2. PICK m : /\ Rows(roots') /\ m \notin DOMAIN roots /\ DOMAIN roots' = DOMAIN roots \cup {m}
                   /\ roots'[m] = new /\ \A i \in DOMAIN roots : roots'[i] = roots[i]
      BY <1>5, <3>1, RowsAppended
    <3> QED BY <1>5, <2>0, <2>3, <3>2 DEF Different
  <2> QED BY <2>1, <2>2, <2>3
<1>9. ASSUME NEW k \in 1 .. judged' PROVE Answered(k)'
  <2>0. \A path : Covered(path) => Covered(path)'
    BY <1>8 DEF Covered
  <2>1. CASE k \in 1 .. judged
    <3>1. Answered(k) /\ proposed'[k] = proposed[k] /\ host' = host /\ search' = search
      BY <1>1, <1>5, <2>1
    <3>2. CASE Verdict(host, search, proposed[k]) = "none"
      <4>1. Covered(proposed[k].path)
        BY <3>1, <3>2 DEF Answered
      <4> QED BY <1>8, <3>1, <3>2, <4>1 DEF Answered, Covered
    <3>3. CASE Verdict(host, search, proposed[k]) # "none"
      <4>1. \/ Silent(host, search, proposed[k]) \/ ListFull
            \/ \E i \in DOMAIN rejected : rejected[i] = Entry(host, search, proposed[k])
        BY <3>1, <3>3 DEF Answered
      <4>2. \/ Silent(host, search, proposed[k]) \/ ListFull'
            \/ \E i \in DOMAIN rejected' : rejected'[i] = Entry(host, search, proposed[k])
        BY <1>7, <4>1
      <4> QED BY <3>1, <3>3, <4>2 DEF Answered
    <3> QED BY <3>2, <3>3
  <2>2. CASE k = judged + 1
    <3>1. proposed'[k] = p /\ host' = host /\ search' = search
      BY <1>1, <2>2 DEF p
    <3>2. CASE none
      <4>1. \E i \in DOMAIN roots' : IsPrefix(roots'[i].path, p.path)
        BY <1>6, <1>8, <3>2
      <4> QED BY <3>1, <3>2, <4>1 DEF Answered, Covered, none
    <3>3. CASE ~none
      BY <1>7, <3>1, <3>3 DEF Answered, none, silent, refused
    <3> QED BY <3>2, <3>3
  <2> QED BY <1>3, <2>1, <2>2
<1>10. (Given /\ Good(proposed) /\ judged \in 0 .. Len(proposed))'
  BY <1>1, <1>2, <1>3 DEF DiscoveryInv, Given, Good, Fit, Offline, InRoot
<1>11. (\A i \in DOMAIN roots : Kept(roots[i]))'
  BY <1>1, <1>8 DEF Kept
<1>12. turn' = "judge" /\ turn' \notin Turns /\ turn' \notin {"reconcile", "gate", "end"}
  BY <1>1 DEF Turns
<1> QED BY <1>7, <1>8, <1>9, <1>10, <1>11, <1>12 DEF DiscoveryInv

\* A root has no enclosing one exactly if none is its ancestor.
LEMMA EnclosingIs ==
  ASSUME Rows(roots), NEW i \in DOMAIN roots
  PROVE  (Enclosing(i) = 0) <=> ~\E j \in DOMAIN roots : IsAncestor(roots[j].path, roots[i].path)
<1> DEFINE A(j) == IsAncestor(roots[j].path, roots[i].path)
<1>1. PICK n \in Nat : DOMAIN roots = 1 .. n
  BY RowsAre
<1>2. CASE \E j \in DOMAIN roots : A(j)
  <2>1. PICK j \in DOMAIN roots : A(j) /\ \A k \in 1 .. j - 1 : ~A(k)
    <3> DEFINE T == {j \in DOMAIN roots : A(j)}
    <3>1. T \subseteq Nat /\ T # {}
      BY <1>1, <1>2
    <3>2. PICK j \in T : \A k \in T : j <= k
      BY <3>1, LeastNumber
    <3>3. \A k \in 1 .. j - 1 : k \in DOMAIN roots /\ ~(j <= k)
      BY <1>1, <3>2
    <3> QED BY <3>2, <3>3
  <2>2. Enclosing(i) \in DOMAIN roots
    BY <1>2, <2>1 DEF Enclosing
  <2> QED BY <1>1, <1>2, <2>2
<1>3. CASE ~\E j \in DOMAIN roots : A(j)
  BY <1>3 DEF Enclosing
<1> QED BY <1>2, <1>3

\* What is covered is covered by a root that no other encloses.
LEMMA OutermostCovers ==
  ASSUME DiscoveryInv, NEW path \in FilePath, Covered(path)
  PROVE  \E b \in DOMAIN roots : IsPrefix(roots[b].path, path) /\ Enclosing(b) = 0
<1> DEFINE C == {j \in DOMAIN roots : IsPrefix(roots[j].path, path)}
           T == {Len(roots[j].path) : j \in C}
<1>1. \A j \in DOMAIN roots : roots[j].path \in FilePath /\ Len(roots[j].path) \in Nat
  BY KeptIsPath, LenProperties DEF FilePath
<1>2. T \subseteq Nat /\ T # {}
  BY <1>1 DEF Covered
<1>3. PICK least \in T : \A k \in T : least <= k
  BY <1>2, LeastNumber
<1>4. PICK b \in C : Len(roots[b].path) = least
  BY <1>3
<1>5. ASSUME NEW j \in DOMAIN roots, IsAncestor(roots[j].path, roots[b].path) PROVE FALSE
  <2>1. IsPrefix(roots[j].path, roots[b].path) /\ Len(roots[j].path) < Len(roots[b].path)
    BY <1>1, <1>4, <1>5, PrefixIs DEF IsAncestor, IsStrictPrefix, FilePath
  <2>2. IsPrefix(roots[j].path, path)
    BY <1>1, <1>4, <2>1, PrefixTransitive DEF FilePath
  <2>3. least <= Len(roots[j].path)
    BY <1>3, <2>2
  <2> QED BY <1>1, <1>2, <1>4, <2>1, <2>3
<1>6. Rows(roots)
  BY DEF DiscoveryInv
<1> QED BY <1>4, <1>5, <1>6, EnclosingIs

\* After nested roots are gone, what covered a path has an outermost root that still does.
LEMMA NestKeeps ==
  ASSUME DiscoveryInv, Nest
  PROVE  DiscoveryInv'
<1> DEFINE nested == {i \in DOMAIN roots : Enclosing(i) # 0}
           held(i) == {roots[j].path : j \in {j \in nested : j < i /\ Enclosing(j) = i}}
           final(i) == [roots[i] EXCEPT !.subsumes = held(i)]
           ss == [i \in DOMAIN roots |-> IF i \in nested THEN <<>> ELSE <<final(i)>>]
           S == {final(i) : i \in DOMAIN roots}
           R == {x \in S \X S : x[1].path # x[2].path}
<1>1. /\ turn = "judge" /\ judged = Len(proposed) /\ turn' = "reconcile"
      /\ UNCHANGED <<host, search, proposed, judged, rejected, rejectedTotal>>
      /\ roots' = FlattenSeq(ss)
  BY DEF Nest
<1>2. /\ Different /\ (\A k \in 1 .. judged : Answered(k)) /\ Rows(roots)
      /\ \A i \in DOMAIN roots : Kept(roots[i])
  BY <1>1 DEF DiscoveryInv
<1>3. \A i \in DOMAIN roots : /\ final(i) \in S /\ Kept(final(i))
                              /\ final(i).path = roots[i].path
  <2> TAKE i \in DOMAIN roots
  <2>1. Kept(roots[i])
    BY <1>2
  <2>2. PICK held1 : final(i) = [roots[i] EXCEPT !.subsumes = held1]
    OBVIOUS
  <2>3. final(i) \in S
    OBVIOUS
  <2> HIDE DEF final, S
  <2>4. final(i) = [path |-> roots[i].path, mech |-> roots[i].mech, also |-> roots[i].also,
                    subsumes |-> held1, inside |-> roots[i].inside]
    BY <2>1, <2>2 DEF Kept
  <2> QED BY <2>1, <2>3, <2>4, KeptAs
<1>4. \A i \in DOMAIN roots : ss[i] = IF i \in nested THEN <<>> ELSE <<final(i)>>
  OBVIOUS
<1>5. ss = [i \in DOMAIN roots |-> ss[i]]
  OBVIOUS
<1> HIDE DEF ss, final, S
<1>6. Rows(ss) /\ DOMAIN ss = DOMAIN roots
  BY <1>2, <1>5, RowsMapped
<1>7. /\ ss \in Seq(Seq(S))
      /\ \A i \in DOMAIN ss : \A a \in DOMAIN ss[i] : i \notin nested /\ ss[i][a] = final(i) /\ a = 1
  <2>1. ASSUME NEW i \in DOMAIN ss
        PROVE  ss[i] \in Seq(S) /\ \A a \in DOMAIN ss[i] : i \notin nested /\ ss[i][a] = final(i) /\ a = 1
    <3>1. CASE i \in nested
      <4>1. ss[i] = <<>> /\ DOMAIN <<>> = {} /\ <<>> \in Seq(S)
        BY <1>4, <1>6, <3>1
      <4> QED BY <4>1
    <3>2. CASE i \notin nested
      <4>1. ss[i] = <<final(i)>> /\ final(i) \in S
        BY <1>3, <1>4, <1>6, <3>2
      <4> QED BY <3>2, <4>1
    <3> QED BY <3>1, <3>2
  <2>2. Range(ss) \subseteq Seq(S)
    BY <2>1 DEF Range
  <2> QED BY <1>6, <2>1, <2>2, RowsWithin
<1>8. /\ \A i \in DOMAIN ss : \A a, b \in DOMAIN ss[i] : a < b => <<ss[i][a], ss[i][b]>> \in R
      /\ \A i, j \in DOMAIN ss : \A a \in DOMAIN ss[i], b \in DOMAIN ss[j] : i < j => <<ss[i][a], ss[j][b]>> \in R
  <2>1. \A i \in DOMAIN ss : \A a, b \in DOMAIN ss[i] : ~(a < b)
    BY <1>7
  <2>2. ASSUME NEW i \in DOMAIN ss, NEW j \in DOMAIN ss, NEW a \in DOMAIN ss[i], NEW b \in DOMAIN ss[j], i < j
        PROVE  <<ss[i][a], ss[j][b]>> \in R
    <3>1. ss[i][a] = final(i) /\ ss[j][b] = final(j) /\ i # j
      <4>1. PICK n \in Nat : DOMAIN ss = 1 .. n
        BY <1>6, RowsAre
      <4> QED BY <1>7, <2>2, <4>1
    <3>2. final(i).path # final(j).path /\ final(i) \in S /\ final(j) \in S
      BY <1>2, <1>3, <1>6, <3>1 DEF Different
    <3> QED BY <3>1, <3>2
  <2> QED BY <2>1, <2>2
<1> HIDE DEF R
<1>9. /\ FlattenSeq(ss) \in Seq(S)
      /\ \A i \in DOMAIN ss : \A a \in DOMAIN ss[i] : \E b \in DOMAIN FlattenSeq(ss) : FlattenSeq(ss)[b] = ss[i][a]
      /\ \A b \in DOMAIN FlattenSeq(ss) : \E i \in DOMAIN ss : \E a \in DOMAIN ss[i] : FlattenSeq(ss)[b] = ss[i][a]
      /\ \A a, b \in DOMAIN FlattenSeq(ss) : a < b => <<FlattenSeq(ss)[a], FlattenSeq(ss)[b]>> \in R
  BY <1>7, <1>8, Flattened
<1>10. Rows(roots')
  BY <1>1, <1>9, RowsIn
\* What is kept now is what no other encloses.
<1>11. \A b \in DOMAIN roots' : \E i \in DOMAIN roots : Enclosing(i) = 0 /\ roots'[b] = final(i)
  <2> TAKE b \in DOMAIN roots'
  <2>1. PICK i \in DOMAIN ss : \E a \in DOMAIN ss[i] : roots'[b] = ss[i][a]
    BY <1>1, <1>9
  <2> QED BY <1>6, <1>7, <2>1
<1>12. \A i \in DOMAIN roots : Enclosing(i) = 0 => \E b \in DOMAIN roots' : roots'[b] = final(i)
  <2> TAKE i \in DOMAIN roots
  <2> HAVE Enclosing(i) = 0
  <2>1. ss[i] = <<final(i)>> /\ i \in DOMAIN ss
    BY <1>4, <1>6
  <2>2. 1 \in DOMAIN ss[i] /\ ss[i][1] = final(i)
    BY <2>1
  <2>3. \E b \in DOMAIN FlattenSeq(ss) : FlattenSeq(ss)[b] = ss[i][1]
    BY <1>9, <2>1, <2>2
  <2> QED BY <1>1, <2>2, <2>3
<1>13. \A a, b \in DOMAIN roots' : a # b => roots'[a].path # roots'[b].path
  <2>1. PICK n \in Nat : DOMAIN roots' = 1 .. n
    BY <1>10, RowsAre
  <2>0. \A x, y : <<x, y>> \in R => x.path # y.path
    BY DEF R
  <2>2. \A a, b \in DOMAIN roots' : a < b => roots'[a].path # roots'[b].path
    <3>1. PICK t : t = FlattenSeq(ss) /\ t = roots'
      BY <1>1
    <3>2. \A a, b \in DOMAIN t : a < b => <<t[a], t[b]>> \in R
      BY <1>9, <3>1
    <3> QED BY <2>0, <3>1, <3>2
  <2>3. \A a, b \in 1 .. n : a # b => a < b \/ b < a
    OBVIOUS
  <2> QED BY <2>1, <2>2, <2>3
<1>14. Apart'
  <2> SUFFICES ASSUME NEW a \in DOMAIN roots', NEW b \in DOMAIN roots', a # b, IsPrefix(roots'[a].path, roots'[b].path)
               PROVE  FALSE
    BY DEF Apart
  <2>1. PICK i \in DOMAIN roots : roots'[a] = final(i)
    BY <1>11
  <2>2. PICK j \in DOMAIN roots : roots'[b] = final(j) /\ Enclosing(j) = 0
    BY <1>11
  <2>3. IsAncestor(roots[i].path, roots[j].path)
    BY <1>3, <1>13, <2>1, <2>2 DEF IsAncestor, IsStrictPrefix
  <2> QED BY <1>2, <2>2, <2>3, EnclosingIs
<1>15. ASSUME NEW k \in DOMAIN proposed PROVE Answered(k)'
  <2>1. Answered(k)
    <3>1. PICK n \in Nat : n = Len(proposed) /\ DOMAIN proposed = 1 .. n
      BY RowsAre DEF DiscoveryInv, Good
    <3> QED BY <1>1, <1>2, <3>1
  <2>2. CASE Verdict(host, search, proposed[k]) = "none"
    <3>1. proposed[k].path \in FilePath /\ Covered(proposed[k].path)
      BY <2>1, <2>2 DEF Answered, DiscoveryInv, Good, Fit, Range
    <3>2. PICK b \in DOMAIN roots : IsPrefix(roots[b].path, proposed[k].path) /\ Enclosing(b) = 0
      BY <3>1, OutermostCovers
    <3>3. \E c \in DOMAIN roots' : IsPrefix(roots'[c].path, proposed[k].path)
      BY <1>3, <1>12, <3>2
    <3> QED BY <1>1, <2>2, <3>3 DEF Answered, Covered
  <2>3. CASE Verdict(host, search, proposed[k]) # "none"
    BY <1>1, <2>1, <2>3 DEF Answered, ListFull
  <2> QED BY <2>2, <2>3
<1>16. (Given /\ Good(proposed) /\ judged \in 0 .. Len(proposed) /\ judged = Len(proposed) /\ Rows(rejected) /\ Counted)'
  BY <1>1 DEF DiscoveryInv, Given, Good, Fit, Offline, InRoot, Counted
<1>17. (\A i \in DOMAIN roots : Kept(roots[i]))'
  BY <1>1, <1>3, <1>11 DEF Kept
<1>18. turn' \notin Turns \cup {"judge"}
  BY <1>1 DEF Turns
<1> QED BY <1>1, <1>10, <1>14, <1>15, <1>16, <1>17, <1>18 DEF DiscoveryInv

-----------------------------------------------------------------------------
(* The theorems.                                                            *)

\* Through every mechanism's turn and every judgement, what is kept comes from a proposal
\* that was accepted, what was judged is covered, a silent miss, or refused: counted, and on
\* the list unless that is full and the count is larger. Once nested roots are gone none of
\* what is left encloses another.
THEOREM DiscoveryKeepsAccount == DiscoverySpec => []DiscoveryInv
<1>1. ASSUME DiscoveryInv, [DiscoveryNext]_discoveryVars PROVE DiscoveryInv'
  <2>1. CASE Explicit \/ Disabled \/ Iis
    BY <1>1, <2>1, BeginGathers, GatherKeeps DEF DiscoveryInv
  <2>2. CASE ApacheConfig \/ NginxConfig \/ ApacheDump \/ NginxDump
    BY <1>1, <2>2, ConfigGathers, GatherKeeps DEF DiscoveryInv
  <2>3. CASE Tomcat \/ Appserver \/ AppserverConvention \/ Convention
    BY <1>1, <2>3, ServersGather, GatherKeeps DEF DiscoveryInv
  <2>4. CASE Weigh
    BY <1>1, <2>4, WeighKeeps
  <2>5. CASE Nest
    BY <1>1, <2>5, NestKeeps
  <2>6. CASE Reconcile \/ Gate \/ UNCHANGED discoveryVars
    BY <1>1, <2>6, ReconcileKeeps
  <2> QED BY <1>1, <2>1, <2>2, <2>3, <2>4, <2>5, <2>6 DEF DiscoveryNext
<1> QED BY <1>1, InitHolds, PTL DEF DiscoverySpec

\* No proposal is lost and none is scanned twice: when discovery has ended each is under
\* exactly one root, a guess at a place that is not there, or refused; all that are refused
\* are counted, and one that is not on the list is missing because the list is full.
THEOREM EveryProposalAnswered == DiscoverySpec => []EveryProposalIsAnswered
<1>1. ASSUME DiscoveryInv PROVE EveryProposalIsAnswered
  <2> SUFFICES ASSUME Ended
               PROVE  /\ Apart
                      /\ \A k \in DOMAIN proposed : Judge(proposed[k]) = "none" => Covered(proposed[k].path)
                      /\ rejectedTotal = Cardinality(Refusals)
                      /\ \A k \in Refusals : OnTheList(proposed[k]) \/ ListFull
    BY DEF EveryProposalIsAnswered, Apart, ListFull
  <2>1. Apart /\ judged = Len(proposed) /\ Counted /\ \A k \in DOMAIN proposed : Answered(k)
    BY <1>1 DEF DiscoveryInv, Ended
  <2>2. DOMAIN proposed = 1 .. Len(proposed)
    BY <1>1, RowsAre DEF DiscoveryInv, Good
  <2>3. Refusals = RefusedOf(host, search, proposed, judged)
    BY <2>1, <2>2, JudgeIs DEF Refusals, RefusedOf
  <2>4. \A k \in DOMAIN proposed : OnTheList(proposed[k]) <=> \E i \in DOMAIN rejected : rejected[i] = Entry(host, search, proposed[k])
    BY JudgeIs DEF OnTheList, Entry
  <2>5. \A k \in Refusals : OnTheList(proposed[k]) \/ ListFull
    BY <2>1, <2>4, JudgeIs DEF Answered, Refusals
  <2>6. \A k \in DOMAIN proposed : Judge(proposed[k]) = "none" => Covered(proposed[k].path)
    BY <2>1, JudgeIs DEF Answered
  <2> QED BY <2>1, <2>3, <2>5, <2>6 DEF Counted
<1> QED BY <1>1, DiscoveryKeepsAccount, PTL

\* Discovery does not accept a filesystem or a system directory, nor with a mounted root
\* anything outside it, wherever a configured path or a link leads in the filesystem that is
\* scanned. Where the kernel takes a walk of the path as it is named is another matter.
THEOREM DiscoveryStaysConfined == DiscoverySpec => []DiscoveryIsConfined
<1>1. ASSUME DiscoveryInv PROVE DiscoveryIsConfined
  <2> SUFFICES ASSUME NEW i \in DOMAIN roots, roots[i].mech # "explicit"
               PROVE  /\ Offline => InRoot(roots[i].path)
                      /\ LET at == Resolve(host, search.root, roots[i].path)
                         IN  at.error = "none" /\ InRoot(at.here) /\ Below(at.here) # <<>> /\ Below(at.here) \notin SystemDirs
    BY DEF DiscoveryIsConfined
  <2> DEFINE at == Resolve(host, search.root, roots[i].path)
  <2>1. PICK k \in DOMAIN proposed : /\ proposed[k].path = roots[i].path /\ proposed[k].mech # "explicit"
                                     /\ Verdict(host, search, proposed[k]) = "none"
    BY <1>1 DEF DiscoveryInv, Kept
  <2>2. roots[i].path \in FilePath /\ (Offline => InRoot(roots[i].path))
    BY <1>1, <2>1 DEF DiscoveryInv, Good, Fit, Range
  <2>3. host \in Hosts /\ search \in Searches /\ search.root \in FilePath
    BY <1>1, SearchesAssumption DEF DiscoveryInv, Given
  <2>4. at.here \in FilePath /\ IsPrefix(search.root, at.here)
    BY <2>2, <2>3, ResolveStaysWithin
  <2>5. at.error = "none" /\ Contained(search.root, at.here)
    <3>1. CASE Offline
      <4>1. search.root # <<>> /\ IsPrefix(search.root, proposed[k].path)
        BY <2>1, <2>2, <3>1 DEF Offline, InRoot
      <4> HIDE DEF Offline
      <4> QED BY <2>1, <4>1 DEF Verdict
    <3>2. CASE ~Offline
      <4>1. search.root = <<>>
        BY <3>2 DEF Offline
      <4> QED BY <2>1, <4>1 DEF Verdict
    <3> QED BY <3>1, <3>2
  <2>6. Below(at.here) # <<>>
    <3>1. at.here # search.root
      BY <2>5 DEF Contained
    <3>2. PICK n \in Nat, m \in Nat, q \in FilePath :
            /\ n = Len(search.root) /\ m = Len(q) /\ n < m /\ q = at.here /\ \A j \in 1 .. m : q[j] \in Components
      <4>1. IsStrictPrefix(search.root, at.here)
        BY <2>4, <3>1 DEF IsStrictPrefix
      <4>2. Len(search.root) < Len(at.here)
        BY <2>3, <2>4, <4>1, PrefixIs DEF FilePath
      <4> QED BY <2>3, <2>4, <4>2, LenProperties, ElementOfSeq DEF FilePath
    <3>3. Len(SubSeq(q, n + 1, m)) = m - (n + 1) + 1
      <4>1. n + 1 \in Int /\ m \in Int /\ n + 1 <= m /\ \A j \in n + 1 .. m : q[j] \in Components
        BY <3>2
      <4> QED BY <4>1, SubSeqProperties DEF FilePath
    <3>4. Below(at.here) = SubSeq(q, n + 1, m) /\ Len(<<>>) = 0 /\ m - (n + 1) + 1 # 0
      BY <3>2 DEF Below
    <3> QED BY <3>3, <3>4
  <2> QED BY <2>2, <2>4, <2>5, <2>6 DEF Contained, InRoot, Below
<1> QED BY <1>1, DiscoveryKeepsAccount, PTL

-----------------------------------------------------------------------------
(* The Java pass: the invariant of its walk over artifacts, in parts that   *)
(* are operators of the state, so that a lemma can compare two states.      *)

\* A diagnostic in a result: a loose artifact, a directory or a class by its name; an
\* archive or something in it.
IsArchive(fs, p) == p \in DOMAIN fs /\ fs[p].kind = "archive"
IsLoose(fs, a) == a \in Seq(Component) /\ ~IsArchive(fs, a)
InArchive(a, p) ==
  /\ a \in Seq(Nat) /\ Len(p) <= Len(a)
  /\ \A i \in 1 .. Len(p) : a[i] = p[i]
  /\ Len(p) < Len(a) => a[Len(p) + 1] = Bang
\* What is no artifact, and above none, is about any.
Anyones(fs, a) == /\ a \in Seq(Component) /\ a \notin DOMAIN fs
                  /\ (a = NoPath \/ \A p \in DOMAIN fs : ~Under(a, p))

\* One occurrence named by a is about q, whatever it is merged with.
PointsAt(fs, a, q) == a = q \/ (a \notin DOMAIN fs /\ (Under(a, q) \/ \A p \in DOMAIN fs : ~Under(a, p)))
About(fs, d, q) ==
  \/ IsLoose(fs, d.artifact) /\ (d.count # 1 \/ PointsAt(fs, d.artifact, q))
  \/ IsArchive(fs, q) /\ InArchive(d.artifact, q)

\* The diagnostics of one result, of loose artifacts and of an archive.
SaidLoose(fs, said) == \A c \in DOMAIN said : IsLoose(fs, said[c].artifact) /\ said[c].count \in Nat \ {0}
SaidIn(fs, said, p) == \A c \in DOMAIN said : Anyones(fs, said[c].artifact) \/ InArchive(said[c].artifact, p)

\* q is reached by a diagnostic of a result, or by one in the record.
Tells(fs, said, q) == \E c \in DOMAIN said : About(fs, said[c], q)
Noted(fs, ds, q) == \E d \in ds : About(fs, d, q)

\* The shape of the state: an archive's frames hold members, classes are of the archive.
AnyMember == UNION {Contents[c].members : c \in DOMAIN Contents}
Frames(p) == [root : {a \in Seq(Nat) : InArchive(a, p)}, left : Seq(AnyMember)]
JarShape(fs, j) ==
  /\ IsArchive(fs, j.path) /\ j.frames \in Seq(Frames(j.path))
  /\ IsFiniteSet(j.models) /\ \A x \in j.models : InArchive(x.path, j.path) /\ x.content \in DOMAIN Contents
GroupsShape(fs, groups) ==
  IsFiniteSet(groups) /\ \A m \in groups : IsLoose(fs, m.path) /\ m.path \in DOMAIN fs /\ m.content \in DOMAIN Contents

Shape(fs, wa, lo, js, j, en) ==
  /\ fs \in Disks /\ en \subseteq DOMAIN fs
  /\ wa \in [root : Nat, stage : {"walk", "loose", "groups", "jars", "jar", "end"}]
  /\ lo = [left |-> lo.left, groups |-> lo.groups, classes |-> lo.classes, retained |-> lo.retained]
  /\ j = [path |-> j.path, frames |-> j.frames, entries |-> j.entries, classes |-> j.classes,
          retained |-> j.retained, digests |-> j.digests, models |-> j.models]
  /\ \A p \in lo.left : p \in DOMAIN fs /\ IsLoose(fs, p)
  /\ GroupsShape(fs, lo.groups)
  /\ \A p \in js : IsArchive(fs, p)
  /\ wa.stage \in {"walk", "end"} => js = {}
  /\ wa.stage \notin {"loose", "groups"} => lo.left = {} /\ lo.groups = {}
  /\ wa.stage = "groups" => lo.left = {}
  /\ wa.stage = "jar" => JarShape(fs, j)

\* What went wrong with q is in the record, or in the result that will be.
Heard(fs, phase, ds, said, path, q) ==
  \/ Noted(fs, ds, q)
  \/ phase \in {"loose", "groups"} /\ Tells(fs, said, q)
  \/ phase = "jar" /\ q = path /\ DOMAIN said # {}
Telling(fs, phase, re, ds, path, tr) ==
  /\ phase \in {"loose", "groups"} => SaidLoose(fs, re.said)
  /\ phase = "jar" => SaidIn(fs, re.said, path)
  /\ \A q \in tr : q \in DOMAIN fs /\ Heard(fs, phase, ds, re.said, path, q)

\* Each artifact that was enumerated had trouble, has been examined, or waits.
Examined(ex, q) == \E e \in ex : e[1] = q
Had(ex, q, c) == \E e \in ex : e[1] = q /\ e[4] = c
Whole(ex, q, top) == \A c \in Reachable(top) : \A m \in Inside[c] : Had(ex, q, m.content)
Through(fs, ex, q) == IF IsArchive(fs, q) THEN Whole(ex, q, fs[q].content) ELSE Examined(ex, q)
Waits(phase, lo, js, path, q) ==
  q \in lo.left \/ (\E m \in lo.groups : m.path = q) \/ q \in js \/ (phase = "jar" /\ q = path)
EachAccounted(fs, phase, lo, js, path, en, ex, tr) ==
  \A q \in en : q \in tr \/ Through(fs, ex, q) \/ Waits(phase, lo, js, path, q)

\* Of an archive without trouble: the contents entered so far, E, are closed but for the
\* members that are pending, and what a digest was kept of has been seen to.
Got(ex, path, models, c) == Had(ex, path, c) \/ \E x \in models : x.content = c
Pending(frames, m) == \E i \in DOMAIN frames : \E k \in DOMAIN frames[i].left : frames[i].left[k] = m
SeenTo(ex, path, models, E, m) ==
  IF m.kind = "archive" THEN Contents[m.content].zip => m.content \in E ELSE Got(ex, path, models, m.content)
Followed(ex, path, models, frames, E) ==
  \A c \in E : \A m \in Contents[c].members :
    Priority(m) = 3 \/ Pending(frames, m) \/ SeenTo(ex, path, models, E, m)
Dated(ex, path, models, digests, E) ==
  \A c \in digests : (Contents[c].zip => c \in E) /\ (~Contents[c].zip => Got(ex, path, models, c))
Covers(ex, j, top, E) ==
  /\ top \in E /\ E \in SUBSET DOMAIN Contents
  /\ Followed(ex, j.path, j.models, j.frames, E) /\ Dated(ex, j.path, j.models, j.digests, E)
Scanned(fs, phase, j, ex, tr) ==
  (phase = "jar" /\ j.path \notin tr) => \E E \in SUBSET DOMAIN Contents : Covers(ex, j, fs[j.path].content, E)

-----------------------------------------------------------------------------
(* Diagnostics and the artifacts they reach.                                *)

LEMMA PathsArePaths ==
  ASSUME NEW fs \in Disks, NEW p \in DOMAIN fs
  PROVE  p \in Seq(Component) /\ p # NoPath /\ Len(p) \in Nat /\ Len(p) # 0 /\ DOMAIN p = 1 .. Len(p)
<1>1. p \in Seq(Component) /\ p # NoPath
  BY DisksAssumption
<1> QED BY <1>1, EmptySeq, LenProperties DEF NoPath

LEMMA LooseIsItself == ASSUME NEW a \in Seq(Component) PROVE Physical(a) = a
<1>1. \A i \in DOMAIN a : a[i] # Bang
  BY ElementOfSeq, LenProperties DEF Component
<1> QED BY <1>1 DEF Physical

LEMMA InsideIsArchive ==
  ASSUME NEW p \in Seq(Component), NEW a, InArchive(a, p)
  PROVE  Physical(a) = p
<1>1. PICK n \in Nat : n = Len(p) /\ DOMAIN p = 1 .. n /\ \A i \in 1 .. n : p[i] # Bang
  BY ElementOfSeq, LenProperties DEF Component
<1>2. a \in Seq(Nat) /\ Len(a) \in Nat /\ DOMAIN a = 1 .. Len(a) /\ n <= Len(a)
  BY <1>1, LenProperties DEF InArchive
<1>3. \A i \in 1 .. n : a[i] = p[i] /\ i \in DOMAIN a
  BY <1>1, <1>2 DEF InArchive
<1>0. n < Len(a) => a[n + 1] = Bang
  BY <1>1 DEF InArchive
<1>9. p \in Seq(Nat)
  BY <1>1, SeqDef DEF Component
<1>4. CASE Len(a) = n
  <2>1. \A i \in DOMAIN a : a[i] # Bang
    BY <1>1, <1>2, <1>3, <1>4
  <2>2. a = p
    BY <1>1, <1>2, <1>3, <1>4, <1>9, SeqEqual
  <2> QED BY <2>1, <2>2 DEF Physical
<1>5. CASE Len(a) # n
  <2>0. n < Len(a) /\ n + 1 \in 1 .. Len(a)
    <3>1. \A m \in Nat : n <= m /\ m # n => n < m /\ n + 1 \in 1 .. m
      OBVIOUS
    <3> QED BY <1>2, <1>5, <3>1, Zenon
  <2>1. n + 1 \in DOMAIN a /\ a[n + 1] = Bang
    BY <1>0, <1>2, <2>0
  <2> DEFINE Met(i) == i \in DOMAIN a /\ a[i] = Bang /\ \A j \in 1 .. i - 1 : a[j] # Bang
             i == CHOOSE i \in DOMAIN a : a[i] = Bang /\ \A j \in 1 .. i - 1 : a[j] # Bang
  <2>2. Met(n + 1)
    <3>1. \A j \in 1 .. (n + 1) - 1 : j \in 1 .. n
      OBVIOUS
    <3> QED BY <1>1, <1>3, <2>1, <3>1
  <2>3. \A j : Met(j) => j = n + 1
    <3> SUFFICES ASSUME NEW j, Met(j) PROVE j = n + 1
      OBVIOUS
    <3>1. j \in Nat /\ j >= 1
      BY <1>2
    <3>2. ~(j <= n)
      BY <1>1, <1>3, <3>1
    <3>3. ~(n + 1 \in 1 .. j - 1)
      BY <2>1
    <3> QED BY <3>1, <3>2, <3>3
  <2>4. i = n + 1
    BY <2>2, <2>3
  <2>5. Physical(a) = SubSeq(a, 1, i - 1)
    BY <2>1 DEF Physical
  <2>6. Physical(a) = SubSeq(a, 1, n)
    <3>1. i - 1 = n
      <4> HIDE DEF i
      <4> QED BY <2>4
    <3> QED BY <2>5, <3>1
  <2>7. SubSeq(a, 1, n) \in Seq(Nat) /\ Len(SubSeq(a, 1, n)) = n /\ \A k \in 1 .. n : SubSeq(a, 1, n)[k] = a[k]
    <3>1. \A k \in 1 .. n : a[k] \in Nat
      BY <1>2, <1>3, ElementOfSeq
    <3>2. SubSeq(a, 1, n) = [k \in 1 .. n |-> a[k]]
      BY <1>2
    <3> QED BY <3>1, <3>2, SeqDef
  <2>8. SubSeq(a, 1, n) = p
    BY <1>1, <1>3, <1>9, <2>7, SeqEqual
  <2> QED BY <2>6, <2>8
<1> QED BY <1>4, <1>5

\* A diagnostic about an artifact that was walked over is in its coverage.
LEMMA AboutReaches ==
  ASSUME files \in Disks, enumerated \subseteq DOMAIN files, NEW q \in enumerated, NEW d, About(files, d, q)
  PROVE  q \in DiagnosticScope(d).files
<1> DEFINE key == Physical(d.artifact)
<1>1. CASE IsArchive(files, q) /\ InArchive(d.artifact, q)
  <2>1. key = q /\ q # NoPath
    BY <1>1, PathsArePaths, InsideIsArchive
  <2> QED BY <1>1, <2>1 DEF DiagnosticScope, IsArchive
<1>2. CASE IsLoose(files, d.artifact) /\ ~(IsArchive(files, q) /\ InArchive(d.artifact, q))
  <2>1. key = d.artifact
    BY <1>2, LooseIsItself DEF IsLoose, IsArchive
  <2>2. ~(key \in enumerated /\ files[key].kind = "archive")
    BY <1>2, <2>1 DEF IsLoose, IsArchive
  <2>3. CASE d.count # 1
    BY <2>1, <2>2, <2>3 DEF DiagnosticScope
  <2>4. CASE d.count = 1
    <3>1. \/ key = q
          \/ key \notin DOMAIN files /\ (Under(key, q) \/ \A p \in DOMAIN files : ~Under(key, p))
      BY <1>2, <2>1, <2>4 DEF About, PointsAt
    <3>2. CASE key = q
      BY <2>1, <3>2, PathsArePaths DEF DiagnosticScope
    <3>3. CASE key \notin DOMAIN files /\ (Under(key, q) \/ \A p \in DOMAIN files : ~Under(key, p))
      <4>1. key \notin enumerated
        BY <3>3
      <4>2. {p \in enumerated : Under(key, p)} # {} => Under(key, q)
        BY <3>3
      <4> QED BY <4>1, <4>2 DEF DiagnosticScope
    <3> QED BY <3>1, <3>2, <3>3
  <2> QED BY <2>3, <2>4
<1> QED BY <1>1, <1>2 DEF About, PointsAt

-----------------------------------------------------------------------------
(* Diagnostics that are merged.                                             *)

LEMMA Merges ==
  ASSUME NEW r, NEW ds
  PROVE  LET s == AddDiagnostics(r, ds).said
         IN  /\ DOMAIN s = DOMAIN r.said \cup DOMAIN ds
             /\ \A c \in DOMAIN s :
                  \/ c \notin DOMAIN ds /\ c \in DOMAIN r.said /\ s[c] = r.said[c]
                  \/ c \in DOMAIN ds /\ c \notin DOMAIN r.said /\ s[c] = ds[c]
                  \/ /\ c \in DOMAIN ds /\ c \in DOMAIN r.said
                     /\ s[c].artifact = ds[c].artifact \/ s[c].artifact = r.said[c].artifact
                     /\ s[c].count = ds[c].count + r.said[c].count
<1> DEFINE s == AddDiagnostics(r, ds).said
<1>1. s = [c \in DOMAIN r.said \cup DOMAIN ds |->
             IF c \notin DOMAIN ds THEN r.said[c]
             ELSE IF c \notin DOMAIN r.said THEN ds[c] ELSE Merged(ds[c], r.said[c])]
  BY DEF AddDiagnostics
<1>2. \A d, e : /\ Merged(d, e).artifact = d.artifact \/ Merged(d, e).artifact = e.artifact
                /\ Merged(d, e).count = d.count + e.count
  BY DEF Merged
<1> HIDE DEF s
<1>3. DOMAIN s = DOMAIN r.said \cup DOMAIN ds
  BY <1>1
<1>4. ASSUME NEW c \in DOMAIN s
      PROVE  \/ c \notin DOMAIN ds /\ c \in DOMAIN r.said /\ s[c] = r.said[c]
             \/ c \in DOMAIN ds /\ c \notin DOMAIN r.said /\ s[c] = ds[c]
             \/ /\ c \in DOMAIN ds /\ c \in DOMAIN r.said
                /\ s[c].artifact = ds[c].artifact \/ s[c].artifact = r.said[c].artifact
                /\ s[c].count = ds[c].count + r.said[c].count
  <2>1. s[c] = IF c \notin DOMAIN ds THEN r.said[c]
               ELSE IF c \notin DOMAIN r.said THEN ds[c] ELSE Merged(ds[c], r.said[c])
    BY <1>1, <1>4
  <2> QED BY <1>2, <1>3, <1>4, <2>1
<1> QED BY <1>3, <1>4 DEF s

\* What was said of loose artifacts is still said of them: once merged with another, a
\* diagnostic is about any.
LEMMA LooseAdds ==
  ASSUME NEW fs, NEW r, NEW ds, SaidLoose(fs, r.said), SaidLoose(fs, ds)
  PROVE  /\ SaidLoose(fs, AddDiagnostics(r, ds).said)
         /\ \A q : (\E c \in DOMAIN r.said : About(fs, r.said[c], q)) \/ (\E c \in DOMAIN ds : About(fs, ds[c], q)) =>
                   \E c \in DOMAIN AddDiagnostics(r, ds).said : About(fs, AddDiagnostics(r, ds).said[c], q)
<1>1. PICK s : s = AddDiagnostics(r, ds).said
  OBVIOUS
<1>2. /\ DOMAIN s = DOMAIN r.said \cup DOMAIN ds
      /\ \A c \in DOMAIN s :
           \/ c \notin DOMAIN ds /\ c \in DOMAIN r.said /\ s[c] = r.said[c]
           \/ c \in DOMAIN ds /\ c \notin DOMAIN r.said /\ s[c] = ds[c]
           \/ /\ c \in DOMAIN ds /\ c \in DOMAIN r.said
              /\ s[c].artifact = ds[c].artifact \/ s[c].artifact = r.said[c].artifact
              /\ s[c].count = ds[c].count + r.said[c].count
  BY <1>1, Merges
<1>3. ASSUME NEW c \in DOMAIN s
      PROVE  /\ IsLoose(fs, s[c].artifact) /\ s[c].count \in Nat \ {0}
             /\ c \in DOMAIN ds /\ c \in DOMAIN r.said => s[c].count # 1
  <2>1. CASE c \notin DOMAIN ds /\ c \in DOMAIN r.said /\ s[c] = r.said[c]
    BY <2>1 DEF SaidLoose
  <2>2. CASE c \in DOMAIN ds /\ c \notin DOMAIN r.said /\ s[c] = ds[c]
    BY <2>2 DEF SaidLoose
  <2>3. CASE /\ c \in DOMAIN ds /\ c \in DOMAIN r.said
             /\ s[c].artifact = ds[c].artifact \/ s[c].artifact = r.said[c].artifact
             /\ s[c].count = ds[c].count + r.said[c].count
    <3>1. \A a, b \in Nat \ {0} : a + b \in Nat \ {0} /\ a + b # 1
      OBVIOUS
    <3>2. ds[c].count \in Nat \ {0} /\ r.said[c].count \in Nat \ {0}
      BY <2>3 DEF SaidLoose
    <3>3. IsLoose(fs, ds[c].artifact) /\ IsLoose(fs, r.said[c].artifact)
      BY <2>3 DEF SaidLoose
    <3> QED BY <2>3, <3>1, <3>2, <3>3
  <2> QED BY <1>2, <1>3, <2>1, <2>2, <2>3
<1>4. ASSUME NEW q, NEW c, (c \in DOMAIN r.said /\ About(fs, r.said[c], q)) \/ (c \in DOMAIN ds /\ About(fs, ds[c], q))
      PROVE  c \in DOMAIN s /\ About(fs, s[c], q)
  <2>1. c \in DOMAIN s
    BY <1>2, <1>4
  <2>2. CASE c \in DOMAIN ds /\ c \in DOMAIN r.said
    BY <1>3, <2>1, <2>2 DEF About, PointsAt
  <2>3. CASE ~(c \in DOMAIN ds /\ c \in DOMAIN r.said)
    BY <1>2, <1>4, <2>1, <2>3
  <2> QED BY <2>1, <2>2, <2>3
<1>5. SaidLoose(fs, s)
  BY <1>3 DEF SaidLoose
<1>6. ASSUME NEW q, (\E c \in DOMAIN r.said : About(fs, r.said[c], q)) \/ (\E c \in DOMAIN ds : About(fs, ds[c], q))
      PROVE  \E c \in DOMAIN s : About(fs, s[c], q)
  <2>1. PICK c : (c \in DOMAIN r.said /\ About(fs, r.said[c], q)) \/ (c \in DOMAIN ds /\ About(fs, ds[c], q))
    BY <1>6
  <2> QED BY <1>4, <2>1
<1> QED BY <1>1, <1>5, <1>6, Zenon

LEMMA ArchiveAdds ==
  ASSUME NEW fs, NEW r, NEW ds, NEW p, SaidIn(fs, r.said, p), SaidIn(fs, ds, p)
  PROVE  /\ SaidIn(fs, AddDiagnostics(r, ds).said, p)
         /\ DOMAIN r.said \cup DOMAIN ds # {} => DOMAIN AddDiagnostics(r, ds).said # {}
<1>1. PICK s : s = AddDiagnostics(r, ds).said
  OBVIOUS
<1>2. /\ DOMAIN s = DOMAIN r.said \cup DOMAIN ds
      /\ \A c \in DOMAIN s :
           \/ c \notin DOMAIN ds /\ c \in DOMAIN r.said /\ s[c] = r.said[c]
           \/ c \in DOMAIN ds /\ c \notin DOMAIN r.said /\ s[c] = ds[c]
           \/ /\ c \in DOMAIN ds /\ c \in DOMAIN r.said
              /\ s[c].artifact = ds[c].artifact \/ s[c].artifact = r.said[c].artifact
              /\ s[c].count = ds[c].count + r.said[c].count
  BY <1>1, Merges
<1>3. ASSUME NEW c \in DOMAIN s PROVE Anyones(fs, s[c].artifact) \/ InArchive(s[c].artifact, p)
  <2>1. \/ c \in DOMAIN ds /\ s[c].artifact = ds[c].artifact
        \/ c \in DOMAIN r.said /\ s[c].artifact = r.said[c].artifact
    BY <1>2, <1>3
  <2> QED BY <2>1 DEF SaidIn
<1> QED BY <1>1, <1>2, <1>3 DEF SaidIn

\* A class's name is no artifact's.
LEMMA NamesAreAnyones ==
  ASSUME NEW fs \in Disks, NEW c \in DOMAIN Contents
  PROVE  Anyones(fs, <<Contents[c].name>>)
<1> DEFINE a == <<Contents[c].name>>
<1>1. a \in Seq(Component)
  BY ContentsAssumption
<1>2. \A p \in DOMAIN fs : ~IsPrefix(a, p)
  BY DisksAssumption
<1>3. a \notin DOMAIN fs
  <2>1. IsPrefix(a, a)
    <3>1. Len(a) <= Len(a)
      OBVIOUS
    <3> QED BY <3>1 DEF IsPrefix
  <2> QED BY <1>2, <2>1
<1> QED BY <1>1, <1>2, <1>3 DEF Anyones, Under, IsStrictPrefix

\* What is no artifact's is everyone's.
LEMMA AnyonesPoint ==
  ASSUME NEW fs \in Disks, NEW a, Anyones(fs, a), NEW q \in DOMAIN fs
  PROVE  IsLoose(fs, a) /\ PointsAt(fs, a, q)
<1>1. a \in Seq(Component) /\ a \notin DOMAIN fs /\ (a = NoPath \/ \A p \in DOMAIN fs : ~Under(a, p))
  BY DEF Anyones
<1>2. IsLoose(fs, a)
  BY <1>1 DEF IsLoose, IsArchive
<1>3. ASSUME a = NoPath PROVE Under(a, q)
  <2>1. q \in Seq(Component) /\ q # NoPath /\ Len(q) \in Nat
    BY PathsArePaths
  <2>2. IsPrefix(<<>>, q)
    BY <2>1 DEF IsPrefix
  <2> QED BY <1>3, <2>1, <2>2 DEF Under, IsStrictPrefix, NoPath
<1> QED BY <1>1, <1>2, <1>3 DEF PointsAt

\* In an archive's result each diagnostic is about the archive.
LEMMA SaidInIsAbout ==
  ASSUME NEW fs \in Disks, NEW p, IsArchive(fs, p), NEW said, SaidIn(fs, said, p), NEW c \in DOMAIN said
  PROVE  About(fs, said[c], p)
<1>1. CASE Anyones(fs, said[c].artifact)
  BY <1>1, AnyonesPoint DEF About, IsArchive
<1>2. CASE InArchive(said[c].artifact, p)
  BY <1>2 DEF About
<1> QED BY <1>1, <1>2 DEF SaidIn

\* Per code there is one diagnostic, with the artifact of some occurrence; if it counts
\* one, it is the only occurrence.
LEMMA AggregatedIs ==
  ASSUME NEW ds, NEW n \in Nat, DOMAIN ds = 1 .. n
  PROVE  LET A == Aggregated(ds)
         IN  /\ \A i \in DOMAIN ds : ds[i].code \in DOMAIN A
             /\ \A c \in DOMAIN A : /\ \E i \in DOMAIN ds : ds[i].code = c /\ A[c].artifact = ds[i].artifact
                                    /\ A[c].count \in Nat \ {0}
                                    /\ A[c].count = 1 => \A i \in DOMAIN ds : ds[i].code = c => ds[i].artifact = A[c].artifact
<1> DEFINE A == Aggregated(ds)
           Of(c) == {i \in DOMAIN ds : ds[i].code = c}
           first(c) == CHOOSE i \in DOMAIN ds : ds[i].code = c /\ \A j \in 1 .. i - 1 : ds[j].code # c
<1>1. A = [c \in {ds[i].code : i \in DOMAIN ds} |-> [artifact |-> ds[first(c)].artifact, count |-> Cardinality(Of(c))]]
  BY DEF Aggregated
<1>2. ASSUME NEW c \in {ds[i].code : i \in DOMAIN ds}
      PROVE  first(c) \in Of(c) /\ Cardinality(Of(c)) \in Nat \ {0}
             /\ (Cardinality(Of(c)) = 1 => \A i, j \in Of(c) : i = j)
  <2>1. Of(c) # {} /\ Of(c) \in SUBSET Nat /\ Of(c) \subseteq 1 .. n
    BY <1>2
  <2>2. PICK m \in Of(c) : \A i \in Of(c) : m <= i
    BY <2>1, LeastNumber
  <2>3. \A j \in 1 .. m - 1 : ds[j].code # c
    <3> SUFFICES ASSUME NEW j \in 1 .. m - 1, ds[j].code = c PROVE FALSE
      OBVIOUS
    <3>1. m \in Nat /\ m <= n /\ j \in 1 .. n /\ ~(m <= j)
      BY <2>1
    <3> QED BY <2>2, <3>1
  <2>4. first(c) \in Of(c)
    BY <2>2, <2>3
  <2>5. IsFiniteSet(Of(c))
    <3>1. 1 \in Int /\ n \in Int
      OBVIOUS
    <3>2. IsFiniteSet(1 .. n)
      BY <3>1, FS_Interval
    <3> QED BY <2>1, <3>2, FS_Subset
  <2>6. Cardinality(Of(c)) \in Nat /\ Cardinality(Of(c)) # 0
    BY <2>1, <2>5, FS_CardinalityType, FS_EmptySet
  <2>7. Cardinality(Of(c)) = 1 => \A i, j \in Of(c) : i = j
    <3> HIDE DEF Of
    <3>1. Cardinality(Of(c)) = 1 => \E x : Of(c) = {x}
      BY <2>5, FS_Singleton
    <3> QED BY <3>1
  <2> QED BY <2>4, <2>6, <2>7
<1> HIDE DEF A, Of, first
<1>3. \A i \in DOMAIN ds : ds[i].code \in DOMAIN A
  BY <1>1
<1>4. ASSUME NEW c \in DOMAIN A
      PROVE  /\ \E i \in DOMAIN ds : ds[i].code = c /\ A[c].artifact = ds[i].artifact
             /\ A[c].count \in Nat \ {0}
             /\ A[c].count = 1 => \A i \in DOMAIN ds : ds[i].code = c => ds[i].artifact = A[c].artifact
  <2>1. c \in {ds[i].code : i \in DOMAIN ds}
    BY <1>1
  <2>2. A[c].artifact = ds[first(c)].artifact /\ A[c].count = Cardinality(Of(c))
    BY <1>1, <2>1
  <2>3. first(c) \in DOMAIN ds /\ ds[first(c)].code = c
    BY <1>2, <2>1 DEF Of
  <2>4. \A i \in DOMAIN ds : ds[i].code = c => i \in Of(c)
    BY DEF Of
  <2> QED BY <1>2, <2>1, <2>2, <2>3, <2>4
<1> QED BY <1>3, <1>4 DEF A

-----------------------------------------------------------------------------
(* What analyzing a group of classes says.                                  *)

\* The classes of one group.
Classes(models) == /\ IsFiniteSet(models)
                   /\ \A m \in models : m.content \in DOMAIN Contents

LEMMA OrdersList ==
  ASSUME NEW models, Classes(models), NEW order \in InOrder(models)
  PROVE  \E n \in Nat : /\ n = Len(order) /\ DOMAIN order = 1 .. n
                        /\ \A i \in 1 .. n : order[i] \in models
                        /\ \A m \in models : \E i \in 1 .. n : order[i] = m
<1>1. PICK n \in Nat : n = Cardinality(models)
  BY FS_CardinalityType DEF Classes
<1>2. order \in [1 .. n -> models] /\ \A m \in models : \E i \in DOMAIN order : order[i] = m
  BY <1>1 DEF InOrder, Listings
<1>3. order \in Seq(models) /\ DOMAIN order = 1 .. n
  BY <1>2, SeqDef
<1>4. Len(order) = n
  <2>1. Len(order) \in Nat /\ DOMAIN order = 1 .. Len(order)
    BY <1>3, LenProperties
  <2>2. \A m \in Nat : 1 .. m = 1 .. n => m = n
    <3> SUFFICES ASSUME NEW m \in Nat, 1 .. m = 1 .. n PROVE m = n
      OBVIOUS
    <3>1. ~(m < n)
      <4>1. m < n => n \in 1 .. n /\ n \notin 1 .. m
        OBVIOUS
      <4> QED BY <4>1
    <3>2. ~(n < m)
      <4>1. n < m => m \in 1 .. m /\ m \notin 1 .. n
        OBVIOUS
      <4> QED BY <4>1
    <3> QED BY <3>1, <3>2
  <2> QED BY <1>3, <2>1, <2>2
<1> QED BY <1>2, <1>3, <1>4

\* The instructions of the classes up to each.
LEMMA ChargesAddUp ==
  ASSUME NEW models, Classes(models), NEW order \in InOrder(models)
  PROVE  /\ Charges(order)[0] = 0 /\ Charges(order)[0] \in Nat
         /\ \A i \in 1 .. Len(order) : /\ Charges(order)[i - 1] \in Nat
                                       /\ Charges(order)[i] = Charges(order)[i - 1] + Contents[order[i].content].work
<1>1. PICK n \in Nat : /\ n = Len(order) /\ DOMAIN order = 1 .. n
                       /\ \A i \in 1 .. n : order[i] \in models
  BY OrdersList
<1>2. \A i \in 1 .. n : Contents[order[i].content].work \in Nat
  BY <1>1, ContentsAssumption DEF Classes
<1> DEFINE step == [x \in Nat \X Nat |-> IF x[1] \in 1 .. n THEN x[2] + Contents[order[x[1]].content].work ELSE 0]
           Right(f) == f = [i \in 0 .. n |-> IF i = 0 THEN 0 ELSE f[i - 1] + Contents[order[i].content].work]
           f == CHOOSE f : Right(f)
<1>3. step \in [Nat \X Nat -> Nat]
  BY <1>2
<1> HIDE DEF step
<1>4. PICK g : Stepwise(g, n, Nat, 0, step)
  <2>1. 0 \in Nat
    OBVIOUS
  <2> QED BY <1>3, <2>1, Recursion
<1>5. Right(g)
  <2>1. g \in [0 .. n -> Nat] /\ g[0] = 0 /\ \A i \in 1 .. n : g[i] = step[<<i, g[i - 1]>>]
    BY <1>4 DEF Stepwise
  <2>2. \A i \in 1 .. n : g[i - 1] \in Nat /\ i \in Nat
    BY <2>1
  <2>3. \A i \in 1 .. n, k \in Nat : step[<<i, k>>] = k + Contents[order[i].content].work
    BY DEF step
  <2>4. \A i \in 1 .. n : g[i] = g[i - 1] + Contents[order[i].content].work
    BY <2>1, <2>2, <2>3
  <2>5. \A i \in 0 .. n : i = 0 \/ i \in 1 .. n
    OBVIOUS
  <2> QED BY <2>1, <2>4, <2>5
<1>6. Right(f)
  BY <1>5
<1>7. Charges(order) = f
  BY <1>1 DEF Charges
<1> HIDE DEF f
<1>8. f[0] = 0 /\ \A i \in 1 .. n : f[i] = f[i - 1] + Contents[order[i].content].work
  <2>1. f = [i \in 0 .. n |-> IF i = 0 THEN 0 ELSE f[i - 1] + Contents[order[i].content].work]
    BY <1>6
  <2>2. 0 \in 0 .. n /\ \A i \in 1 .. n : i \in 0 .. n /\ i # 0
    OBVIOUS
  <2> QED BY <2>1, <2>2
<1>9. \A i \in 0 .. n : f[i] \in Nat
  <2> DEFINE T == {i \in 0 .. n : f[i] \in Nat}
  <2>1. 0 \in T
    BY <1>8
  <2>2. \A i \in 1 .. n : i - 1 \in T => i \in T
    BY <1>2, <1>8
  <2>3. \A i \in 0 .. n : i \in T
    <3> HIDE DEF T
    <3> QED BY <2>1, <2>2, UpTo
  <2> QED BY <2>3
<1>10. \A i \in 1 .. n : i - 1 \in 0 .. n
  OBVIOUS
<1> QED BY <1>1, <1>7, <1>8, <1>9, <1>10

\* A class that is over the limit of instructions comes after one that reached it.
LEMMA OverIsStopped ==
  ASSUME NEW models, Classes(models), NEW order \in InOrder(models), NEW i \in DOMAIN order,
         i \notin Reached(order, Charges(order), Stops(order, Charges(order)))
  PROVE  Stops(order, Charges(order)) # {}
<1> DEFINE f == Charges(order)
           limit == Limits.instructions
<1> SUFFICES ASSUME Stops(order, f) = {} PROVE FALSE
  OBVIOUS
<1>1. PICK n \in Nat : /\ n = Len(order) /\ DOMAIN order = 1 .. n
                       /\ \A k \in 1 .. n : order[k] \in models
  BY OrdersList
<1>2. f[0] = 0 /\ \A k \in 1 .. n : f[k - 1] \in Nat /\ f[k] = f[k - 1] + Contents[order[k].content].work
  BY <1>1, ChargesAddUp
<1>3. \A k \in 1 .. n : Contents[order[k].content].work \in Nat
  BY <1>1, ContentsAssumption DEF Classes
<1>4. limit \in Nat
  BY LimitsAssumption
<1> HIDE DEF f, limit
<1>5. ~(f[i] <= limit)
  BY <1>1 DEF Reached, f, limit
<1> DEFINE Over == {k \in Nat : k <= n /\ ~(f[k] <= limit)}
<1>6. PICK k \in Over : \A j \in Over : k <= j
  <2>1. i \in Over
    BY <1>1, <1>5
  <2> HIDE DEF Over
  <2>2. Over \in SUBSET Nat
    BY DEF Over
  <2> QED BY <2>1, <2>2, LeastNumber
<1>7. k # 0
  BY <1>2, <1>4, <1>6
<1>8. k \in 1 .. n /\ k - 1 \in Nat /\ k - 1 <= n /\ ~(k <= k - 1)
  BY <1>6, <1>7
<1>9. f[k - 1] <= limit
  BY <1>6, <1>8
<1>10. Contents[order[k].content].work > 0 /\ f[k] >= limit
  <2>1. \A a, w, l \in Nat : a <= l /\ ~(a + w <= l) => w > 0 /\ a + w >= l
    OBVIOUS
  <2>2. ~(f[k] <= limit)
    BY <1>6
  <2>3. f[k - 1] \in Nat /\ Contents[order[k].content].work \in Nat /\ f[k] = f[k - 1] + Contents[order[k].content].work
    BY <1>2, <1>3, <1>8
  <2> QED BY <1>4, <1>9, <2>1, <2>2, <2>3
<1>11. k \in Stops(order, f)
  BY <1>1, <1>8, <1>10 DEF Stops, limit
<1> QED BY <1>11

\* The artifact of an occurrence in the group of key that a model's trouble leaves.
Voice(a, key, path) == a = key \/ a = path \/ \E c \in DOMAIN Contents : a = <<Contents[c].name>>

\* A name that classes share is one of finitely many.
LEMMA SharedNames ==
  ASSUME NEW models, Classes(models), NEW order \in InOrder(models)
  PROVE  Cardinality(Twice(order)) \in Nat /\ (Twice(order) # {} => Cardinality(Twice(order)) # 0)
<1>1. PICK n \in Nat : n = Len(order) /\ DOMAIN order = 1 .. n
  BY OrdersList
<1> DEFINE named == {Contents[order[i].content].name : i \in 1 .. n}
<1>2. IsFiniteSet(named)
  <2>1. 1 \in Int /\ n \in Int
    OBVIOUS
  <2>2. IsFiniteSet(1 .. n)
    BY <2>1, FS_Interval
  <2> DEFINE f == [i \in 1 .. n |-> Contents[order[i].content].name]
  <2>3. f \in [1 .. n -> named] /\ \A t \in named : \E i \in 1 .. n : f[i] = t
    OBVIOUS
  <2> HIDE DEF f, named
  <2> QED BY <2>2, <2>3, Onto
<1>3. Twice(order) \subseteq named
  BY <1>1 DEF Twice
<1>4. IsFiniteSet(Twice(order))
  <2> HIDE DEF named
  <2> QED BY <1>2, <1>3, FS_Subset
<1> QED BY <1>4, FS_CardinalityType, FS_EmptySet

LEMMA SaidOfSays ==
  ASSUME NEW key, NEW path, NEW c \in DOMAIN Contents, NEW twice, NEW S,
         \A a \in {key, path, <<Contents[c].name>>} : Said(a, "budget") \in S /\ Said(a, "bytecode") \in S
  PROVE  LET s == SaidOf(key, path, Contents[c], twice)
         IN  /\ s \in Seq(S)
             /\ s # <<>> => 1 \in DOMAIN s /\ Voice(s[1].artifact, key, path)
<1> DEFINE A == {key, path, <<Contents[c].name>>}
           s == SaidOf(key, path, Contents[c], twice)
<1>1. \A a \in A : Said(a, "budget") \in S /\ Said(a, "bytecode") \in S
  OBVIOUS
<1>2. \A a, x : Said(a, x).artifact = a
  BY DEF Said
<1>3. \/ s = <<>>
      \/ \E a \in A, x \in {"bytecode", "budget"} :
           /\ Said(a, x) \in S /\ Voice(a, key, path)
           /\ s = <<Said(a, x)>> \/ s = <<Said(a, x)>> \o <<>> \/ s = <<Said(a, x)>> \o <<Said(a, x)>>
  <2>1. CASE Contents[c].code = "undecodable"
    <3>1. s = <<Said(key, "bytecode")>>
      BY <2>1 DEF SaidOf
    <3> QED BY <1>1, <3>1 DEF Voice
  <2>2. CASE Contents[c].code = "unsupported"
    <3>1. s = <<Said(path, "bytecode")>>
      BY <2>2 DEF SaidOf
    <3> QED BY <1>1, <3>1 DEF Voice
  <2>3. CASE Contents[c].code = "budget"
    <3>1. s = <<Said(path, "budget")>> \o (IF Contents[c].name \in twice THEN <<>> ELSE <<Said(path, "budget")>>)
      BY <2>3 DEF SaidOf
    <3>2. Voice(path, key, path) /\ Said(path, "budget") \in S /\ path \in A
      BY <1>1 DEF Voice
    <3>3. s = <<Said(path, "budget")>> \o <<>> \/ s = <<Said(path, "budget")>> \o <<Said(path, "budget")>>
      BY <3>1
    <3> QED BY <3>2, <3>3
  <2>4. CASE Contents[c].code = "wide"
    <3>1. s = <<Said(<<Contents[c].name>>, "budget")>>
      BY <2>4 DEF SaidOf
    <3>2. Voice(<<Contents[c].name>>, key, path)
      BY DEF Voice
    <3> QED BY <1>1, <3>1, <3>2
  <2>5. CASE Contents[c].code \notin {"undecodable", "unsupported", "budget", "wide"}
    <3>1. s = <<>>
      BY <2>5 DEF SaidOf
    <3> QED BY <3>1
  <2> QED BY <2>1, <2>2, <2>3, <2>4, <2>5
<1> HIDE DEF A, s
<1>4. CASE s = <<>>
  BY <1>4, EmptySeq DEF s
<1>5. CASE s # <<>>
  <2>1. PICK a \in A, x \in {"bytecode", "budget"} :
              /\ Said(a, x) \in S /\ Voice(a, key, path)
              /\ s = <<Said(a, x)>> \/ s = <<Said(a, x)>> \o <<>> \/ s = <<Said(a, x)>> \o <<Said(a, x)>>
    BY <1>3, <1>5
  <2>2. PICK d \in S : d = Said(a, x)
    BY <2>1
  <2>3. <<d>> \in Seq(S) /\ <<d>> \o <<>> \in Seq(S) /\ <<d>> \o <<d>> \in Seq(S)
    OBVIOUS
  <2>4. Len(<<d>>) = 1 /\ Len(<<d>> \o <<>>) = 1 /\ Len(<<d>> \o <<d>>) = 2
    OBVIOUS
  <2>5. <<d>>[1] = d /\ (<<d>> \o <<>>)[1] = d /\ (<<d>> \o <<d>>)[1] = d
    OBVIOUS
  <2>6. s \in Seq(S) /\ (Len(s) = 1 \/ Len(s) = 2) /\ s[1] = d
    BY <2>1, <2>2, <2>3, <2>4, <2>5
  <2>7. 1 \in DOMAIN s
    BY <2>6, LenProperties
  <2> QED BY <1>2, <2>1, <2>2, <2>6, <2>7 DEF s
<1> QED BY <1>4, <1>5

LEMMA DecodedSays ==
  ASSUME NEW models, Classes(models), NEW order \in InOrder(models), NEW key
  PROVE  LET o == Decoded(key, order)
         IN  /\ \E k \in Nat : DOMAIN o.said = 1 .. k
             /\ \A t \in DOMAIN o.said : o.said[t].artifact = key \/ \E m \in models : Voice(o.said[t].artifact, key, m.path)
             /\ \A q \in o.troubled : \E m \in models : q = m.path /\ \E t \in DOMAIN o.said : Voice(o.said[t].artifact, key, q)
             /\ o.reached \subseteq models
             /\ \A m \in models : m \in o.reached \/ m.path \in o.troubled
<1>1. PICK n \in Nat : /\ n = Len(order) /\ DOMAIN order = 1 .. n
                       /\ \A i \in 1 .. n : order[i] \in models
                       /\ \A m \in models : \E i \in 1 .. n : order[i] = m
  BY OrdersList
<1> DEFINE charged == Charges(order)
           stops == Stops(order, charged)
           reached == Reached(order, charged, stops)
           twice == Twice(order)
           A == {key} \cup {m.path : m \in models} \cup {<<Contents[m.content].name>> : m \in models}
           S == {Said(a, x) : a \in A, x \in {"duplicate", "budget", "bytecode"}}
           Of(i) == IF i \in reached THEN SaidOf(key, order[i].path, Contents[order[i].content], twice) ELSE <<>>
           about == [i \in DOMAIN order |-> Of(i)]
           Troubles(i) == i \notin reached \/ about[i] # <<>> \/ Contents[order[i].content].name \in twice
           card == Cardinality(twice)
           shared == [k \in 1 .. card |-> Said(key, "duplicate")]
           spent == IF stops = {} THEN <<>> ELSE <<Said(key, "budget")>>
           o == Decoded(key, order)
<1>2. /\ o.said = (shared \o spent) \o FlattenSeq(about)
      /\ o.reached = {order[i] : i \in reached}
      /\ o.troubled = {order[i].path : i \in {j \in DOMAIN order : Troubles(j)}}
  BY DEF Decoded, Charged, Occurrences
<1>3. card \in Nat /\ (twice # {} => card # 0)
  BY SharedNames
<1>4. ASSUME NEW i \in 1 .. n, i \notin reached PROVE stops # {}
  BY <1>1, <1>4, OverIsStopped
<1>0. reached \subseteq 1 .. n
  <2>1. CASE stops = {}
    BY <1>1, <2>1 DEF Reached
  <2>2. CASE stops # {}
    <3>1. stops \subseteq 1 .. n
      BY <1>1 DEF Stops
    <3>2. PICK l \in stops : \A k \in stops : l <= k
      <4>1. stops \in SUBSET Nat
        BY <3>1
      <4> HIDE DEF stops
      <4> QED BY <2>2, <4>1, LeastNumber
    <3> HIDE DEF stops
    <3>3. Min(stops) \in stops
      BY <3>2 DEF Min
    <3>4. reached \subseteq 1 .. Min(stops)
      BY <2>2 DEF Reached
    <3>5. \A k \in 1 .. n : 1 .. k \subseteq 1 .. n
      BY <1>1
    <3> QED BY <3>1, <3>3, <3>4, <3>5
  <2> QED BY <2>1, <2>2
<1> HIDE DEF stops, reached, twice, card, o, charged
<1>5. \A x \in {"duplicate", "budget", "bytecode"} : Said(key, x) \in S
  OBVIOUS
<1>6. ASSUME NEW i \in 1 .. n
      PROVE  /\ Of(i) \in Seq(S)
             /\ Of(i) # <<>> => 1 \in DOMAIN Of(i) /\ Voice(Of(i)[1].artifact, key, order[i].path)
  <2>1. order[i].content \in DOMAIN Contents /\ order[i] \in models
    BY <1>1 DEF Classes
  <2>2. key \in A /\ order[i].path \in A /\ <<Contents[order[i].content].name>> \in A
    BY <2>1
  <2>3. LET s == SaidOf(key, order[i].path, Contents[order[i].content], twice)
        IN  s \in Seq(S) /\ (s # <<>> => 1 \in DOMAIN s /\ Voice(s[1].artifact, key, order[i].path))
    <3>1. PICK path, c : path = order[i].path /\ c = order[i].content
      OBVIOUS
    <3>2. \A a \in A : Said(a, "budget") \in S /\ Said(a, "bytecode") \in S
      OBVIOUS
    <3>3. c \in DOMAIN Contents /\ {key, path, <<Contents[c].name>>} \subseteq A
      BY <2>1, <2>2, <3>1
    <3> DEFINE s == SaidOf(key, path, Contents[c], twice)
    <3> HIDE DEF A, S
    <3>4. s \in Seq(S) /\ (s # <<>> => 1 \in DOMAIN s /\ Voice(s[1].artifact, key, path))
      BY <3>2, <3>3, SaidOfSays
    <3> QED BY <3>1, <3>4
  <2> HIDE DEF S
  <2> QED BY <2>3, EmptySeq
<1> HIDE DEF S
<1>7. shared \in Seq(S) /\ spent \in Seq(S) /\ about \in Seq(Seq(S))
  <2>1. shared \in Seq(S)
    BY <1>3, <1>5, SeqDef
  <2>2. <<Said(key, "budget")>> \in Seq(S)
    BY <1>5
  <2>3. \A i \in 1 .. n : about[i] \in Seq(S)
    BY <1>1, <1>6
  <2>4. about \in Seq(Seq(S))
    <3> DEFINE Q == Seq(S)
    <3>1. about = [i \in 1 .. n |-> about[i]] /\ \A i \in 1 .. n : about[i] \in Q
      BY <1>1, <2>3
    <3> HIDE DEF Q, about
    <3>2. about \in Seq(Q)
      BY <3>1, SeqDef
    <3> QED BY <3>2 DEF Q
  <2> QED BY <2>1, <2>2, <2>4, EmptySeq
<1>8. /\ DOMAIN about = 1 .. n /\ \A i \in 1 .. n : about[i] = Of(i)
      /\ DOMAIN shared = 1 .. card /\ \A k \in 1 .. card : shared[k] = Said(key, "duplicate")
      /\ stops # {} => 1 \in DOMAIN spent /\ spent[1] = Said(key, "budget")
  BY <1>1, <1>3
<1> HIDE DEF about, shared, spent
<1>9. /\ FlattenSeq(about) \in Seq(S)
      /\ \A i \in DOMAIN about : \A a \in DOMAIN about[i] : \E b \in DOMAIN FlattenSeq(about) : FlattenSeq(about)[b] = about[i][a]
  <2> DEFINE R == S \X S
  <2>1. /\ \A i \in DOMAIN about : \A a, b \in DOMAIN about[i] : a < b => <<about[i][a], about[i][b]>> \in R
        /\ \A i, j \in DOMAIN about : \A a \in DOMAIN about[i], b \in DOMAIN about[j] :
             i < j => <<about[i][a], about[j][b]>> \in R
    <3>1. \A i \in DOMAIN about : \A a \in DOMAIN about[i] : about[i][a] \in S
      BY <1>6, <1>8, ElementOfSeq, LenProperties
    <3> QED BY <3>1
  <2> HIDE DEF R
  <2> QED BY <1>7, <2>1, Flattened
<1> DEFINE flat == FlattenSeq(about)
           first == shared \o spent
<1>10. /\ first \in Seq(S)
       /\ \A a \in DOMAIN shared : a \in DOMAIN first /\ first[a] = shared[a]
       /\ \A b \in DOMAIN spent : \E a \in DOMAIN first : first[a] = spent[b]
  <2>1. /\ first \in Seq(S)
        /\ \A a \in DOMAIN shared : a \in DOMAIN first /\ first[a] = shared[a]
        /\ \A b \in DOMAIN spent : Len(shared) + b \in DOMAIN first /\ first[Len(shared) + b] = spent[b]
    BY <1>7, Concatenated
  <2> HIDE DEF first
  <2> QED BY <2>1
<1> HIDE DEF flat, first
<1>11. /\ o.said \in Seq(S)
       /\ \A a \in DOMAIN first : \E b \in DOMAIN o.said : o.said[b] = first[a]
       /\ \A a \in DOMAIN flat : \E b \in DOMAIN o.said : o.said[b] = flat[a]
  <2>1. o.said = first \o flat /\ flat \in Seq(S)
    BY <1>2, <1>9 DEF flat, first
  <2>2. /\ first \o flat \in Seq(S)
        /\ \A a \in DOMAIN first : a \in DOMAIN (first \o flat) /\ (first \o flat)[a] = first[a]
        /\ \A b \in DOMAIN flat : Len(first) + b \in DOMAIN (first \o flat) /\ (first \o flat)[Len(first) + b] = flat[b]
    BY <1>10, <2>1, Concatenated
  <2> QED BY <2>1, <2>2
<1>12. \A t \in DOMAIN o.said : o.said[t] \in S
  BY <1>11, ElementOfSeq, LenProperties
<1>13. \A d \in S : d.artifact = key \/ \E m \in models : Voice(d.artifact, key, m.path)
  <2>1. ASSUME NEW d \in S PROVE d.artifact = key \/ \E m \in models : Voice(d.artifact, key, m.path)
    <3>1. PICK a \in A, x \in {"duplicate", "budget", "bytecode"} : d = Said(a, x)
      BY <2>1 DEF S
    <3>2. d.artifact = a
      BY <3>1 DEF Said
    <3>3. a = key \/ \E m \in models : a = m.path \/ a = <<Contents[m.content].name>>
      OBVIOUS
    <3>4. \A m \in models : m.content \in DOMAIN Contents
      BY DEF Classes
    <3> QED BY <3>2, <3>3, <3>4 DEF Voice
  <2> QED BY <2>1
<1>14. ASSUME NEW i \in 1 .. n, Troubles(i)
       PROVE  \E t \in DOMAIN o.said : Voice(o.said[t].artifact, key, order[i].path)
  <2>0. \A x : Voice(Said(key, x).artifact, key, order[i].path)
    BY DEF Said, Voice
  <2>1. CASE i \notin reached
    BY <1>4, <1>8, <1>10, <1>11, <2>0, <2>1
  <2>2. CASE about[i] # <<>>
    <3>1. about[i] = Of(i) /\ i \in DOMAIN about
      BY <1>8
    <3>2. 1 \in DOMAIN about[i] /\ Voice(about[i][1].artifact, key, order[i].path)
      BY <1>6, <2>2, <3>1
    <3>3. \E b \in DOMAIN flat : flat[b] = about[i][1]
      BY <1>9, <3>1, <3>2 DEF flat
    <3> QED BY <1>11, <3>2, <3>3
  <2>3. CASE Contents[order[i].content].name \in twice
    <3>1. 1 \in DOMAIN shared
      BY <1>3, <1>8, <2>3
    <3> QED BY <1>8, <1>10, <1>11, <2>0, <3>1
  <2> QED BY <1>14, <2>1, <2>2, <2>3
<1>15. \E k \in Nat : DOMAIN o.said = 1 .. k
  BY <1>11, LenProperties
<1>16. ASSUME NEW q \in o.troubled
       PROVE  \E m \in models : q = m.path /\ \E t \in DOMAIN o.said : Voice(o.said[t].artifact, key, q)
  BY <1>1, <1>2, <1>14
<1>17. o.reached \subseteq models
  <2>1. \A i \in reached : order[i] \in models
    BY <1>0, <1>1
  <2>2. {order[i] : i \in reached} \subseteq models
    BY <2>1
  <2> QED BY <1>2, <2>2
<1>18. ASSUME NEW m \in models PROVE m \in o.reached \/ m.path \in o.troubled
  <2>1. PICK i \in 1 .. n : order[i] = m
    BY <1>1
  <2>2. i \in reached => m \in o.reached
    BY <1>2, <2>1
  <2>3. i \notin reached => m.path \in o.troubled
    BY <1>1, <1>2, <2>1
  <2> QED BY <2>2, <2>3
<1> QED BY <1>12, <1>13, <1>15, <1>16, <1>17, <1>18 DEF o

LEMMA FindingsSayNothing ==
  ASSUME NEW r, NEW hits
  PROVE  AddFindings(r, hits).said = r.said
BY DEF AddFindings

\* The directory or the class a class is grouped by.
LEMMA KeysAreLoose ==
  ASSUME NEW fs \in Disks, NEW p \in DOMAIN fs, IsLoose(fs, p)
  PROVE  IsLoose(fs, fs[p].group) /\ PointsAt(fs, fs[p].group, p)
<1>1. CASE fs[p].group = p
  BY <1>1 DEF PointsAt
<1>2. CASE fs[p].group # p
  <2>1. fs[p].group \in Seq(Component) \ DOMAIN fs /\ Under(fs[p].group, p)
    BY <1>2, DisksAssumption
  <2> QED BY <2>1 DEF PointsAt, IsLoose, IsArchive
<1> QED BY <1>1, <1>2

LEMMA VoicesPoint ==
  ASSUME NEW fs \in Disks, NEW p \in DOMAIN fs, IsLoose(fs, p), NEW a, Voice(a, fs[p].group, p)
  PROVE  IsLoose(fs, a) /\ PointsAt(fs, a, p)
<1>1. CASE a = fs[p].group
  BY <1>1, KeysAreLoose
<1>2. CASE a = p
  BY <1>2 DEF PointsAt
<1>3. CASE \E c \in DOMAIN Contents : a = <<Contents[c].name>>
  <2>1. Anyones(fs, a)
    BY <1>3, NamesAreAnyones
  <2> QED BY <2>1, AnyonesPoint
<1> QED BY <1>1, <1>2, <1>3 DEF Voice

\* Each class of a group of loose classes that could not be analyzed is told.
LEMMA GroupTells ==
  ASSUME NEW fs \in Disks, NEW models, GroupsShape(fs, models), models # {},
         NEW key, \A m \in models : fs[m.path].group = key, NEW order \in InOrder(models)
  PROVE  LET o == Decoded(key, order)
         IN  /\ SaidLoose(fs, Aggregated(o.said))
             /\ \A q \in o.troubled : q \in DOMAIN fs /\ Tells(fs, Aggregated(o.said), q)
<1> DEFINE o == Decoded(key, order)
           ds == o.said
           A == Aggregated(ds)
<1>0. Classes(models)
  BY DEF GroupsShape, Classes
<1>1. /\ \E k \in Nat : DOMAIN o.said = 1 .. k
      /\ \A t \in DOMAIN o.said : o.said[t].artifact = key \/ \E m \in models : Voice(o.said[t].artifact, key, m.path)
      /\ \A q \in o.troubled : \E m \in models : q = m.path /\ \E t \in DOMAIN o.said : Voice(o.said[t].artifact, key, q)
  BY <1>0, DecodedSays
<1> HIDE DEF o
<1>2. \A m \in models : m.path \in DOMAIN fs /\ IsLoose(fs, m.path) /\ fs[m.path].group = key
  BY DEF GroupsShape
<1>3. IsLoose(fs, key)
  BY <1>2, KeysAreLoose
<1>4. \A t \in DOMAIN ds : IsLoose(fs, ds[t].artifact)
  BY <1>1, <1>2, <1>3, VoicesPoint
<1>5. /\ \A i \in DOMAIN ds : ds[i].code \in DOMAIN A
      /\ \A c \in DOMAIN A : /\ \E i \in DOMAIN ds : ds[i].code = c /\ A[c].artifact = ds[i].artifact
                             /\ A[c].count \in Nat \ {0}
                             /\ A[c].count = 1 => \A i \in DOMAIN ds : ds[i].code = c => ds[i].artifact = A[c].artifact
  BY <1>1, AggregatedIs
<1> HIDE DEF A, ds
<1>6. SaidLoose(fs, A)
  BY <1>4, <1>5 DEF SaidLoose
<1>7. ASSUME NEW q \in o.troubled PROVE q \in DOMAIN fs /\ Tells(fs, A, q)
  <2>1. PICK m \in models : q = m.path /\ \E t \in DOMAIN ds : Voice(ds[t].artifact, key, q)
    BY <1>1, <1>7 DEF ds
  <2>2. PICK t \in DOMAIN ds : Voice(ds[t].artifact, key, q)
    BY <2>1
  <2>3. PointsAt(fs, ds[t].artifact, q)
    BY <1>2, <2>1, <2>2, VoicesPoint
  <2>4. PICK c \in DOMAIN A : c = ds[t].code
    BY <1>5
  <2>5. A[c].count = 1 => A[c].artifact = ds[t].artifact
    BY <1>5, <2>4
  <2>6. About(fs, A[c], q)
    BY <1>6, <2>3, <2>5 DEF About, SaidLoose
  <2> QED BY <1>2, <2>1, <2>6 DEF Tells
<1> QED BY <1>6, <1>7 DEF o, A, ds

\* So is an archive one of whose classes could not be analyzed.
LEMMA JarTells ==
  ASSUME NEW fs \in Disks, NEW path, IsArchive(fs, path), NEW models, IsFiniteSet(models),
         \A x \in models : InArchive(x.path, path) /\ x.content \in DOMAIN Contents,
         NEW order \in InOrder(models)
  PROVE  LET o == Decoded(path, order)
         IN  SaidIn(fs, Aggregated(o.said), path) /\ (o.troubled # {} => DOMAIN Aggregated(o.said) # {})
<1> DEFINE o == Decoded(path, order)
           ds == o.said
           A == Aggregated(ds)
<1>0. Classes(models)
  BY DEF Classes
<1>1. /\ \E k \in Nat : DOMAIN o.said = 1 .. k
      /\ \A t \in DOMAIN o.said : o.said[t].artifact = path \/ \E m \in models : Voice(o.said[t].artifact, path, m.path)
      /\ \A q \in o.troubled : \E m \in models : q = m.path /\ \E t \in DOMAIN o.said : Voice(o.said[t].artifact, path, q)
  BY <1>0, DecodedSays
<1> HIDE DEF o
<1>2. InArchive(path, path)
  <2>1. path \in Seq(Component) /\ Len(path) \in Nat
    BY PathsArePaths DEF IsArchive
  <2>2. path \in Seq(Nat)
    BY <2>1, SeqDef DEF Component
  <2> QED BY <2>1, <2>2 DEF InArchive
<1>3. ASSUME NEW t \in DOMAIN ds PROVE Anyones(fs, ds[t].artifact) \/ InArchive(ds[t].artifact, path)
  <2>1. CASE ds[t].artifact = path
    BY <1>2, <2>1
  <2>2. ASSUME NEW m \in models, Voice(ds[t].artifact, path, m.path)
        PROVE  Anyones(fs, ds[t].artifact) \/ InArchive(ds[t].artifact, path)
    BY <1>2, <2>2, NamesAreAnyones DEF Voice
  <2> QED BY <1>1, <2>1, <2>2
<1>4. /\ \A i \in DOMAIN ds : ds[i].code \in DOMAIN A
      /\ \A c \in DOMAIN A : \E i \in DOMAIN ds : ds[i].code = c /\ A[c].artifact = ds[i].artifact
  BY <1>1, AggregatedIs
<1>5. o.troubled # {} => DOMAIN ds # {}
  BY <1>1
<1> HIDE DEF A, ds
<1> QED BY <1>3, <1>4, <1>5 DEF SaidIn, o, A, ds

-----------------------------------------------------------------------------
(* A diagnostic more, and the end of a result.                              *)

LEMMA AddLoose ==
  ASSUME NEW fs \in Disks, NEW r, SaidLoose(fs, r.said), NEW a, IsLoose(fs, a), NEW code
  PROVE  /\ SaidLoose(fs, AddDiagnostic(r, Said(a, code)).said)
         /\ \A q : Tells(fs, r.said, q) \/ PointsAt(fs, a, q) => Tells(fs, AddDiagnostic(r, Said(a, code)).said, q)
<1> DEFINE d == Said(a, code)
           ds == [c \in {d.code} |-> [artifact |-> d.artifact, count |-> d.count]]
<1>1. DOMAIN ds = {code} /\ ds[code].artifact = a /\ ds[code].count = 1
  BY DEF Said
<1>2. AddDiagnostic(r, d) = AddDiagnostics(r, ds)
  BY DEF AddDiagnostic
<1> HIDE DEF ds
<1>3. SaidLoose(fs, ds)
  BY <1>1 DEF SaidLoose
<1>4. /\ SaidLoose(fs, AddDiagnostics(r, ds).said)
      /\ \A q : (\E c \in DOMAIN r.said : About(fs, r.said[c], q)) \/ (\E c \in DOMAIN ds : About(fs, ds[c], q)) =>
                   \E c \in DOMAIN AddDiagnostics(r, ds).said : About(fs, AddDiagnostics(r, ds).said[c], q)
  BY <1>3, LooseAdds
<1>5. \A q : PointsAt(fs, a, q) => About(fs, ds[code], q)
  BY <1>1 DEF About
<1> QED BY <1>1, <1>2, <1>4, <1>5 DEF Tells

LEMMA AddIn ==
  ASSUME NEW fs \in Disks, NEW r, NEW p, SaidIn(fs, r.said, p), NEW a, Anyones(fs, a) \/ InArchive(a, p), NEW code
  PROVE  SaidIn(fs, AddDiagnostic(r, Said(a, code)).said, p) /\ DOMAIN AddDiagnostic(r, Said(a, code)).said # {}
<1> DEFINE d == Said(a, code)
           ds == [c \in {d.code} |-> [artifact |-> d.artifact, count |-> d.count]]
<1>1. DOMAIN ds = {code} /\ ds[code].artifact = a
  BY DEF Said
<1>2. AddDiagnostic(r, d) = AddDiagnostics(r, ds)
  BY DEF AddDiagnostic
<1> HIDE DEF ds
<1>3. SaidIn(fs, ds, p)
  BY <1>1 DEF SaidIn
<1>4. DOMAIN r.said \cup DOMAIN ds # {}
  BY <1>1
<1> QED BY <1>2, <1>3, <1>4, ArchiveAdds

LEMMA NobodysPath ==
  ASSUME NEW fs \in Disks PROVE Anyones(fs, NoPath) /\ IsLoose(fs, NoPath)
<1>1. NoPath \in Seq(Component) /\ NoPath \notin DOMAIN fs
  BY PathsArePaths, EmptySeq DEF NoPath
<1> QED BY <1>1 DEF Anyones, IsLoose, IsArchive

LEMMA FlushLoose ==
  ASSUME NEW fs \in Disks, NEW r, SaidLoose(fs, r.said), NEW q, Tells(fs, r.said, q)
  PROVE  Noted(fs, Flushed(r), q)
<1>1. SaidLoose(fs, Finished(r).said) /\ Tells(fs, Finished(r).said, q)
  BY AddLoose, NobodysPath DEF Finished
<1> DEFINE s == Finished(r).said
<1>2. PICK c \in DOMAIN s : About(fs, s[c], q)
  BY <1>1 DEF Tells
<1> DEFINE d == [artifact |-> s[c].artifact, code |-> c, count |-> s[c].count]
<1>3. d \in Flushed(r)
  BY DEF Flushed
<1>4. d.artifact = s[c].artifact /\ d.count = s[c].count
  OBVIOUS
<1> HIDE DEF s, d
<1>5. About(fs, d, q)
  BY <1>2, <1>4 DEF About
<1> QED BY <1>3, <1>5 DEF Noted

LEMMA FlushIn ==
  ASSUME NEW fs \in Disks, NEW r, NEW p, IsArchive(fs, p), SaidIn(fs, r.said, p), DOMAIN r.said # {}
  PROVE  Noted(fs, Flushed(r), p)
<1>1. SaidIn(fs, Finished(r).said, p) /\ DOMAIN Finished(r).said # {}
  BY AddIn, NobodysPath DEF Finished
<1> DEFINE s == Finished(r).said
<1>2. PICK c \in DOMAIN s : About(fs, s[c], p)
  <2> HIDE DEF s
  <2>1. PICK c \in DOMAIN s : TRUE
    BY <1>1 DEF s
  <2> QED BY <1>1, <2>1, SaidInIsAbout DEF s
<1> DEFINE d == [artifact |-> s[c].artifact, code |-> c, count |-> s[c].count]
<1>3. d \in Flushed(r)
  BY DEF Flushed
<1>4. d.artifact = s[c].artifact /\ d.count = s[c].count
  OBVIOUS
<1> HIDE DEF s, d
<1>5. About(fs, d, p)
  BY <1>2, <1>4 DEF About
<1> QED BY <1>3, <1>5 DEF Noted

LEMMA NotedStays ==
  ASSUME NEW fs, NEW ds, NEW q, Noted(fs, ds, q), NEW more
  PROVE  Noted(fs, ds \cup more, q)
BY DEF Noted

LEMMA ThroughStays ==
  ASSUME NEW fs, NEW ex, NEW q, Through(fs, ex, q), NEW more
  PROVE  Through(fs, ex \cup more, q)
<1>1. \A c : Had(ex, q, c) => Had(ex \cup more, q, c)
  BY DEF Had
<1>2. Examined(ex, q) => Examined(ex \cup more, q)
  BY DEF Examined
<1> QED BY <1>1, <1>2 DEF Through, Whole

LEMMA InItself ==
  ASSUME NEW fs \in Disks, NEW p, IsArchive(fs, p)
  PROVE  InArchive(p, p)
<1>1. p \in Seq(Component) /\ Len(p) \in Nat
  BY PathsArePaths DEF IsArchive
<1>2. p \in Seq(Nat)
  BY <1>1, SeqDef DEF Component
<1> QED BY <1>1, <1>2 DEF InArchive

\* What is in something of an archive is in the archive.
LEMMA InsideIsIn ==
  ASSUME NEW p \in Seq(Component), NEW root, InArchive(root, p), NEW name \in Nat
  PROVE  InArchive(root \o <<Bang, name>>, p)
<1> DEFINE a == root \o <<Bang, name>>
<1>1. PICK n \in Nat : n = Len(p)
  BY LenProperties
<1>2. /\ root \in Seq(Nat) /\ n <= Len(root) /\ \A i \in 1 .. n : root[i] = p[i]
      /\ n < Len(root) => root[n + 1] = Bang
  BY <1>1 DEF InArchive
<1>3. Len(root) \in Nat
  BY <1>2, LenProperties
<1>4. <<Bang, name>> \in Seq(Nat) /\ Len(<<Bang, name>>) = 2 /\ <<Bang, name>>[1] = Bang
  BY DEF Bang
<1>5. /\ a \in Seq(Nat) /\ Len(a) = Len(root) + 2
      /\ \A i \in 1 .. Len(root) + 2 : a[i] = IF i <= Len(root) THEN root[i] ELSE <<Bang, name>>[i - Len(root)]
  BY <1>2, <1>4, ConcatProperties
<1>6. \A i \in 1 .. n : a[i] = p[i]
  <2>1. \A i \in 1 .. n : i \in 1 .. Len(root) + 2 /\ i <= Len(root)
    BY <1>2, <1>3
  <2> QED BY <1>2, <1>5, <2>1
<1>7. a[n + 1] = Bang
  <2>1. CASE n < Len(root)
    <3>1. n + 1 \in 1 .. Len(root) + 2 /\ n + 1 <= Len(root)
      BY <1>3, <2>1
    <3> QED BY <1>2, <1>5, <2>1, <3>1
  <2>2. CASE ~(n < Len(root))
    <3>1. n = Len(root) /\ n + 1 \in 1 .. Len(root) + 2 /\ ~(n + 1 <= Len(root)) /\ n + 1 - Len(root) = 1
      BY <1>2, <1>3, <2>2
    <3> QED BY <1>4, <1>5, <3>1
  <2> QED BY <2>1, <2>2
<1>8. n <= Len(a)
  BY <1>2, <1>3, <1>5
<1> QED BY <1>1, <1>5, <1>6, <1>7, <1>8 DEF InArchive

-----------------------------------------------------------------------------
(* What is entered, left and taken from the archives being scanned.         *)

\* Each member that is accepted comes in turn.
LEMMA TurnsList ==
  ASSUME NEW c \in DOMAIN Contents, NEW order \in InTurn(c)
  PROVE  /\ order \in Seq(AnyMember)
         /\ \A m \in Accepted(c) : \E k \in DOMAIN order : order[k] = m
<1>1. IsFiniteSet(Accepted(c))
  <2>1. IsFiniteSet(Contents[c].members) /\ Accepted(c) \subseteq Contents[c].members
    BY ContentsAssumption DEF Accepted
  <2> QED BY <2>1, FS_Subset
<1>2. PICK n \in Nat : n = Cardinality(Accepted(c))
  BY <1>1, FS_CardinalityType
<1>3. order \in [1 .. n -> Accepted(c)] /\ \A m \in Accepted(c) : \E k \in DOMAIN order : order[k] = m
  BY <1>2 DEF InTurn, Listings
<1>4. Accepted(c) \subseteq AnyMember
  BY DEF Accepted, AnyMember
<1>5. order \in Seq(AnyMember)
  BY <1>3, <1>4, SeqDef
<1> QED BY <1>3, <1>5

\* What scan's beginning leaves.
EnteredWell(fs, j, r, c, e) ==
  /\ e.jar = [path |-> j.path, frames |-> e.jar.frames, entries |-> e.jar.entries, classes |-> j.classes,
              retained |-> j.retained, digests |-> j.digests, models |-> j.models]
  /\ e.jar.frames \in Seq(Frames(j.path))
  /\ SaidIn(fs, e.result.said, j.path)
  /\ e.trouble \/ DOMAIN r.said # {} => DOMAIN e.result.said # {}
  /\ \A m : Pending(j.frames, m) => Pending(e.jar.frames, m)
  /\ ~e.trouble => \A m \in Contents[c].members : Pending(e.jar.frames, m)

\* An archive that is entered is on top; if a member of it does not come, that is said.
LEMMA Enters ==
  ASSUME NEW fs \in Disks, NEW j, j.frames \in Seq(Frames(j.path)), IsArchive(fs, j.path),
         j = [path |-> j.path, frames |-> j.frames, entries |-> j.entries, classes |-> j.classes,
              retained |-> j.retained, digests |-> j.digests, models |-> j.models],
         NEW r, SaidIn(fs, r.said, j.path), NEW root, InArchive(root, j.path),
         NEW c \in DOMAIN Contents, NEW order \in InTurn(c)
  PROVE  EnteredWell(fs, j, r, c, Entered(j, r, root, c, order))
<1> DEFINE e == Entered(j, r, root, c, order)
           members == Contents[c].members
           bad == members \ Accepted(c)
           least == Min({m.name : m \in bad})
           refused == [artifact |-> root \o <<Bang, least>>, count |-> Cardinality(bad)]
           frame == [root |-> root, left |-> order]
           more == Append(j.frames, frame)
           ds == [code \in {"read"} |-> refused]
<1>0. order \in Seq(AnyMember) /\ \A m \in Accepted(c) : \E k \in DOMAIN order : order[k] = m
  BY TurnsList
<1>1. CASE Cardinality(members) > Limits.entries - j.entries
  <2>1. e.jar = j /\ e.result = AddDiagnostic(r, Said(root, "archiveBudget")) /\ e.trouble
    BY <1>1 DEF Entered
  <2>2. SaidIn(fs, e.result.said, j.path) /\ DOMAIN e.result.said # {}
    BY <2>1, AddIn
  <2> HIDE DEF e
  <2> QED BY <2>1, <2>2 DEF e, EnteredWell
<1>2. CASE ~(Cardinality(members) > Limits.entries - j.entries)
  <2>1. /\ e.jar = [j EXCEPT !.entries = @ + Cardinality(members), !.frames = Append(@, frame)]
        /\ e.result = IF bad = {} THEN r ELSE AddDiagnostics(r, ds)
        /\ e.trouble = (bad # {})
    BY <1>2 DEF Entered
  <2>2. e.jar = [path |-> j.path, frames |-> more, entries |-> j.entries + Cardinality(members), classes |-> j.classes,
                 retained |-> j.retained, digests |-> j.digests, models |-> j.models]
    BY <2>1
  <2>3. frame \in Frames(j.path) /\ frame.left = order
    BY <1>0 DEF Frames, InArchive
  <2>4. more \in Seq(Frames(j.path)) /\ Len(more) = Len(j.frames) + 1 /\ more[Len(j.frames) + 1] = frame
        /\ \A i \in 1 .. Len(j.frames) : more[i] = j.frames[i]
    <3> HIDE DEF frame
    <3> QED BY <2>3, AppendProperties
  <2>5. /\ DOMAIN more = 1 .. Len(j.frames) + 1 /\ Len(j.frames) \in Nat /\ DOMAIN j.frames = 1 .. Len(j.frames)
        /\ Len(j.frames) + 1 \in 1 .. Len(j.frames) + 1
        /\ \A i \in 1 .. Len(j.frames) : i \in 1 .. Len(j.frames) + 1
    BY <2>4, LenProperties
  <2> HIDE DEF more, frame
  <2>6. \A m : Pending(j.frames, m) => Pending(more, m)
    BY <2>4, <2>5 DEF Pending
  <2>7. ASSUME bad = {}, NEW m \in members PROVE Pending(more, m)
    BY <1>0, <2>3, <2>4, <2>5, <2>7 DEF Pending
  <2>8. ASSUME bad # {} PROVE SaidIn(fs, ds, j.path)
    <3>1. least \in Nat
      <4>0. \A m \in members : m.name \in Nat
        BY ContentsAssumption DEF Component
      <4> DEFINE named == {m.name : m \in bad}
      <4>1. named \in SUBSET Nat /\ named # {}
        BY <2>8, <4>0
      <4> HIDE DEF named
      <4>2. \E n \in named : \A k \in named : n <= k
        BY <4>1, LeastNumber
      <4>3. Min(named) \in named
        BY <4>2 DEF Min
      <4> QED BY <4>1, <4>3 DEF named
    <3>2. j.path \in Seq(Component)
      BY PathsArePaths DEF IsArchive
    <3> HIDE DEF least
    <3>3. InArchive(refused.artifact, j.path)
      BY <3>1, <3>2, InsideIsIn
    <3> QED BY <3>3 DEF SaidIn
  <2>9. SaidIn(fs, e.result.said, j.path) /\ (e.trouble \/ DOMAIN r.said # {} => DOMAIN e.result.said # {})
    <3>1. DOMAIN ds # {}
      OBVIOUS
    <3> HIDE DEF ds, e, bad
    <3>2. CASE bad = {}
      BY <2>1, <3>2
    <3>3. CASE bad # {}
      <4>1. SaidIn(fs, AddDiagnostics(r, ds).said, j.path) /\ DOMAIN AddDiagnostics(r, ds).said # {}
        BY <2>8, <3>1, <3>3, ArchiveAdds
      <4> QED BY <2>1, <3>3, <4>1
    <3> QED BY <3>2, <3>3
  <2>10. e.jar.frames = more /\ e.jar.entries = j.entries + Cardinality(members)
    <3> HIDE DEF e
    <3> QED BY <2>2
  <2>11. e.jar = [path |-> j.path, frames |-> e.jar.frames, entries |-> e.jar.entries, classes |-> j.classes,
                  retained |-> j.retained, digests |-> j.digests, models |-> j.models]
    <3> HIDE DEF e
    <3> QED BY <2>2, <2>10
  <2>12. ~e.trouble => bad = {}
    <3> HIDE DEF e
    <3> QED BY <2>1
  <2> HIDE DEF e
  <2> QED BY <2>4, <2>6, <2>7, <2>9, <2>10, <2>11, <2>12 DEF e, EnteredWell
<1> QED BY <1>1, <1>2

\* The next member of the archive on top is taken, and no other.
LEMMA Taken ==
  ASSUME NEW p, NEW frames \in Seq(Frames(p)), frames # <<>>,
         NEW n, n = Len(frames), frames[n].left # <<>>
  PROVE  LET rest == [frames EXCEPT ![n].left = Tail(@)]
         IN  /\ rest \in Seq(Frames(p))
             /\ InArchive(frames[n].root, p)
             /\ Head(frames[n].left) \in AnyMember
             /\ \A m : Pending(frames, m) => m = Head(frames[n].left) \/ Pending(rest, m)
<1> DEFINE rest == [frames EXCEPT ![n].left = Tail(@)]
           l == frames[n].left
<1>1. n \in Nat /\ n \in 1 .. n /\ DOMAIN frames = 1 .. n /\ \A i \in 1 .. n : frames[i] \in Frames(p)
  <2>1. n \in Nat /\ n # 0 /\ DOMAIN frames = 1 .. n
    BY EmptySeq, LenProperties
  <2>2. \A i \in 1 .. n : frames[i] \in Frames(p)
    BY ElementOfSeq
  <2> QED BY <2>1, <2>2
<1>2. l \in Seq(AnyMember) /\ l # <<>> /\ InArchive(frames[n].root, p) /\ frames[n].root \in Seq(Nat)
  BY <1>1 DEF Frames
<1> DEFINE t == Tail(l)
<1>3. t \in Seq(AnyMember) /\ Head(l) \in AnyMember /\ Len(t) = Len(l) - 1 /\ \A i \in 1 .. Len(t) : t[i] = l[i + 1]
  BY <1>2, HeadTailProperties
<1>4. Head(l) = l[1] /\ Len(l) \in Nat /\ DOMAIN l = 1 .. Len(l) /\ DOMAIN t = 1 .. Len(t)
  BY <1>2, <1>3, LenProperties
<1>5. /\ DOMAIN rest = 1 .. n /\ \A i \in 1 .. n : i # n => rest[i] = frames[i]
      /\ rest[n] = [root |-> frames[n].root, left |-> t]
  <2>1. DOMAIN rest = 1 .. n /\ (\A i \in 1 .. n : i # n => rest[i] = frames[i]) /\ rest[n] = [frames[n] EXCEPT !.left = t]
    BY <1>1
  <2>2. frames[n] = [root |-> frames[n].root, left |-> frames[n].left]
    BY <1>1 DEF Frames
  <2> HIDE DEF rest, t
  <2>3. [frames[n] EXCEPT !.left = t] = [root |-> frames[n].root, left |-> t]
    BY <2>2
  <2> QED BY <2>1, <2>3
<1> HIDE DEF rest, t
<1>6. rest \in Seq(Frames(p))
  <2>1. [root |-> frames[n].root, left |-> t] \in Frames(p)
    BY <1>2, <1>3 DEF Frames
  <2>2. \A i \in 1 .. n : rest[i] \in Frames(p)
    BY <1>1, <1>5, <2>1
  <2>3. rest = [i \in 1 .. n |-> rest[i]]
    BY <1>5 DEF rest
  <2> QED BY <1>1, <2>2, <2>3, SeqDef
<1>7. ASSUME NEW m, Pending(frames, m), m # Head(l) PROVE Pending(rest, m)
  <2>1. PICK i \in 1 .. n : \E k \in DOMAIN frames[i].left : frames[i].left[k] = m
    BY <1>1, <1>7 DEF Pending
  <2>2. PICK k \in DOMAIN frames[i].left : frames[i].left[k] = m
    BY <2>1
  <2>3. CASE i # n
    BY <1>5, <2>2, <2>3 DEF Pending
  <2>4. CASE i = n
    <3>1. k \in 1 .. Len(l) /\ k # 1
      BY <1>4, <1>7, <2>2, <2>4
    <3>2. k - 1 \in 1 .. Len(t) /\ k - 1 + 1 = k
      BY <1>3, <1>4, <3>1
    <3>3. t[k - 1] = l[k] /\ k - 1 \in DOMAIN t
      BY <1>3, <1>4, <3>2
    <3>4. rest[n].left = t /\ l[k] = m
      BY <1>5, <2>2, <2>4
    <3> QED BY <1>1, <1>5, <3>3, <3>4 DEF Pending
  <2> QED BY <2>3, <2>4
<1> QED BY <1>2, <1>3, <1>6, <1>7 DEF rest

LEMMA Left ==
  ASSUME NEW p, NEW frames \in Seq(Frames(p)), frames # <<>>, frames[Len(frames)].left = <<>>
  PROVE  /\ SubSeq(frames, 1, Len(frames) - 1) \in Seq(Frames(p))
         /\ \A m : Pending(frames, m) => Pending(SubSeq(frames, 1, Len(frames) - 1), m)
<1>1. PICK n \in Nat : n = Len(frames) /\ n # 0 /\ DOMAIN frames = 1 .. n /\ \A i \in 1 .. n : frames[i] \in Frames(p)
  BY EmptySeq, LenProperties, ElementOfSeq
<1>2. PICK rest : rest = SubSeq(frames, 1, n - 1)
  OBVIOUS
<1>3. rest = [i \in 1 .. n - 1 |-> frames[i]]
  BY <1>1, <1>2
<1>4. DOMAIN rest = 1 .. n - 1 /\ n - 1 \in Nat /\ \A i \in 1 .. n - 1 : rest[i] = frames[i] /\ i \in 1 .. n
  BY <1>1, <1>3
<1>5. rest \in Seq(Frames(p))
  BY <1>1, <1>3, <1>4, SeqDef
<1>6. ASSUME NEW m, Pending(frames, m) PROVE Pending(rest, m)
  <2>1. PICK i \in 1 .. n : \E k \in DOMAIN frames[i].left : frames[i].left[k] = m
    BY <1>1, <1>6 DEF Pending
  <2>2. i # n
    BY <1>1, <2>1
  <2>3. i \in 1 .. n - 1
    BY <1>1, <2>2
  <2> QED BY <1>4, <2>1, <2>3 DEF Pending
<1> QED BY <1>1, <1>2, <1>5, <1>6

\* Archives all of whose members have been seen to are examined as deep as they go.
LEMMA FollowedIsWhole ==
  ASSUME NEW ex, NEW q, NEW top, NEW E \in SUBSET DOMAIN Contents, top \in E,
         \A c \in E : \A m \in Contents[c].members :
           Priority(m) = 3 \/ (IF m.kind = "archive" THEN Contents[m.content].zip => m.content \in E ELSE Had(ex, q, m.content))
  PROVE  Whole(ex, q, top)
<1> DEFINE Entered2(c) == c \in DOMAIN Contents /\ (c \in E \/ Contents[c].members = {})
<1>1. ASSUME NEW d, Entered2(d), NEW c \in NestedIn(d) PROVE Entered2(c)
  <2>1. PICK m \in Contents[d].members : m.kind = "archive" /\ c = m.content
    BY <1>1 DEF NestedIn
  <2>2. d \in E /\ d \in DOMAIN Contents
    BY <1>1, <2>1
  <2>3. Priority(m) # 3
    <3>1. CASE m.lib
      BY <2>1, <3>1 DEF Priority
    <3>2. CASE ~m.lib
      BY <2>1, <3>2 DEF Priority
    <3> QED BY <3>1, <3>2
  <2>4. Contents[c].zip => c \in E
    BY <2>1, <2>2, <2>3
  <2>5. c \in DOMAIN Contents /\ (~Contents[c].zip => Contents[c].members = {})
    BY <2>1, <2>2, ContentsAssumption
  <2> QED BY <2>4, <2>5
<1>2. Entered2(top)
  OBVIOUS
<1>3. \A c \in NestedIn(top) : Entered2(c)
  <2> HIDE DEF Entered2
  <2> QED BY <1>1, <1>2
<1>4. \A c \in NestedIn(top) : \A b \in NestedIn(c) : Entered2(b)
  <2> HIDE DEF Entered2
  <2> QED BY <1>1, <1>3
<1>5. ASSUME NEW c \in Reachable(top) PROVE Entered2(c)
  <2>1. c = top \/ c \in NestedIn(top) \/ \E b \in NestedIn(top) : c \in NestedIn(b)
    BY <1>5 DEF Reachable
  <2> HIDE DEF Entered2
  <2> QED BY <1>2, <1>3, <1>4, <2>1
<1>6. ASSUME NEW c \in Reachable(top), NEW m \in Inside[c] PROVE Had(ex, q, m.content)
  <2>1. c \in DOMAIN Contents /\ (c \in E \/ Contents[c].members = {})
    BY <1>5, <1>6
  <2>2. m \in Contents[c].members /\ Priority(m) # 3 /\ m.kind # "archive"
    BY <1>6, <2>1 DEF Inside
  <2> QED BY <2>1, <2>2
<1> QED BY <1>6 DEF Whole

-----------------------------------------------------------------------------
(* The steps.                                                               *)

\* While nobody has stopped the scan: the invariant.
AllIsWell ==
  /\ Shape(files, walk, loose, jars, jar, enumerated)
  /\ Telling(files, walk.stage, result, diagnostics, jar.path, troubled)
  /\ EachAccounted(files, walk.stage, loose, jars, jar.path, enumerated, examined, troubled)
  /\ Scanned(files, walk.stage, jar, examined, troubled)

LEMMA WellAtFirst == ASSUME ArtifactsInit PROVE AllIsWell
<1> USE DEF ArtifactsInit
<1>1. Shape(files, walk, loose, jars, jar, enumerated)
  BY FS_EmptySet DEF Shape, NoLoose, NoJar, GroupsShape
<1>2. Telling(files, walk.stage, result, diagnostics, jar.path, troubled)
  BY DEF Telling
<1>3. EachAccounted(files, walk.stage, loose, jars, jar.path, enumerated, examined, troubled)
  BY DEF EachAccounted
<1>4. Scanned(files, walk.stage, jar, examined, troubled)
  BY DEF Scanned
<1> QED BY <1>1, <1>2, <1>3, <1>4 DEF AllIsWell

LEMMA WalkKeeps == ASSUME AllIsWell, ~interrupted, Walk PROVE AllIsWell'
<1> USE DEF AllIsWell
<1>0. PICK seen \in SUBSET DOMAIN files :
        /\ enumerated' = enumerated \cup seen
        /\ loose' = [NoLoose EXCEPT !.left = {p \in seen : files[p].kind # "archive"}]
        /\ jars' = {p \in seen : files[p].kind = "archive"}
        /\ \E more : diagnostics' = diagnostics \cup more
  <2>1. PICK met : /\ enumerated' = enumerated \cup (met \cap DOMAIN files)
                   /\ loose' = [NoLoose EXCEPT !.left = {p \in met \cap DOMAIN files : files[p].kind # "archive"}]
                   /\ jars' = {p \in met \cap DOMAIN files : files[p].kind = "archive"}
                   /\ diagnostics' = diagnostics \cup {Said(k, "read") : k \in met \cap aside.shut} \cup {}
    BY DEF Walk
  <2>2. met \cap DOMAIN files \in SUBSET DOMAIN files
    OBVIOUS
  <2> QED BY <2>1, <2>2
<1>1. /\ walk.stage = "walk" /\ result' = NoResult
      /\ UNCHANGED <<files, jar, found, interrupted, examined, troubled>>
      /\ walk' = [walk EXCEPT !.stage = "loose"]
  BY DEF Walk, Goes
<1>2. /\ files \in Disks /\ enumerated \subseteq DOMAIN files
      /\ walk \in [root : Nat, stage : {"walk", "loose", "groups", "jars", "jar", "end"}]
      /\ jars = {} /\ loose.left = {} /\ loose.groups = {}
  BY <1>1 DEF Shape
<1>3. walk'.stage = "loose" /\ walk' \in [root : Nat, stage : {"walk", "loose", "groups", "jars", "jar", "end"}]
  BY <1>1, <1>2
<1>4. loose' = [left |-> loose'.left, groups |-> {}, classes |-> 0, retained |-> 0] /\ loose'.groups = {}
      /\ loose'.left = {p \in seen : files[p].kind # "archive"}
  BY <1>0 DEF NoLoose
<1>5. \A p \in DOMAIN files : IsLoose(files, p) \/ IsArchive(files, p)
  BY <1>2, PathsArePaths DEF IsLoose
<1>6. Shape(files, walk, loose, jars, jar, enumerated)'
  <2>1. \A p \in loose'.left : p \in DOMAIN files /\ IsLoose(files, p)
    BY <1>4, <1>5 DEF IsArchive
  <2>2. \A p \in jars' : IsArchive(files, p)
    BY <1>0 DEF IsArchive
  <2>3. GroupsShape(files, loose'.groups)
    BY <1>4, FS_EmptySet DEF GroupsShape
  <2>4. enumerated' \subseteq DOMAIN files
    BY <1>0, <1>2
  <2>5. loose' = [left |-> loose'.left, groups |-> loose'.groups, classes |-> loose'.classes, retained |-> loose'.retained]
    BY <1>4
  <2>6. jar = [path |-> jar.path, frames |-> jar.frames, entries |-> jar.entries, classes |-> jar.classes,
               retained |-> jar.retained, digests |-> jar.digests, models |-> jar.models]
    BY DEF Shape
  <2> QED BY <1>1, <1>2, <1>3, <2>1, <2>2, <2>3, <2>4, <2>5, <2>6 DEF Shape
<1>7. Telling(files, walk.stage, result, diagnostics, jar.path, troubled)'
  <2>1. \A q \in troubled : q \in DOMAIN files /\ Noted(files, diagnostics', q)
    BY <1>0, <1>1, NotedStays DEF Telling, Heard
  <2>2. SaidLoose(files, result'.said)
    BY <1>1 DEF NoResult, SaidLoose
  <2> QED BY <1>1, <1>3, <2>1, <2>2 DEF Telling, Heard
<1>8. EachAccounted(files, walk.stage, loose, jars, jar.path, enumerated, examined, troubled)'
  <2>1. ASSUME NEW q \in enumerated PROVE q \in troubled \/ Through(files, examined, q)
    BY <1>1, <1>2, <2>1 DEF EachAccounted, Waits
  <2>2. ASSUME NEW q \in seen PROVE q \in loose'.left \/ q \in jars'
    BY <1>0, <1>4, <2>2
  <2> QED BY <1>0, <1>1, <2>1, <2>2 DEF EachAccounted, Waits
<1>9. Scanned(files, walk.stage, jar, examined, troubled)'
  BY <1>3 DEF Scanned
<1> QED BY <1>6, <1>7, <1>8, <1>9

LEMMA LooseKeeps == ASSUME AllIsWell, ~interrupted, NEW p \in DOMAIN files, Loose(p) PROVE AllIsWell'
<1> DEFINE f == files[p]
           class == f.kind = "class"
           overClasses == class /\ loose.classes >= Limits.classes
           read == ReadTrouble(p)
           retained == loose.retained + f.size
           over == retained > Limits.retained
           parse == ParseTrouble(f.content)
           counted == class /\ ~overClasses /\ read = "none"
           kept == counted /\ ~over
           trouble == CASE overClasses -> "budget"
                        [] ~overClasses /\ read # "none" -> read
                        [] counted /\ over -> "budget"
                        [] kept -> parse
                        [] OTHER -> "none"
           model == [path |-> p, content |-> f.content]
           hits == IF f.kind = "page" THEN Contents[f.content].page ELSE Contents[f.content].source
<1>1. /\ walk.stage = "loose" /\ p \in loose.left
      /\ UNCHANGED <<files, walk, jar, jars, found, diagnostics, enumerated, interrupted>>
      /\ loose' = [left |-> loose.left \ {p},
                   groups |-> IF kept /\ parse = "none" THEN loose.groups \cup {model} ELSE loose.groups,
                   classes |-> loose.classes + (IF counted THEN 1 ELSE 0),
                   retained |-> IF kept THEN retained ELSE loose.retained]
      /\ result' = IF trouble # "none" THEN AddDiagnostic(result, Said(p, trouble))
                   ELSE IF class THEN result ELSE AddHits(result, p, hits)
      /\ troubled' = IF trouble # "none" THEN troubled \cup {p} ELSE troubled
      /\ examined' = IF trouble = "none" /\ ~class THEN examined \cup {<<p, p, f.kind, f.content>>} ELSE examined
  BY DEF Loose, IsEarliest
<1>2. /\ Shape(files, walk, loose, jars, jar, enumerated)
      /\ Telling(files, walk.stage, result, diagnostics, jar.path, troubled)
      /\ EachAccounted(files, walk.stage, loose, jars, jar.path, enumerated, examined, troubled)
  BY DEF AllIsWell
<1>3. /\ files \in Disks /\ IsLoose(files, p) /\ f.content \in DOMAIN Contents
      /\ GroupsShape(files, loose.groups)
  BY <1>1, <1>2, DisksAssumption DEF Shape
<1>4. class /\ trouble = "none" => kept /\ parse = "none"
  OBVIOUS
<1> DEFINE heldBack == kept /\ parse = "none"
<1>5. loose'.left = loose.left \ {p} /\ loose'.groups = IF heldBack THEN loose.groups \cup {model} ELSE loose.groups
  BY <1>1
<1>6. loose' = [left |-> loose'.left, groups |-> loose'.groups, classes |-> loose'.classes, retained |-> loose'.retained]
  BY <1>1
<1>7. /\ \A q \in loose.left : q \in DOMAIN files /\ IsLoose(files, q)
      /\ walk \in [root : Nat, stage : {"walk", "loose", "groups", "jars", "jar", "end"}]
      /\ enumerated \subseteq DOMAIN files /\ \A q \in jars : IsArchive(files, q)
      /\ jar = [path |-> jar.path, frames |-> jar.frames, entries |-> jar.entries, classes |-> jar.classes,
                retained |-> jar.retained, digests |-> jar.digests, models |-> jar.models]
  BY <1>2 DEF Shape
<1> HIDE DEF trouble, kept, counted, overClasses, read, retained, over, parse, class, f, heldBack, hits
<1>8. GroupsShape(files, loose'.groups)
  <2>1. model.path = p /\ model.content = f.content
    OBVIOUS
  <2> HIDE DEF model
  <2>2. IsFiniteSet(loose.groups \cup {model})
    BY <1>3, FS_AddElement DEF GroupsShape
  <2> QED BY <1>3, <1>5, <2>1, <2>2 DEF GroupsShape
<1>9. Shape(files, walk, loose, jars, jar, enumerated)'
  BY <1>1, <1>3, <1>5, <1>6, <1>7, <1>8 DEF Shape
<1>10. SaidLoose(files, result.said) /\ \A q \in troubled : q \in DOMAIN files /\ (Noted(files, diagnostics, q) \/ Tells(files, result.said, q))
  BY <1>1, <1>2 DEF Telling, Heard
<1>11. /\ SaidLoose(files, result'.said)
       /\ \A q : Tells(files, result.said, q) => Tells(files, result'.said, q)
       /\ trouble # "none" => Tells(files, result'.said, p)
  <2>1. CASE trouble # "none"
    <3>1. PointsAt(files, p, p)
      BY DEF PointsAt
    <3> QED BY <1>1, <1>3, <1>10, <2>1, <3>1, AddLoose
  <2>2. CASE trouble = "none"
    <3>1. result'.said = result.said
      BY <1>1, <2>2, FindingsSayNothing DEF AddHits
    <3> QED BY <1>10, <2>2, <3>1
  <2> QED BY <2>1, <2>2
<1>12. Telling(files, walk.stage, result, diagnostics, jar.path, troubled)'
  BY <1>1, <1>10, <1>11 DEF Telling, Heard
<1>13. ASSUME NEW q \in enumerated
       PROVE  q \in troubled' \/ Through(files, examined', q) \/ Waits(walk.stage, loose', jars, jar.path, q)
  <2>1. CASE q = p
    <3>1. CASE trouble # "none"
      BY <1>1, <2>1, <3>1
    <3>2. CASE trouble = "none" /\ class
      <4>1. heldBack
        BY <1>4, <3>2 DEF heldBack
      <4>2. model \in loose'.groups /\ model.path = p
        BY <1>5, <4>1
      <4> HIDE DEF model
      <4> QED BY <2>1, <4>2 DEF Waits
    <3>3. CASE trouble = "none" /\ ~class
      <4>1. \E e \in examined' : e[1] = p
        <5>1. PICK e : e = <<p, p, f.kind, f.content>>
          OBVIOUS
        <5>2. e \in examined' /\ e[1] = p
          BY <1>1, <3>3, <5>1
        <5> QED BY <5>2
      <4> QED BY <1>3, <2>1, <4>1 DEF Through, IsLoose, Examined
    <3> QED BY <3>1, <3>2, <3>3
  <2>2. CASE q # p
    <3>1. troubled \subseteq troubled' /\ (Through(files, examined, q) => Through(files, examined', q))
      BY <1>1, ThroughStays
    <3>2. q \in troubled \/ Through(files, examined, q) \/ Waits(walk.stage, loose, jars, jar.path, q)
      BY <1>2, <1>13 DEF EachAccounted
    <3>3. Waits(walk.stage, loose, jars, jar.path, q) => Waits(walk.stage, loose', jars, jar.path, q)
      BY <1>5, <2>2 DEF Waits
    <3> QED BY <3>1, <3>2, <3>3
  <2> QED BY <2>1, <2>2
<1>14. EachAccounted(files, walk.stage, loose, jars, jar.path, enumerated, examined, troubled)'
  BY <1>1, <1>13 DEF EachAccounted
<1>15. Scanned(files, walk.stage, jar, examined, troubled)'
  BY <1>1 DEF Scanned
<1> QED BY <1>9, <1>12, <1>14, <1>15 DEF AllIsWell

LEMMA LooseReadKeeps == ASSUME AllIsWell, ~interrupted, LooseRead PROVE AllIsWell'
<1>1. /\ walk.stage = "loose" /\ loose.left = {} /\ walk' = [walk EXCEPT !.stage = "groups"]
      /\ UNCHANGED <<files, loose, jar, jars, result, found, diagnostics, enumerated, interrupted, examined, troubled>>
  BY DEF LooseRead, Goes
<1>2. /\ Shape(files, walk, loose, jars, jar, enumerated)
      /\ Telling(files, walk.stage, result, diagnostics, jar.path, troubled)
      /\ EachAccounted(files, walk.stage, loose, jars, jar.path, enumerated, examined, troubled)
  BY DEF AllIsWell
<1>3. walk' \in [root : Nat, stage : {"walk", "loose", "groups", "jars", "jar", "end"}] /\ walk'.stage = "groups"
  BY <1>1, <1>2 DEF Shape
<1>4. Shape(files, walk, loose, jars, jar, enumerated)'
  BY <1>1, <1>2, <1>3 DEF Shape
<1>5. Telling(files, walk.stage, result, diagnostics, jar.path, troubled)'
  BY <1>1, <1>2, <1>3 DEF Telling, Heard
<1>6. EachAccounted(files, walk.stage, loose, jars, jar.path, enumerated, examined, troubled)'
  BY <1>1, <1>2, <1>3 DEF EachAccounted, Waits
<1>7. Scanned(files, walk.stage, jar, examined, troubled)'
  BY <1>3 DEF Scanned
<1> QED BY <1>4, <1>5, <1>6, <1>7 DEF AllIsWell

LEMMA GroupKeeps == ASSUME AllIsWell, ~interrupted, NEW key, Group(key) PROVE AllIsWell'
<1> DEFINE models == {m \in loose.groups : files[m.path].group = key}
<1>1. /\ walk.stage = "groups" /\ key \in {files[m.path].group : m \in loose.groups}
      /\ loose' = [loose EXCEPT !.groups = @ \ models]
      /\ UNCHANGED <<files, walk, jar, jars, found, diagnostics, enumerated, interrupted>>
  BY DEF Group, IsEarliest
<1>2. PICK order \in InOrder(models) :
        LET about == Decoded(key, order)
        IN  /\ result' = GroupResult(result, about, NoPath)
            /\ troubled' = troubled \cup about.troubled
            /\ examined' = examined \cup {<<m.path, m.path, "class", m.content>> : m \in about.reached}
  BY DEF Group
<1> DEFINE about == Decoded(key, order)
           A == Aggregated(about.said)
<1>3. /\ Shape(files, walk, loose, jars, jar, enumerated)
      /\ Telling(files, walk.stage, result, diagnostics, jar.path, troubled)
      /\ EachAccounted(files, walk.stage, loose, jars, jar.path, enumerated, examined, troubled)
  BY DEF AllIsWell
<1>4. /\ files \in Disks /\ GroupsShape(files, loose.groups)
      /\ loose = [left |-> loose.left, groups |-> loose.groups, classes |-> loose.classes, retained |-> loose.retained]
  BY <1>3 DEF Shape
<1>5. loose' = [left |-> loose.left, groups |-> loose.groups \ models, classes |-> loose.classes, retained |-> loose.retained]
  <2> HIDE DEF models
  <2> QED BY <1>1, <1>4
<1>6. GroupsShape(files, models) /\ models # {} /\ \A m \in models : files[m.path].group = key
  <2>1. IsFiniteSet(models)
    BY <1>4, FS_Subset DEF GroupsShape
  <2> QED BY <1>1, <1>4, <2>1 DEF GroupsShape
<1>7. GroupsShape(files, loose.groups \ models)
  <2>1. IsFiniteSet(loose.groups \ models)
    BY <1>4, FS_Subset DEF GroupsShape
  <2> QED BY <1>4, <2>1 DEF GroupsShape
<1>0. \A m \in loose.groups : m \in models \/ m \in loose.groups \ models
  OBVIOUS
<1> HIDE DEF models
<1>8. SaidLoose(files, A) /\ \A q \in about.troubled : q \in DOMAIN files /\ Tells(files, A, q)
  BY <1>4, <1>6, GroupTells
<1>9. \A m \in models : m \in about.reached \/ m.path \in about.troubled
  <2>1. Classes(models)
    BY <1>6 DEF GroupsShape, Classes
  <2> QED BY <2>1, DecodedSays
<1>10. \E r : r.said = result.said /\ result' = AddDiagnostics(r, A)
  BY <1>2, FindingsSayNothing DEF GroupResult
<1>11. /\ troubled' = troubled \cup about.troubled
       /\ examined' = examined \cup {<<m.path, m.path, "class", m.content>> : m \in about.reached}
  BY <1>2
<1> HIDE DEF about, A
<1>12. SaidLoose(files, result.said) /\ \A q \in troubled : q \in DOMAIN files /\ (Noted(files, diagnostics, q) \/ Tells(files, result.said, q))
  BY <1>1, <1>3 DEF Telling, Heard
<1>13. /\ SaidLoose(files, result'.said)
       /\ \A q : Tells(files, result.said, q) \/ Tells(files, A, q) => Tells(files, result'.said, q)
  BY <1>8, <1>10, <1>12, LooseAdds DEF Tells
<1>14. Telling(files, walk.stage, result, diagnostics, jar.path, troubled)'
  BY <1>1, <1>8, <1>11, <1>12, <1>13 DEF Telling, Heard
<1>15. Shape(files, walk, loose, jars, jar, enumerated)'
  <2>1. /\ loose'.left = loose.left /\ loose'.groups = loose.groups \ models
        /\ loose' = [left |-> loose'.left, groups |-> loose'.groups, classes |-> loose'.classes, retained |-> loose'.retained]
    BY <1>5
  <2> QED BY <1>1, <1>3, <1>7, <2>1 DEF Shape
<1>16. ASSUME NEW q \in enumerated
       PROVE  q \in troubled' \/ Through(files, examined', q) \/ Waits(walk.stage, loose', jars, jar.path, q)
  <2>1. q \in troubled \/ Through(files, examined, q) \/ Waits(walk.stage, loose, jars, jar.path, q)
    BY <1>3, <1>16 DEF EachAccounted
  <2>2. Through(files, examined, q) => Through(files, examined', q)
    BY <1>11, ThroughStays
  <2>3. ASSUME NEW m \in models, m.path = q PROVE q \in troubled' \/ Through(files, examined', q)
    <3>1. CASE m \in about.reached
      <4>1. Examined(examined', q)
        <5>1. PICK e : e = <<m.path, m.path, "class", m.content>>
          OBVIOUS
        <5>2. e \in examined' /\ e[1] = q
          BY <1>11, <2>3, <3>1, <5>1
        <5> QED BY <5>2 DEF Examined
      <4>2. IsLoose(files, q)
        BY <1>6, <2>3 DEF GroupsShape
      <4> QED BY <4>1, <4>2 DEF Through, IsLoose
    <3>2. CASE m.path \in about.troubled
      BY <1>11, <2>3, <3>2
    <3> QED BY <1>9, <3>1, <3>2
  <2>4. Waits(walk.stage, loose, jars, jar.path, q) =>
          Waits(walk.stage, loose', jars, jar.path, q) \/ \E m \in models : m.path = q
    BY <1>0, <1>5 DEF Waits
  <2> QED BY <1>11, <2>1, <2>2, <2>3, <2>4
<1>17. EachAccounted(files, walk.stage, loose, jars, jar.path, enumerated, examined, troubled)'
  BY <1>1, <1>16 DEF EachAccounted
<1>18. Scanned(files, walk.stage, jar, examined, troubled)'
  BY <1>1 DEF Scanned
<1> QED BY <1>14, <1>15, <1>17, <1>18 DEF AllIsWell

LEMMA LooseDoneKeeps == ASSUME AllIsWell, ~interrupted, LooseDone PROVE AllIsWell'
<1>1. /\ walk.stage = "groups" /\ loose.groups = {} /\ walk' = [walk EXCEPT !.stage = "jars"]
      /\ diagnostics' = diagnostics \cup Flushed(result) /\ loose' = NoLoose /\ result' = NoResult
      /\ UNCHANGED <<files, jar, jars, enumerated, interrupted, examined, troubled>>
  BY DEF LooseDone, Goes
<1>2. /\ Shape(files, walk, loose, jars, jar, enumerated)
      /\ Telling(files, walk.stage, result, diagnostics, jar.path, troubled)
      /\ EachAccounted(files, walk.stage, loose, jars, jar.path, enumerated, examined, troubled)
  BY DEF AllIsWell
<1>3. /\ walk' \in [root : Nat, stage : {"walk", "loose", "groups", "jars", "jar", "end"}] /\ walk'.stage = "jars"
      /\ files \in Disks /\ loose.left = {}
  BY <1>1, <1>2 DEF Shape
<1>4. /\ loose'.left = {} /\ loose'.groups = {} /\ GroupsShape(files, {})
      /\ loose' = [left |-> loose'.left, groups |-> loose'.groups, classes |-> loose'.classes, retained |-> loose'.retained]
  BY <1>1, FS_EmptySet DEF NoLoose, GroupsShape
<1>5. Shape(files, walk, loose, jars, jar, enumerated)'
  BY <1>1, <1>2, <1>3, <1>4 DEF Shape
<1>6. ASSUME NEW q \in troubled PROVE q \in DOMAIN files /\ Noted(files, diagnostics', q)
  <2>1. q \in DOMAIN files /\ (Noted(files, diagnostics, q) \/ Tells(files, result.said, q)) /\ SaidLoose(files, result.said)
    BY <1>1, <1>2, <1>6 DEF Telling, Heard
  <2>2. Tells(files, result.said, q) => Noted(files, Flushed(result), q)
    BY <1>3, <2>1, FlushLoose
  <2>3. diagnostics' = diagnostics \cup Flushed(result) /\ diagnostics' = Flushed(result) \cup diagnostics
    BY <1>1
  <2> QED BY <2>1, <2>2, <2>3, NotedStays
<1>7. Telling(files, walk.stage, result, diagnostics, jar.path, troubled)'
  BY <1>1, <1>3, <1>6 DEF Telling, Heard
<1>8. EachAccounted(files, walk.stage, loose, jars, jar.path, enumerated, examined, troubled)'
  BY <1>1, <1>2, <1>3, <1>4 DEF EachAccounted, Waits
<1>9. Scanned(files, walk.stage, jar, examined, troubled)'
  BY <1>3 DEF Scanned
<1> QED BY <1>5, <1>7, <1>8, <1>9 DEF AllIsWell

LEMMA SignedPageKeeps == ASSUME AllIsWell, NEW p, SignedPage(p) PROVE AllIsWell'
<1>1. /\ walk.stage = "jars" /\ \E more : diagnostics' = diagnostics \cup more
      /\ \E more : examined' = examined \cup more
      /\ UNCHANGED <<files, walk, loose, jar, jars, result, enumerated, interrupted, troubled>>
  <2>1. /\ \E d : diagnostics' = diagnostics \/ diagnostics' = diagnostics \cup {d}
        /\ \E e : examined' = examined \/ examined' = examined \cup {e}
    BY DEF SignedPage
  <2>2. diagnostics = diagnostics \cup {} /\ examined = examined \cup {}
    OBVIOUS
  <2>3. walk.stage = "jars" /\ UNCHANGED <<files, walk, loose, jar, jars, result, enumerated, interrupted, troubled>>
    BY DEF SignedPage
  <2> QED BY <2>1, <2>2, <2>3
<1>2. /\ Shape(files, walk, loose, jars, jar, enumerated)
      /\ Telling(files, walk.stage, result, diagnostics, jar.path, troubled)
      /\ EachAccounted(files, walk.stage, loose, jars, jar.path, enumerated, examined, troubled)
  BY DEF AllIsWell
<1>3. Shape(files, walk, loose, jars, jar, enumerated)'
  BY <1>1, <1>2
<1>4. Telling(files, walk.stage, result, diagnostics, jar.path, troubled)'
  BY <1>1, <1>2, NotedStays DEF Telling, Heard
<1>5. EachAccounted(files, walk.stage, loose, jars, jar.path, enumerated, examined, troubled)'
  BY <1>1, <1>2, ThroughStays DEF EachAccounted
<1>6. Scanned(files, walk.stage, jar, examined, troubled)'
  BY <1>1 DEF Scanned
<1> QED BY <1>3, <1>4, <1>5, <1>6 DEF AllIsWell

LEMMA NextRootKeeps == ASSUME AllIsWell, ~interrupted, NextRoot PROVE AllIsWell'
<1>1. /\ walk.stage = "jars" /\ jars = {}
      /\ walk' = IF walk.root = Len(Roots) THEN [walk EXCEPT !.stage = "end"] ELSE [root |-> walk.root + 1, stage |-> "walk"]
      /\ UNCHANGED <<files, loose, jar, jars, result, found, diagnostics, enumerated, interrupted, examined, troubled>>
  BY DEF NextRoot
<1>2. /\ Shape(files, walk, loose, jars, jar, enumerated)
      /\ Telling(files, walk.stage, result, diagnostics, jar.path, troubled)
      /\ EachAccounted(files, walk.stage, loose, jars, jar.path, enumerated, examined, troubled)
  BY DEF AllIsWell
<1>3. /\ walk' \in [root : Nat, stage : {"walk", "loose", "groups", "jars", "jar", "end"}]
      /\ walk'.stage \in {"end", "walk"}
  BY <1>1, <1>2 DEF Shape
<1>4. Shape(files, walk, loose, jars, jar, enumerated)'
  BY <1>1, <1>2, <1>3 DEF Shape
<1>5. Telling(files, walk.stage, result, diagnostics, jar.path, troubled)'
  BY <1>1, <1>2, <1>3 DEF Telling, Heard
<1>6. EachAccounted(files, walk.stage, loose, jars, jar.path, enumerated, examined, troubled)'
  BY <1>1, <1>2, <1>3 DEF EachAccounted, Waits
<1>7. Scanned(files, walk.stage, jar, examined, troubled)'
  BY <1>3 DEF Scanned
<1> QED BY <1>4, <1>5, <1>6, <1>7 DEF AllIsWell

\* What has been seen to stays so as members are taken and archives entered.
LEMMA SeenToStays ==
  ASSUME NEW path, NEW ex, NEW models, NEW E, NEW ex2, ex \subseteq ex2,
         NEW models2, models \subseteq models2, NEW E2, E \subseteq E2
  PROVE  /\ \A c : Got(ex, path, models, c) => Got(ex2, path, models2, c)
         /\ \A m : SeenTo(ex, path, models, E, m) => SeenTo(ex2, path, models2, E2, m)
<1>1. \A c : Got(ex, path, models, c) => Got(ex2, path, models2, c)
  BY DEF Got, Had
<1> QED BY <1>1 DEF SeenTo

\* A step of an archive's scan.
LEMMA JarStep ==
  ASSUME AllIsWell, walk.stage = "jar", UNCHANGED <<files, walk, loose, jars, diagnostics, enumerated>>,
         jar' = [path |-> jar.path, frames |-> jar'.frames, entries |-> jar'.entries, classes |-> jar'.classes,
                 retained |-> jar'.retained, digests |-> jar'.digests, models |-> jar'.models],
         JarShape(files, jar'), SaidIn(files, result'.said, jar.path),
         DOMAIN result.said # {} => DOMAIN result'.said # {},
         troubled' = troubled \/ (troubled' = troubled \cup {jar.path} /\ DOMAIN result'.said # {}),
         NEW more, examined' = examined \cup more,
         Scanned(files, "jar", jar', examined', troubled')
  PROVE  AllIsWell'
<1>1. /\ Shape(files, walk, loose, jars, jar, enumerated)
      /\ Telling(files, walk.stage, result, diagnostics, jar.path, troubled)
      /\ EachAccounted(files, walk.stage, loose, jars, jar.path, enumerated, examined, troubled)
  BY DEF AllIsWell
<1>2. jar'.path = jar.path /\ jar.path \in DOMAIN files
  BY <1>1 DEF Shape, JarShape, IsArchive
<1>3. Shape(files, walk, loose, jars, jar, enumerated)'
  BY <1>1, <1>2 DEF Shape
<1>4. \A q \in troubled' : q \in DOMAIN files /\ Heard(files, "jar", diagnostics, result'.said, jar.path, q)
  <2>1. ASSUME NEW q \in troubled PROVE q \in DOMAIN files /\ Heard(files, "jar", diagnostics, result'.said, jar.path, q)
    BY <1>1, <2>1 DEF Telling, Heard
  <2>2. ASSUME troubled' # troubled PROVE Heard(files, "jar", diagnostics, result'.said, jar.path, jar.path)
    BY <2>2 DEF Heard
  <2> QED BY <1>2, <2>1, <2>2
<1>5. Telling(files, walk.stage, result, diagnostics, jar.path, troubled)'
  BY <1>2, <1>4 DEF Telling
<1>6. ASSUME NEW q \in enumerated
      PROVE  q \in troubled' \/ Through(files, examined', q) \/ Waits("jar", loose, jars, jar.path, q)
  <2>1. q \in troubled \/ Through(files, examined, q) \/ Waits("jar", loose, jars, jar.path, q)
    BY <1>1, <1>6 DEF EachAccounted
  <2>2. Through(files, examined, q) => Through(files, examined', q)
    BY ThroughStays
  <2> QED BY <2>1, <2>2
<1>7. EachAccounted(files, walk.stage, loose, jars, jar.path, enumerated, examined, troubled)'
  BY <1>2, <1>6 DEF EachAccounted
<1> QED BY <1>3, <1>5, <1>7 DEF AllIsWell

LEMMA LeaveKeeps == ASSUME AllIsWell, ~interrupted, Leave PROVE AllIsWell'
<1>1. /\ walk.stage = "jar" /\ jar.frames # <<>> /\ Top.left = <<>>
      /\ jar' = [jar EXCEPT !.frames = SubSeq(@, 1, Len(@) - 1)]
      /\ UNCHANGED <<files, walk, loose, jars, result, found, diagnostics, enumerated, interrupted, examined, troubled>>
  BY DEF Leave
<1>2. /\ Shape(files, walk, loose, jars, jar, enumerated)
      /\ Telling(files, walk.stage, result, diagnostics, jar.path, troubled)
      /\ Scanned(files, walk.stage, jar, examined, troubled)
  BY DEF AllIsWell
<1>3. JarShape(files, jar)
      /\ jar = [path |-> jar.path, frames |-> jar.frames, entries |-> jar.entries, classes |-> jar.classes,
                retained |-> jar.retained, digests |-> jar.digests, models |-> jar.models]
  BY <1>1, <1>2 DEF Shape
<1> DEFINE rest == SubSeq(jar.frames, 1, Len(jar.frames) - 1)
<1>4. rest \in Seq(Frames(jar.path)) /\ \A m : Pending(jar.frames, m) => Pending(rest, m)
  BY <1>1, <1>3, Left DEF JarShape, Top
<1>5. jar' = [path |-> jar.path, frames |-> rest, entries |-> jar.entries, classes |-> jar.classes,
              retained |-> jar.retained, digests |-> jar.digests, models |-> jar.models]
  <2>1. jar' = [jar EXCEPT !.frames = rest]
    BY <1>1
  <2> HIDE DEF rest
  <2> QED BY <1>3, <2>1
<1> HIDE DEF rest
<1>6. JarShape(files, jar')
  BY <1>3, <1>4, <1>5 DEF JarShape
<1>7. jar' = [path |-> jar.path, frames |-> jar'.frames, entries |-> jar'.entries, classes |-> jar'.classes,
              retained |-> jar'.retained, digests |-> jar'.digests, models |-> jar'.models]
      /\ jar'.path = jar.path /\ jar'.frames = rest /\ jar'.digests = jar.digests /\ jar'.models = jar.models
  BY <1>5
<1>8. Scanned(files, "jar", jar', examined', troubled')
  <2> SUFFICES ASSUME jar.path \notin troubled
               PROVE  \E E \in SUBSET DOMAIN Contents : Covers(examined, jar', files[jar.path].content, E)
    BY <1>1, <1>7 DEF Scanned
  <2>1. PICK E \in SUBSET DOMAIN Contents : Covers(examined, jar, files[jar.path].content, E)
    BY <1>1, <1>2 DEF Scanned
  <2>2. Followed(examined, jar.path, jar.models, rest, E) /\ Dated(examined, jar.path, jar.models, jar.digests, E)
    BY <1>4, <2>1 DEF Covers, Followed
  <2> QED BY <1>7, <2>1, <2>2 DEF Covers
<1>9. SaidIn(files, result'.said, jar.path)
  BY <1>1, <1>2 DEF Telling
<1>10. examined' = examined \cup {} /\ troubled' = troubled /\ result' = result
  BY <1>1
<1> QED BY <1>1, <1>6, <1>7, <1>8, <1>9, <1>10, JarStep

LEMMA OpenJarKeeps == ASSUME AllIsWell, ~interrupted, NEW p \in DOMAIN files, OpenJar(p) PROVE AllIsWell'
<1> DEFINE f == files[p]
           j == [NoJar EXCEPT !.path = p]
           opens == f.readable /\ Contents[f.content].zip
<1>1. /\ walk.stage = "jars" /\ p \in jars
      /\ UNCHANGED <<files, loose, found, enumerated, interrupted, examined>>
  BY DEF OpenJar, IsEarliest
<1>2. /\ Shape(files, walk, loose, jars, jar, enumerated)
      /\ Telling(files, walk.stage, result, diagnostics, jar.path, troubled)
      /\ EachAccounted(files, walk.stage, loose, jars, jar.path, enumerated, examined, troubled)
  BY DEF AllIsWell
<1>3. /\ files \in Disks /\ IsArchive(files, p) /\ f.content \in DOMAIN Contents
      /\ walk \in [root : Nat, stage : {"walk", "loose", "groups", "jars", "jar", "end"}]
      /\ \A q \in troubled : q \in DOMAIN files /\ Noted(files, diagnostics, q)
      /\ InArchive(p, p)
  BY <1>1, <1>2, InItself, DisksAssumption DEF Shape, Telling, Heard
<1>4. CASE ~opens
  <2>1. /\ diagnostics' = diagnostics \cup {Said(p, "read")} /\ jars' = jars \ {p} /\ troubled' = troubled \cup {p}
        /\ UNCHANGED <<walk, jar, result>>
    BY <1>4 DEF OpenJar
  <2>2. Shape(files, walk, loose, jars, jar, enumerated)'
    BY <1>1, <1>2, <2>1 DEF Shape
  <2>3. About(files, Said(p, "read"), p)
    BY <1>3 DEF About, Said
  <2>4. \A q \in troubled' : q \in DOMAIN files /\ Noted(files, diagnostics', q)
    BY <1>3, <2>1, <2>3 DEF Noted
  <2>5. Telling(files, walk.stage, result, diagnostics, jar.path, troubled)'
    BY <1>1, <2>1, <2>4 DEF Telling, Heard
  <2>6. EachAccounted(files, walk.stage, loose, jars, jar.path, enumerated, examined, troubled)'
    BY <1>1, <1>2, <2>1 DEF EachAccounted, Waits
  <2>7. Scanned(files, walk.stage, jar, examined, troubled)'
    BY <1>1, <2>1 DEF Scanned
  <2> QED BY <2>2, <2>5, <2>6, <2>7 DEF AllIsWell
<1>5. CASE opens
  <2>1. PICK order \in InTurn(f.content) :
           LET e == Entered(j, NoResult, p, f.content, order)
           IN  /\ jar' = e.jar /\ result' = e.result
               /\ troubled' = IF e.trouble THEN troubled \cup {p} ELSE troubled
    BY <1>5 DEF OpenJar
  <2>2. jars' = jars \ {p} /\ diagnostics' = diagnostics /\ walk' = [walk EXCEPT !.stage = "jar"]
    BY <1>5 DEF OpenJar, Goes
  <2>3. walk' \in [root : Nat, stage : {"walk", "loose", "groups", "jars", "jar", "end"}] /\ walk'.stage = "jar"
    BY <1>3, <2>2
  <2>4. /\ j = [path |-> p, frames |-> <<>>, entries |-> 0, classes |-> 0, retained |-> 0, digests |-> {}, models |-> {}]
        /\ j.path = p /\ j.frames = <<>> /\ j.digests = {} /\ j.models = {} /\ NoResult.said = <<>>
    <3>1. NoJar = [path |-> NoPath, frames |-> <<>>, entries |-> 0, classes |-> 0, retained |-> 0, digests |-> {}, models |-> {}]
      BY DEF NoJar
    <3>2. PICK k : k = NoJar
      OBVIOUS
    <3>3. /\ k = [path |-> k.path, frames |-> k.frames, entries |-> k.entries, classes |-> k.classes,
                  retained |-> k.retained, digests |-> k.digests, models |-> k.models]
          /\ k.frames = <<>> /\ k.entries = 0 /\ k.classes = 0 /\ k.retained = 0 /\ k.digests = {} /\ k.models = {}
      BY <3>1, <3>2
    <3>4. j = [path |-> p, frames |-> k.frames, entries |-> k.entries, classes |-> k.classes,
               retained |-> k.retained, digests |-> k.digests, models |-> k.models]
      <4>1. j = [k EXCEPT !.path = p]
        BY <3>2
      <4> HIDE DEF j
      <4>2. k = [path |-> k.path, frames |-> k.frames, entries |-> k.entries, classes |-> k.classes,
                 retained |-> k.retained, digests |-> k.digests, models |-> k.models]
        BY <3>3
      <4> QED BY <4>1, <4>2
    <3> HIDE DEF j
    <3>5. j = [path |-> p, frames |-> <<>>, entries |-> 0, classes |-> 0, retained |-> 0, digests |-> {}, models |-> {}]
      BY <3>3, <3>4
    <3> QED BY <3>5 DEF NoResult
  <2>5. j = [path |-> j.path, frames |-> j.frames, entries |-> j.entries, classes |-> j.classes,
             retained |-> j.retained, digests |-> j.digests, models |-> j.models]
        /\ j.frames \in Seq(Frames(j.path))
    BY <2>4, EmptySeq
  <2>6. SaidIn(files, NoResult.said, p)
    BY <2>4 DEF SaidIn
  <2> HIDE DEF j, f
  <2> DEFINE e == Entered(j, NoResult, p, f.content, order)
  <2>7. /\ e.jar = [path |-> j.path, frames |-> e.jar.frames, entries |-> e.jar.entries, classes |-> j.classes,
                    retained |-> j.retained, digests |-> j.digests, models |-> j.models]
        /\ e.jar.frames \in Seq(Frames(j.path))
        /\ SaidIn(files, e.result.said, j.path)
        /\ e.trouble \/ DOMAIN NoResult.said # {} => DOMAIN e.result.said # {}
        /\ ~e.trouble => \A m \in Contents[f.content].members : Pending(e.jar.frames, m)
    <3>1. IsArchive(files, j.path) /\ InArchive(p, j.path) /\ SaidIn(files, NoResult.said, j.path)
      BY <1>3, <2>4, <2>6
    <3>2. PICK c : c = f.content
      OBVIOUS
    <3>3. c \in DOMAIN Contents /\ order \in InTurn(c)
      BY <1>3, <2>1, <3>2
    <3>4. EnteredWell(files, j, NoResult, c, Entered(j, NoResult, p, c, order))
      BY <1>3, <2>5, <3>1, <3>3, Enters
    <3> QED BY <3>2, <3>4 DEF EnteredWell
  <2>8. /\ jar' = [path |-> p, frames |-> jar'.frames, entries |-> jar'.entries, classes |-> jar'.classes,
                   retained |-> jar'.retained, digests |-> {}, models |-> {}]
        /\ jar'.frames \in Seq(Frames(p))
        /\ SaidIn(files, result'.said, p)
        /\ e.trouble => DOMAIN result'.said # {}
        /\ ~e.trouble => \A m \in Contents[f.content].members : Pending(jar'.frames, m)
        /\ troubled' = IF e.trouble THEN troubled \cup {p} ELSE troubled
    <3>1. jar' = e.jar /\ result' = e.result /\ troubled' = IF e.trouble THEN troubled \cup {p} ELSE troubled
      BY <2>1
    <3> HIDE DEF e
    <3>2. jar' = [path |-> p, frames |-> e.jar.frames, entries |-> e.jar.entries, classes |-> j.classes,
                  retained |-> j.retained, digests |-> {}, models |-> {}]
      BY <2>4, <2>7, <3>1
    <3>3. jar' = [path |-> p, frames |-> jar'.frames, entries |-> jar'.entries, classes |-> jar'.classes,
                  retained |-> jar'.retained, digests |-> {}, models |-> {}]
      BY <3>2
    <3> QED BY <2>4, <2>7, <3>1, <3>3
  <2> HIDE DEF e
  <2>9. jar'.path = p /\ jar'.digests = {} /\ jar'.models = {}
    BY <2>8
  <2>10. Shape(files, walk, loose, jars, jar, enumerated)'
    <3>1. JarShape(files, jar')
      BY <1>3, <2>8, <2>9, FS_EmptySet DEF JarShape
    <3>2. jar' = [path |-> jar'.path, frames |-> jar'.frames, entries |-> jar'.entries, classes |-> jar'.classes,
                  retained |-> jar'.retained, digests |-> jar'.digests, models |-> jar'.models]
      BY <2>8, <2>9
    <3> QED BY <1>1, <1>2, <2>2, <2>3, <3>1, <3>2 DEF Shape
  <2>11. Telling(files, walk.stage, result, diagnostics, jar.path, troubled)'
    BY <1>1, <1>3, <2>2, <2>3, <2>8, <2>9 DEF Telling, Heard, IsArchive
  <2>12. EachAccounted(files, walk.stage, loose, jars, jar.path, enumerated, examined, troubled)'
    BY <1>1, <1>2, <2>2, <2>3, <2>8, <2>9 DEF EachAccounted, Waits
  <2>13. Scanned(files, walk.stage, jar, examined, troubled)'
    <3> SUFFICES ASSUME p \notin troubled'
                 PROVE  \E E \in SUBSET DOMAIN Contents : Covers(examined, jar', f.content, E)
      BY <1>1, <2>3, <2>9 DEF Scanned, f
    <3>1. ~e.trouble
      BY <2>8
    <3>2. Covers(examined, jar', f.content, {f.content})
      BY <1>3, <2>8, <2>9, <3>1 DEF Covers, Followed, Dated
    <3> QED BY <1>3, <3>2
  <2> QED BY <2>10, <2>11, <2>12, <2>13 DEF AllIsWell
<1> QED BY <1>4, <1>5

\* A member that leaves trouble, in the archive's result.
LEMMA TroubleStep ==
  ASSUME AllIsWell, walk.stage = "jar", UNCHANGED <<files, walk, loose, jars, diagnostics, enumerated, examined>>,
         jar' = [path |-> jar.path, frames |-> jar'.frames, entries |-> jar'.entries, classes |-> jar'.classes,
                 retained |-> jar'.retained, digests |-> jar'.digests, models |-> jar'.models],
         JarShape(files, jar'), NEW path, InArchive(path, jar.path), NEW code,
         result' = AddDiagnostic(result, Said(path, code)), troubled' = troubled \cup {jar.path}
  PROVE  AllIsWell'
<1>1. files \in Disks /\ SaidIn(files, result.said, jar.path)
  BY DEF AllIsWell, Shape, Telling
<1>2. SaidIn(files, result'.said, jar.path) /\ DOMAIN result'.said # {}
  BY <1>1, AddIn
<1>3. jar'.path = jar.path /\ jar.path \in troubled'
  OBVIOUS
<1>4. Scanned(files, "jar", jar', examined', troubled')
  BY <1>3 DEF Scanned
<1>5. examined' = examined \cup {}
  OBVIOUS
<1> QED BY <1>2, <1>4, <1>5, JarStep

\* A member that leaves none is seen to.
LEMMA FineStep ==
  ASSUME AllIsWell, walk.stage = "jar", UNCHANGED <<files, walk, loose, jars, diagnostics, enumerated, troubled>>,
         jar' = [path |-> jar.path, frames |-> jar'.frames, entries |-> jar'.entries, classes |-> jar'.classes,
                 retained |-> jar'.retained, digests |-> jar'.digests, models |-> jar'.models],
         JarShape(files, jar'), result'.said = result.said, NEW more, examined' = examined \cup more,
         jar.models \subseteq jar'.models, NEW m, jar'.digests \subseteq jar.digests \cup {m.content},
         \A x : Pending(jar.frames, x) => x = m \/ Pending(jar'.frames, x),
         ASSUME NEW E \in SUBSET DOMAIN Contents, Dated(examined, jar.path, jar.models, jar.digests, E)
         PROVE  Priority(m) = 3 \/ SeenTo(examined', jar.path, jar'.models, E, m),
         jar'.digests \subseteq jar.digests \/ (~Contents[m.content].zip /\ Got(examined', jar.path, jar'.models, m.content))
  PROVE  AllIsWell'
<1>1. SaidIn(files, result'.said, jar.path) /\ (DOMAIN result.said # {} => DOMAIN result'.said # {})
  BY DEF AllIsWell, Telling
<1>2. jar'.path = jar.path
  OBVIOUS
<1>3. Scanned(files, "jar", jar', examined', troubled')
  <2> SUFFICES ASSUME jar.path \notin troubled
               PROVE  \E E \in SUBSET DOMAIN Contents : Covers(examined', jar', files[jar.path].content, E)
    BY <1>2 DEF Scanned
  <2>1. PICK E \in SUBSET DOMAIN Contents : Covers(examined, jar, files[jar.path].content, E)
    BY DEF AllIsWell, Scanned
  <2>2. Followed(examined, jar.path, jar.models, jar.frames, E) /\ Dated(examined, jar.path, jar.models, jar.digests, E)
    BY <2>1 DEF Covers
  <2>3. Priority(m) = 3 \/ SeenTo(examined', jar.path, jar'.models, E, m)
    BY <2>2
  <2>4. /\ \A c : Got(examined, jar.path, jar.models, c) => Got(examined', jar.path, jar'.models, c)
        /\ \A x : SeenTo(examined, jar.path, jar.models, E, x) => SeenTo(examined', jar.path, jar'.models, E, x)
    <3>1. examined \subseteq examined' /\ E \subseteq E
      OBVIOUS
    <3> QED BY <3>1, SeenToStays
  <2>5. Followed(examined', jar.path, jar'.models, jar'.frames, E)
    BY <2>2, <2>3, <2>4 DEF Followed
  <2>6. Dated(examined', jar.path, jar'.models, jar'.digests, E)
    BY <2>2, <2>4 DEF Dated
  <2>7. Followed(examined', jar.path, jar'.models, jar'.frames, E) /\ Dated(examined', jar.path, jar'.models, jar'.digests, E)
    BY <2>5, <2>6
  <2> QED BY <1>2, <2>1, <2>7 DEF Covers
<1> QED BY <1>1, <1>3, JarStep

\* An archive that is followed into.
LEMMA EnterStep ==
  ASSUME AllIsWell, walk.stage = "jar", UNCHANGED <<files, walk, loose, jars, diagnostics, enumerated, examined>>,
         jar' = [path |-> jar.path, frames |-> jar'.frames, entries |-> jar'.entries, classes |-> jar'.classes,
                 retained |-> jar'.retained, digests |-> jar'.digests, models |-> jar'.models],
         JarShape(files, jar'), SaidIn(files, result'.said, jar.path),
         DOMAIN result.said # {} => DOMAIN result'.said # {},
         jar.models = jar'.models, NEW m, m.content \in DOMAIN Contents, Contents[m.content].zip, m.kind = "archive",
         jar'.digests \subseteq jar.digests \cup {m.content},
         \A x : Pending(jar.frames, x) => x = m \/ Pending(jar'.frames, x),
         troubled' = troubled \/ (troubled' = troubled \cup {jar.path} /\ DOMAIN result'.said # {}),
         jar.path \notin troubled' => \A x \in Contents[m.content].members : Pending(jar'.frames, x)
  PROVE  AllIsWell'
<1>1. jar'.path = jar.path /\ examined' = examined \cup {}
  OBVIOUS
<1>2. Scanned(files, "jar", jar', examined', troubled')
  <2> SUFFICES ASSUME jar.path \notin troubled'
               PROVE  \E E \in SUBSET DOMAIN Contents : Covers(examined, jar', files[jar.path].content, E)
    BY <1>1 DEF Scanned
  <2>0. jar.path \notin troubled
    OBVIOUS
  <2>1. PICK E \in SUBSET DOMAIN Contents : Covers(examined, jar, files[jar.path].content, E)
    BY <2>0 DEF AllIsWell, Scanned
  <2>2. Followed(examined, jar.path, jar.models, jar.frames, E) /\ Dated(examined, jar.path, jar.models, jar.digests, E)
    BY <2>1 DEF Covers
  <2>3. PICK E2 \in SUBSET DOMAIN Contents : E2 = E \cup {m.content}
    OBVIOUS
  <2>4. SeenTo(examined, jar.path, jar.models, E2, m)
    BY <2>3 DEF SeenTo
  <2>5. \A x : SeenTo(examined, jar.path, jar.models, E, x) => SeenTo(examined, jar.path, jar.models, E2, x)
    BY <2>3 DEF SeenTo
  <2>6. Followed(examined, jar.path, jar.models, jar'.frames, E2)
    BY <2>2, <2>3, <2>4, <2>5 DEF Followed
  <2>7. Dated(examined, jar.path, jar.models, jar'.digests, E2)
    BY <2>2, <2>3 DEF Dated
  <2>8. files[jar.path].content \in E2
    BY <2>1, <2>3 DEF Covers
  <2> QED BY <1>1, <2>6, <2>7, <2>8 DEF Covers
<1> QED BY <1>1, <1>2, JarStep

LEMMA MemberKeeps == ASSUME NoPolyglots, AllIsWell, ~interrupted, Member PROVE AllIsWell'
<1> DEFINE n == Len(jar.frames)
           m == Head(Top.left)
           c == m.content
           path == Top.root \o <<Bang, m.name>>
           fresh == c \notin jar.digests
           noted == [Rest EXCEPT !.digests = IF Cardinality(@) < Limits.entries THEN @ \cup {c} ELSE @]
           retained == jar.retained + Contents[c].size
           rest == [jar.frames EXCEPT ![n].left = Tail(@)]
           D == IF Cardinality(jar.digests) < Limits.entries THEN jar.digests \cup {c} ELSE jar.digests
           Trouble(code) == result' = AddDiagnostic(result, Said(path, code)) /\ troubled' = troubled \cup {jar.path}
           Fine == result' = result /\ troubled' = troubled
           Unseen == examined' = examined
           Seen == examined' = examined \cup {<<jar.path, path, m.kind, c>>}
           JarIs(entries, classes, kept, digests, models) ==
             jar' = [path |-> jar.path, frames |-> rest, entries |-> entries, classes |-> classes,
                     retained |-> kept, digests |-> digests, models |-> models]
<1>1. /\ walk.stage = "jar" /\ jar.frames # <<>> /\ Top.left # <<>>
      /\ UNCHANGED <<files, walk, loose, jars, found, diagnostics, enumerated, interrupted>>
  BY DEF Member
<1>2. /\ Shape(files, walk, loose, jars, jar, enumerated)
      /\ Telling(files, walk.stage, result, diagnostics, jar.path, troubled)
  BY DEF AllIsWell
<1>3. /\ files \in Disks /\ JarShape(files, jar) /\ IsArchive(files, jar.path)
      /\ jar = [path |-> jar.path, frames |-> jar.frames, entries |-> jar.entries, classes |-> jar.classes,
                retained |-> jar.retained, digests |-> jar.digests, models |-> jar.models]
      /\ SaidIn(files, result.said, jar.path)
  BY <1>1, <1>2 DEF Shape, JarShape, Telling
<1>4. /\ rest \in Seq(Frames(jar.path)) /\ InArchive(Top.root, jar.path) /\ m \in AnyMember
      /\ \A x : Pending(jar.frames, x) => x = m \/ Pending(rest, x)
  BY <1>1, <1>3, Taken DEF JarShape, Top
<1>5. c \in DOMAIN Contents /\ m.name \in Nat
  BY <1>4, ContentsAssumption DEF AnyMember, Component
<1>6. Rest = [path |-> jar.path, frames |-> rest, entries |-> jar.entries, classes |-> jar.classes,
              retained |-> jar.retained, digests |-> jar.digests, models |-> jar.models]
  <2>1. Rest = [jar EXCEPT !.frames = rest]
    BY DEF Rest
  <2> HIDE DEF rest
  <2> QED BY <1>3, <2>1
<1>7. noted = [path |-> jar.path, frames |-> rest, entries |-> jar.entries, classes |-> jar.classes,
               retained |-> jar.retained, digests |-> D, models |-> jar.models]
  <2> HIDE DEF rest
  <2> QED BY <1>6
<1>8. InArchive(path, jar.path)
  <2>1. jar.path \in Seq(Component)
    BY <1>3, PathsArePaths DEF IsArchive
  <2> QED BY <1>4, <1>5, <2>1, InsideIsIn
<1>9. \/ Priority(m) = 3 /\ jar' = Rest /\ Fine /\ Unseen
      \/ jar' = Rest /\ Unseen /\ \E code : Trouble(code)
      \/ Priority(m) # 3 /\ ~fresh /\ jar' = Rest /\ Fine /\ Unseen
      \/ /\ Unseen /\ \E code : Trouble(code)
         /\ jar' = noted \/ jar' = [noted EXCEPT !.classes = @ + 1] \/ jar' = [noted EXCEPT !.classes = @ + 1, !.retained = retained]
      \/ /\ m.kind = "class" /\ Unseen /\ Fine
         /\ jar' = [noted EXCEPT !.classes = @ + 1, !.retained = retained, !.models = @ \cup {[path |-> path, content |-> c]}]
      \/ /\ m.kind \in {"source", "page"} /\ jar' = noted /\ Seen /\ troubled' = troubled
         /\ \E hits : result' = AddHits(result, jar.path, hits)
      \/ /\ m.kind = "archive" /\ Contents[c].zip /\ Unseen
         /\ \E order \in InTurn(c) : \E entered \in {Entered(noted, result, path, c, order)} :
              /\ jar' = entered.jar /\ result' = entered.result
              /\ troubled' = IF entered.trouble THEN troubled \cup {jar.path} ELSE troubled
  <2>1. CASE Priority(m) = 3
    BY <2>1 DEF Member
  <2>2. CASE Priority(m) # 3 /\ m.reads # "ok"
    <3>1. jar' = Rest /\ Trouble(IF m.reads = "budget" THEN "archiveBudget" ELSE "read") /\ Unseen
      BY <2>2 DEF Member
    <3> QED BY <3>1
  <2>3. CASE Priority(m) # 3 /\ m.reads = "ok" /\ ~fresh
    BY <2>3 DEF Member
  <2>4. CASE m.kind = "class" /\ m.reads = "ok" /\ fresh
    <3>1. Priority(m) # 3
      BY <2>4 DEF Priority
    <3>2. /\ Unseen
          /\ IF jar.classes >= Limits.classes THEN jar' = noted /\ Trouble("budget")
             ELSE IF retained > Limits.retained
             THEN jar' = [noted EXCEPT !.classes = @ + 1] /\ Trouble("budget")
             ELSE IF ParseTrouble(c) # "none"
             THEN jar' = [noted EXCEPT !.classes = @ + 1, !.retained = retained] /\ Trouble(ParseTrouble(c))
             ELSE /\ jar' = [noted EXCEPT !.classes = @ + 1, !.retained = retained,
                                          !.models = @ \cup {[path |-> path, content |-> c]}]
                  /\ Fine
      BY <2>4, <3>1 DEF Member
    <3> QED BY <2>4, <3>2
  <2>5. CASE m.kind \in {"source", "page"} /\ m.reads = "ok" /\ fresh
    <3>1. Priority(m) # 3
      BY <2>5 DEF Priority
    <3>2. /\ jar' = noted /\ Seen /\ troubled' = troubled
          /\ result' = AddHits(result, jar.path, IF m.kind = "page" THEN Contents[c].page ELSE Contents[c].source)
      BY <2>5, <3>1 DEF Member
    <3> QED BY <2>5, <3>2
  <2>6. CASE m.kind = "archive" /\ m.reads = "ok" /\ fresh
    <3>1. Priority(m) # 3
      <4>1. CASE m.lib
        BY <2>6, <4>1 DEF Priority
      <4>2. CASE ~m.lib
        BY <2>6, <4>2 DEF Priority
      <4> QED BY <4>1, <4>2
    <3>2. /\ Unseen
          /\ IF Len(jar.frames) > Limits.depth THEN jar' = noted /\ Trouble("archiveBudget")
             ELSE IF ~Contents[c].zip THEN jar' = noted /\ Trouble("read")
             ELSE \E order \in InTurn(c) : \E entered \in {Entered(noted, result, path, c, order)} :
                    /\ jar' = entered.jar /\ result' = entered.result
                    /\ troubled' = IF entered.trouble THEN troubled \cup {jar.path} ELSE troubled
      BY <2>6, <3>1 DEF Member
    <3> QED BY <2>6, <3>2
  <2>7. m.kind \notin {"class", "source", "page", "archive"} => Priority(m) = 3
    BY DEF Priority
  <2> QED BY <2>1, <2>2, <2>3, <2>4, <2>5, <2>6, <2>7
<1>10. D \subseteq jar.digests \cup {c}
  OBVIOUS
<1>11. m \in AnyMember /\ m.kind # "archive" /\ Priority(m) # 3 => ~Contents[c].zip
  <2> HIDE DEF m
  <2> QED BY DEF NoPolyglots, AnyMember
<1>12. JarShape(files, jar) /\ IsFiniteSet(jar.models)
  BY <1>3 DEF JarShape
<1> DEFINE Ready(frames, entries, classes, kept, digests, models) ==
             [path |-> jar.path, frames |-> frames, entries |-> entries, classes |-> classes,
              retained |-> kept, digests |-> digests, models |-> models]
           model == [path |-> path, content |-> c]
<1>13. ASSUME NEW k, NEW frames \in Seq(Frames(jar.path)), NEW entries, NEW classes, NEW kept, NEW digests,
              k = Ready(frames, entries, classes, kept, digests, jar.models)
       PROVE  /\ k = [path |-> jar.path, frames |-> k.frames, entries |-> k.entries, classes |-> k.classes,
                      retained |-> k.retained, digests |-> k.digests, models |-> k.models]
              /\ JarShape(files, k) /\ k.frames = frames /\ k.digests = digests /\ k.models = jar.models /\ k.path = jar.path
  BY <1>12, <1>13 DEF JarShape
<1>14. Rest = Ready(rest, jar.entries, jar.classes, jar.retained, jar.digests, jar.models)
       /\ noted = Ready(rest, jar.entries, jar.classes, jar.retained, D, jar.models)
  BY <1>6, <1>7
<1>15. [noted EXCEPT !.classes = @ + 1] = Ready(rest, jar.entries, jar.classes + 1, jar.retained, D, jar.models)
  <2> HIDE DEF noted, rest, D
  <2> QED BY <1>7
<1>16. [noted EXCEPT !.classes = @ + 1, !.retained = retained] = Ready(rest, jar.entries, jar.classes + 1, retained, D, jar.models)
  <2>1. PICK k : k = Ready(rest, jar.entries, jar.classes + 1, jar.retained, D, jar.models)
    OBVIOUS
  <2> HIDE DEF noted, rest, D, retained
  <2>2. [noted EXCEPT !.classes = @ + 1, !.retained = retained] = [[noted EXCEPT !.classes = @ + 1] EXCEPT !.retained = retained]
    OBVIOUS
  <2>3. [k EXCEPT !.retained = retained] = Ready(rest, jar.entries, jar.classes + 1, retained, D, jar.models)
    BY <2>1
  <2> HIDE DEF Ready
  <2> QED BY <1>15, <2>1, <2>2, <2>3
<1>17. [noted EXCEPT !.classes = @ + 1, !.retained = retained, !.models = @ \cup {model}] =
         Ready(rest, jar.entries, jar.classes + 1, retained, D, jar.models \cup {model})
  <2>1. PICK k : k = Ready(rest, jar.entries, jar.classes + 1, retained, D, jar.models)
    OBVIOUS
  <2>2. noted.models = jar.models
    BY <1>7
  <2> HIDE DEF noted, rest, D, retained, model
  <2>3. [noted EXCEPT !.classes = @ + 1, !.retained = retained, !.models = @ \cup {model}] =
          [[noted EXCEPT !.classes = @ + 1, !.retained = retained] EXCEPT !.models = jar.models \cup {model}]
    BY <2>2
  <2>4. [k EXCEPT !.models = jar.models \cup {model}] = Ready(rest, jar.entries, jar.classes + 1, retained, D, jar.models \cup {model})
    BY <2>1
  <2> HIDE DEF Ready
  <2> QED BY <1>16, <2>1, <2>3, <2>4
<1>18. model.path = path /\ model.content = c
  OBVIOUS
<1> HIDE DEF n, m, path, noted, retained, rest, D, model
<1>19. CASE jar' = Rest /\ Unseen /\ \E code : Trouble(code)
  <2>1. jar' = Ready(rest, jar.entries, jar.classes, jar.retained, jar.digests, jar.models)
    BY <1>14, <1>19
  <2> HIDE DEF Ready
  <2>2. JarShape(files, jar')
    BY <1>4, <1>13, <2>1
  <2>3. jar' = [path |-> jar.path, frames |-> jar'.frames, entries |-> jar'.entries, classes |-> jar'.classes,
                retained |-> jar'.retained, digests |-> jar'.digests, models |-> jar'.models]
    BY <1>4, <1>13, <2>1
  <2> QED BY <1>1, <1>8, <1>19, <2>2, <2>3, TroubleStep
<1>20. CASE /\ Unseen /\ \E code : Trouble(code)
            /\ jar' = noted \/ jar' = [noted EXCEPT !.classes = @ + 1] \/ jar' = [noted EXCEPT !.classes = @ + 1, !.retained = retained]
  <2>1. \E classes, kept : jar' = Ready(rest, jar.entries, classes, kept, D, jar.models)
    BY <1>14, <1>15, <1>16, <1>20, Zenon
  <2> HIDE DEF Ready
  <2>2. JarShape(files, jar')
    BY <1>4, <1>13, <2>1
  <2>3. jar' = [path |-> jar.path, frames |-> jar'.frames, entries |-> jar'.entries, classes |-> jar'.classes,
                retained |-> jar'.retained, digests |-> jar'.digests, models |-> jar'.models]
    BY <1>4, <1>13, <2>1
  <2> QED BY <1>1, <1>8, <1>20, <2>2, <2>3, TroubleStep
<1>21. CASE jar' = Rest /\ Fine /\ Unseen /\ (Priority(m) = 3 \/ (Priority(m) # 3 /\ ~fresh))
  <2>1. jar' = Ready(rest, jar.entries, jar.classes, jar.retained, jar.digests, jar.models)
    BY <1>14, <1>21
  <2> HIDE DEF Ready
  <2>2. /\ JarShape(files, jar') /\ jar'.frames = rest /\ jar'.digests = jar.digests /\ jar'.models = jar.models
        /\ jar' = [path |-> jar.path, frames |-> jar'.frames, entries |-> jar'.entries, classes |-> jar'.classes,
                   retained |-> jar'.retained, digests |-> jar'.digests, models |-> jar'.models]
    BY <1>4, <1>13, <2>1
  <2>3. ASSUME NEW E \in SUBSET DOMAIN Contents, Dated(examined, jar.path, jar.models, jar.digests, E)
        PROVE  Priority(m) = 3 \/ SeenTo(examined', jar.path, jar'.models, E, m)
    <3> SUFFICES ASSUME Priority(m) # 3 PROVE SeenTo(examined', jar.path, jar'.models, E, m)
      OBVIOUS
    <3>1. c \in jar.digests
      BY <1>21
    <3>2. (Contents[c].zip => c \in E) /\ (~Contents[c].zip => Got(examined, jar.path, jar.models, c))
      BY <2>3, <3>1 DEF Dated
    <3>3. m.kind # "archive" => ~Contents[c].zip
      BY <1>4, <1>11
    <3> QED BY <1>21, <2>2, <3>2, <3>3 DEF SeenTo
  <2>4. examined' = examined \cup {}
    BY <1>21
  <2>5. \A x : Pending(jar.frames, x) => x = m \/ Pending(jar'.frames, x)
    BY <1>4, <2>2
  <2>6. result'.said = result.said /\ troubled' = troubled
    BY <1>21
  <2>7. jar.models \subseteq jar'.models /\ jar'.digests \subseteq jar.digests /\ jar'.digests \subseteq jar.digests \cup {m.content}
    BY <2>2
  <2> QED BY <1>1, <2>2, <2>3, <2>4, <2>5, <2>6, <2>7, FineStep
<1>22. CASE /\ m.kind = "class" /\ Unseen /\ Fine
            /\ jar' = [noted EXCEPT !.classes = @ + 1, !.retained = retained, !.models = @ \cup {model}]
  <2>1. jar' = Ready(rest, jar.entries, jar.classes + 1, retained, D, jar.models \cup {model})
    BY <1>17, <1>22
  <2>2. /\ jar'.path = jar.path /\ jar'.frames = rest /\ jar'.digests = D /\ jar'.models = jar.models \cup {model}
        /\ jar' = [path |-> jar.path, frames |-> jar'.frames, entries |-> jar'.entries, classes |-> jar'.classes,
                   retained |-> jar'.retained, digests |-> jar'.digests, models |-> jar'.models]
    BY <2>1
  <2>3. JarShape(files, jar')
    <3>1. IsFiniteSet(jar.models \cup {model})
      BY <1>12, FS_AddElement
    <3> QED BY <1>4, <1>5, <1>8, <1>12, <1>18, <2>2, <3>1 DEF JarShape
  <2>4. Got(examined', jar.path, jar'.models, c)
    BY <1>18, <2>2 DEF Got
  <2>5. ~Contents[c].zip /\ m.kind # "archive"
    <3>1. Priority(m) # 3
      BY <1>22 DEF Priority
    <3> QED BY <1>4, <1>11, <1>22, <3>1
  <2>6. SeenTo(examined', jar.path, jar'.models, {}, m) /\ \A E : SeenTo(examined', jar.path, jar'.models, E, m)
    BY <2>4, <2>5 DEF SeenTo
  <2>7. examined' = examined \cup {} /\ result'.said = result.said /\ troubled' = troubled
    BY <1>22
  <2>8. \A x : Pending(jar.frames, x) => x = m \/ Pending(jar'.frames, x)
    BY <1>4, <2>2
  <2>9. jar.models \subseteq jar'.models /\ jar'.digests \subseteq jar.digests \cup {m.content}
    BY <1>10, <2>2
  <2> QED BY <1>1, <2>2, <2>3, <2>4, <2>5, <2>6, <2>7, <2>8, <2>9, FineStep
<1>23. CASE /\ m.kind \in {"source", "page"} /\ jar' = noted /\ Seen /\ troubled' = troubled
            /\ \E hits : result' = AddHits(result, jar.path, hits)
  <2>1. jar' = Ready(rest, jar.entries, jar.classes, jar.retained, D, jar.models)
    BY <1>14, <1>23
  <2> HIDE DEF Ready
  <2>2. /\ JarShape(files, jar') /\ jar'.frames = rest /\ jar'.digests = D /\ jar'.models = jar.models
        /\ jar' = [path |-> jar.path, frames |-> jar'.frames, entries |-> jar'.entries, classes |-> jar'.classes,
                   retained |-> jar'.retained, digests |-> jar'.digests, models |-> jar'.models]
    BY <1>4, <1>13, <2>1
  <2>4. Got(examined', jar.path, jar'.models, c)
    <3>1. PICK e : e = <<jar.path, path, m.kind, c>>
      OBVIOUS
    <3>2. e \in examined' /\ e[1] = jar.path /\ e[4] = c
      BY <1>23, <3>1
    <3> QED BY <3>2 DEF Got, Had
  <2>5. ~Contents[c].zip /\ m.kind # "archive"
    <3>1. Priority(m) # 3
      BY <1>23 DEF Priority
    <3> QED BY <1>4, <1>11, <1>23, <3>1
  <2>6. \A E : SeenTo(examined', jar.path, jar'.models, E, m)
    BY <2>4, <2>5 DEF SeenTo
  <2>7. result'.said = result.said
    BY <1>23, FindingsSayNothing DEF AddHits
  <2>8. \A x : Pending(jar.frames, x) => x = m \/ Pending(jar'.frames, x)
    BY <1>4, <2>2
  <2>9. jar.models \subseteq jar'.models /\ jar'.digests \subseteq jar.digests \cup {m.content}
    BY <1>10, <2>2
  <2> QED BY <1>1, <1>23, <2>2, <2>4, <2>5, <2>6, <2>7, <2>8, <2>9, FineStep
<1>24. CASE /\ m.kind = "archive" /\ Contents[c].zip /\ Unseen
            /\ \E order \in InTurn(c) : \E entered \in {Entered(noted, result, path, c, order)} :
                 /\ jar' = entered.jar /\ result' = entered.result
                 /\ troubled' = IF entered.trouble THEN troubled \cup {jar.path} ELSE troubled
  <2>1. PICK order \in InTurn(c) :
           /\ jar' = Entered(noted, result, path, c, order).jar
           /\ result' = Entered(noted, result, path, c, order).result
           /\ troubled' = IF Entered(noted, result, path, c, order).trouble THEN troubled \cup {jar.path} ELSE troubled
    BY <1>24
  <2>2. /\ JarShape(files, noted) /\ noted.frames = rest /\ noted.digests = D /\ noted.models = jar.models /\ noted.path = jar.path
        /\ noted = [path |-> jar.path, frames |-> noted.frames, entries |-> noted.entries, classes |-> noted.classes,
                    retained |-> noted.retained, digests |-> noted.digests, models |-> noted.models]
    <3> HIDE DEF Ready
    <3> QED BY <1>4, <1>13, <1>14
  <2>3. EnteredWell(files, noted, result, c, Entered(noted, result, path, c, order))
    <3>1. noted.frames \in Seq(Frames(noted.path)) /\ IsArchive(files, noted.path) /\ SaidIn(files, result.said, noted.path)
          /\ InArchive(path, noted.path)
      BY <1>3, <1>4, <1>8, <2>2
    <3>2. noted = [path |-> noted.path, frames |-> noted.frames, entries |-> noted.entries, classes |-> noted.classes,
                   retained |-> noted.retained, digests |-> noted.digests, models |-> noted.models]
      BY <2>2
    <3>3. PICK k, b : k = c /\ b = path
      OBVIOUS
    <3>4. k \in DOMAIN Contents /\ order \in InTurn(k) /\ InArchive(b, noted.path)
      BY <1>5, <2>1, <3>1, <3>3
    <3>5. EnteredWell(files, noted, result, k, Entered(noted, result, b, k, order))
      BY <1>3, <3>1, <3>2, <3>4, Enters
    <3> QED BY <3>3, <3>5
  <2> DEFINE e == Entered(noted, result, path, c, order)
  <2>4. jar' = e.jar /\ result' = e.result /\ troubled' = IF e.trouble THEN troubled \cup {jar.path} ELSE troubled
    BY <2>1
  <2> HIDE DEF e
  <2>5. /\ jar' = [path |-> jar.path, frames |-> jar'.frames, entries |-> jar'.entries, classes |-> noted.classes,
                   retained |-> noted.retained, digests |-> D, models |-> jar.models]
        /\ jar'.frames \in Seq(Frames(jar.path)) /\ SaidIn(files, result'.said, jar.path)
        /\ e.trouble \/ DOMAIN result.said # {} => DOMAIN result'.said # {}
        /\ \A x : Pending(rest, x) => Pending(jar'.frames, x)
        /\ ~e.trouble => \A x \in Contents[c].members : Pending(jar'.frames, x)
    BY <2>2, <2>3, <2>4 DEF EnteredWell, e
  <2>6. /\ jar'.path = jar.path /\ jar'.digests = D /\ jar'.models = jar.models
        /\ jar' = [path |-> jar.path, frames |-> jar'.frames, entries |-> jar'.entries, classes |-> jar'.classes,
                   retained |-> jar'.retained, digests |-> jar'.digests, models |-> jar'.models]
    BY <2>5
  <2>7. JarShape(files, jar')
    BY <1>12, <2>5, <2>6 DEF JarShape
  <2>8. \A x : Pending(jar.frames, x) => x = m \/ Pending(jar'.frames, x)
    BY <1>4, <2>5
  <2>9. /\ troubled' = troubled \/ (troubled' = troubled \cup {jar.path} /\ DOMAIN result'.said # {})
        /\ jar.path \notin troubled' => \A x \in Contents[m.content].members : Pending(jar'.frames, x)
        /\ DOMAIN result.said # {} => DOMAIN result'.said # {}
    BY <2>4, <2>5
  <2>10. jar'.digests \subseteq jar.digests \cup {m.content} /\ jar.models = jar'.models
    BY <1>10, <2>6
  <2>11. m.content \in DOMAIN Contents /\ Contents[m.content].zip /\ m.kind = "archive" /\ examined' = examined
    BY <1>5, <1>24
  <2>12. SaidIn(files, result'.said, jar.path)
    BY <2>5
  <2> QED BY <1>1, <2>6, <2>7, <2>8, <2>9, <2>10, <2>11, <2>12, EnterStep
<1> QED BY <1>9, <1>19, <1>20, <1>21, <1>22, <1>23, <1>24 DEF model

LEMMA CloseJarKeeps == ASSUME AllIsWell, ~interrupted, CloseJar PROVE AllIsWell'
<1>1. /\ walk.stage = "jar" /\ jar.frames = <<>> /\ jar' = NoJar /\ result' = NoResult
      /\ walk' = [walk EXCEPT !.stage = "jars"]
      /\ UNCHANGED <<files, loose, jars, enumerated, interrupted>>
  BY DEF CloseJar, Goes
<1>2. PICK order \in InOrder(jar.models) :
        LET about == Decoded(jar.path, order)
            last == GroupResult(result, about, jar.path)
        IN  /\ diagnostics' = diagnostics \cup Flushed(last)
            /\ troubled' = IF about.troubled # {} THEN troubled \cup {jar.path} ELSE troubled
            /\ examined' = examined \cup {<<jar.path, m.path, "class", m.content>> : m \in about.reached}
  BY DEF CloseJar
<1> DEFINE about == Decoded(jar.path, order)
           last == GroupResult(result, about, jar.path)
           A == Aggregated(about.said)
<1>3. /\ Shape(files, walk, loose, jars, jar, enumerated)
      /\ Telling(files, walk.stage, result, diagnostics, jar.path, troubled)
      /\ EachAccounted(files, walk.stage, loose, jars, jar.path, enumerated, examined, troubled)
      /\ Scanned(files, walk.stage, jar, examined, troubled)
  BY DEF AllIsWell
<1>4. /\ files \in Disks /\ JarShape(files, jar) /\ IsArchive(files, jar.path)
      /\ walk \in [root : Nat, stage : {"walk", "loose", "groups", "jars", "jar", "end"}]
      /\ SaidIn(files, result.said, jar.path)
      /\ \A q \in troubled : q \in DOMAIN files /\ (Noted(files, diagnostics, q) \/ (q = jar.path /\ DOMAIN result.said # {}))
  BY <1>1, <1>3 DEF Shape, JarShape, Telling, Heard
<1>5. walk' \in [root : Nat, stage : {"walk", "loose", "groups", "jars", "jar", "end"}] /\ walk'.stage = "jars"
  BY <1>1, <1>4
<1>6. SaidIn(files, A, jar.path) /\ (about.troubled # {} => DOMAIN A # {})
  BY <1>4, JarTells DEF JarShape
<1>7. \A m \in jar.models : m \in about.reached \/ m.path \in about.troubled
  <2>1. Classes(jar.models)
    BY <1>4 DEF JarShape, Classes
  <2> QED BY <2>1, DecodedSays
<1>8. \E r : r.said = result.said /\ last = AddDiagnostics(r, A)
  BY FindingsSayNothing DEF GroupResult
<1>9. /\ diagnostics' = diagnostics \cup Flushed(last)
      /\ troubled' = IF about.troubled # {} THEN troubled \cup {jar.path} ELSE troubled
      /\ examined' = examined \cup {<<jar.path, m.path, "class", m.content>> : m \in about.reached}
  BY <1>2
<1> HIDE DEF about, last, A
<1>10. SaidIn(files, last.said, jar.path) /\ (DOMAIN result.said # {} \/ about.troubled # {} => DOMAIN last.said # {})
  BY <1>4, <1>6, <1>8, ArchiveAdds
<1>11. DOMAIN last.said # {} => Noted(files, diagnostics', jar.path)
  <2>1. DOMAIN last.said # {} => Noted(files, Flushed(last), jar.path)
    BY <1>4, <1>10, FlushIn
  <2>2. diagnostics' = Flushed(last) \cup diagnostics
    BY <1>9
  <2> QED BY <2>1, <2>2, NotedStays
<1>12. \A q \in troubled' : q \in DOMAIN files /\ Noted(files, diagnostics', q)
  BY <1>4, <1>9, <1>10, <1>11, NotedStays DEF IsArchive
<1>13. Telling(files, walk.stage, result, diagnostics, jar.path, troubled)'
  BY <1>1, <1>5, <1>12 DEF Telling, Heard
<1>14. Shape(files, walk, loose, jars, jar, enumerated)'
  <2>1. jar' = [path |-> jar'.path, frames |-> jar'.frames, entries |-> jar'.entries, classes |-> jar'.classes,
                retained |-> jar'.retained, digests |-> jar'.digests, models |-> jar'.models]
    BY <1>1 DEF NoJar
  <2> QED BY <1>1, <1>3, <1>5, <2>1 DEF Shape
<1>15. ASSUME jar.path \notin troubled' PROVE Whole(examined', jar.path, files[jar.path].content)
  <2>1. jar.path \notin troubled /\ about.troubled = {}
    BY <1>9, <1>15
  <2>2. PICK E \in SUBSET DOMAIN Contents : Covers(examined, jar, files[jar.path].content, E)
    BY <1>1, <1>3, <2>1 DEF Scanned
  <2>3. ASSUME NEW c, Got(examined, jar.path, jar.models, c) PROVE Had(examined', jar.path, c)
    <3>1. CASE Had(examined, jar.path, c)
      BY <1>9, <3>1 DEF Had
    <3>2. ASSUME NEW x \in jar.models, x.content = c PROVE Had(examined', jar.path, c)
      <4>1. PICK e : e = <<jar.path, x.path, "class", x.content>>
        OBVIOUS
      <4>2. e \in examined' /\ e[1] = jar.path /\ e[4] = c
        BY <1>7, <1>9, <2>1, <3>2, <4>1
      <4> QED BY <4>2 DEF Had
    <3> QED BY <2>3, <3>1, <3>2 DEF Got
  <2>4. \A m : ~Pending(jar.frames, m)
    BY <1>1 DEF Pending
  <2>5. \A c \in E : \A m \in Contents[c].members :
          Priority(m) = 3 \/ (IF m.kind = "archive" THEN Contents[m.content].zip => m.content \in E
                              ELSE Had(examined', jar.path, m.content))
    BY <2>2, <2>3, <2>4 DEF Covers, Followed, SeenTo
  <2>6. files[jar.path].content \in E
    BY <2>2 DEF Covers
  <2> QED BY <2>5, <2>6, FollowedIsWhole
<1>16. ASSUME NEW q \in enumerated
       PROVE  q \in troubled' \/ Through(files, examined', q) \/ Waits("jars", loose, jars, NoPath, q)
  <2>1. q \in troubled \/ Through(files, examined, q) \/ Waits("jar", loose, jars, jar.path, q)
    BY <1>1, <1>3, <1>16 DEF EachAccounted
  <2>2. Through(files, examined, q) => Through(files, examined', q)
    BY <1>9, ThroughStays
  <2>3. q = jar.path => q \in troubled' \/ Through(files, examined', q)
    BY <1>4, <1>15 DEF Through
  <2> QED BY <1>9, <2>1, <2>2, <2>3 DEF Waits
<1>17. EachAccounted(files, walk.stage, loose, jars, jar.path, enumerated, examined, troubled)'
  BY <1>1, <1>5, <1>16 DEF EachAccounted, Waits
<1>18. Scanned(files, walk.stage, jar, examined, troubled)'
  BY <1>5 DEF Scanned
<1> QED BY <1>13, <1>14, <1>17, <1>18 DEF AllIsWell

-----------------------------------------------------------------------------
(* The directories that could not be listed, and the kinds that were met.   *)

\* Each directory that could not be listed is in the record, by itself.
ShutTold == /\ files \in Disks /\ aside \in Asides /\ enumerated \subseteq DOMAIN files
        /\ pages \subseteq DOMAIN aside.signed /\ unlisted \subseteq aside.shut
        /\ \A k \in unlisted : Said(k, "read") \in diagnostics

LEMMA ShutToldStays == ASSUME ShutTold, [ArtifactsNext]_artifactVars PROVE ShutTold'
<1>1. CASE Walk
  <2>1. UNCHANGED <<files, aside>>
    BY <1>1 DEF Walk
  <2>2. PICK seen : /\ enumerated' = enumerated \cup (seen \cap DOMAIN files)
                    /\ unlisted' = unlisted \cup (seen \cap aside.shut)
                    /\ \E more : diagnostics' = diagnostics \cup {Said(k, "read") : k \in seen \cap aside.shut} \cup more
                    /\ pages' = pages \/ pages' = seen \cap DOMAIN aside.signed
    BY <1>1 DEF Walk
  <2> QED BY <2>1, <2>2 DEF ShutTold
<1>2. ASSUME UNCHANGED <<files, aside, unlisted, enumerated>>, pages' \subseteq pages, diagnostics \subseteq diagnostics' PROVE ShutTold'
  BY <1>2 DEF ShutTold
<1>3. CASE \E p : SignedPage(p)
  <2>1. PICK p : SignedPage(p)
    BY <1>3
  <2>2. UNCHANGED <<files, aside, unlisted, enumerated>> /\ pages' \subseteq pages /\ diagnostics \subseteq diagnostics'
    BY <2>1 DEF SignedPage
  <2> QED BY <1>2, <2>2
<1>4. ASSUME UNCHANGED <<files, asideVars, enumerated>>, diagnostics \subseteq diagnostics' PROVE ShutTold'
  BY <1>2, <1>4 DEF asideVars
<1>5. ASSUME UNCHANGED artifactVars \/ Interrupt \/ LooseRead \/ LooseDone \/ Leave \/ NextRoot PROVE ShutTold'
  BY <1>4, <1>5 DEF artifactVars, Interrupt, LooseRead, LooseDone, Leave, NextRoot
<1>6. CASE Member
  BY <1>4, <1>6 DEF Member
<1>7. CASE CloseJar
  BY <1>4, <1>7 DEF CloseJar
<1>8. ASSUME NEW p, Loose(p) \/ OpenJar(p) \/ StopLoose(p) \/ Group(p) PROVE ShutTold'
  <2>1. CASE Loose(p)
    BY <1>4, <2>1 DEF Loose
  <2>2. CASE OpenJar(p)
    BY <1>4, <2>2 DEF OpenJar
  <2>3. CASE StopLoose(p)
    BY <1>4, <2>3 DEF StopLoose
  <2>4. CASE Group(p)
    BY <1>4, <2>4 DEF Group
  <2> QED BY <1>8, <2>1, <2>2, <2>3, <2>4
<1> QED BY <1>1, <1>3, <1>5, <1>6, <1>7, <1>8 DEF ArtifactsNext

\* Of an artifact that is called complete nothing may be hidden.
LEMMA NothingHides ==
  ASSUME ShutTold, NEW p \in enumerated, ArtifactStatus(p) = "complete", NEW k \in unlisted
  PROVE  ~Under(k, p) /\ \E q \in enumerated : Under(k, q)
<1>1. k \in Seq(Component) /\ k # NoPath /\ k \notin enumerated
  <2>1. k \in aside.shut /\ files \in Disks /\ aside \in Asides /\ enumerated \subseteq DOMAIN files
    BY DEF ShutTold
  <2> QED BY <2>1, AsidesAssumption
<1>2. PICK d \in diagnostics : d = Said(k, "read")
  BY DEF ShutTold
<1>3. Physical(d.artifact) = k /\ d.artifact = k /\ d.count = 1
  BY <1>1, <1>2, LooseIsItself DEF Said
<1>4. p \notin DiagnosticScope(d).files
  BY DEF ArtifactStatus
<1> DEFINE inside == {q \in enumerated : Under(k, q)}
<1>5. DiagnosticScope(d).files = IF inside # {} THEN inside ELSE enumerated
  BY <1>1, <1>3 DEF DiagnosticScope
<1> QED BY <1>4, <1>5

\* The archives entered by so many steps, the first being the archive itself.
Level(top, i) == IF i = 1 THEN {top} ELSE IF i = 2 THEN NestedIn(top) ELSE UNION {NestedIn(d) : d \in NestedIn(top)}
FromLevels(top, frames) ==
  \A i \in DOMAIN frames : i \in 1 .. 3 /\ \A k \in DOMAIN frames[i].left :
    \E c \in Level(top, i) : frames[i].left[k] \in Contents[c].members

\* What was examined was examined as it is called.
Called(fs, phase, lo, j, ex) ==
  /\ \A e \in ex : e[1] \in DOMAIN fs =>
       IF IsArchive(fs, e[1]) THEN e[3] \in KindsOf(fs[e[1]].content, e[4]) ELSE e[3] = fs[e[1]].kind
  /\ \A m \in lo.groups : fs[m.path].kind = "class"
  /\ phase = "jar" => /\ FromLevels(fs[j.path].content, j.frames)
                      /\ \A x \in j.models : "class" \in KindsOf(fs[j.path].content, x.content)

LEMMA LevelsReach ==
  ASSUME NEW top \in DOMAIN Contents, NEW i \in 1 .. 3, NEW c \in Level(top, i)
  PROVE  /\ c \in DOMAIN Contents /\ c \in Reachable(top)
         /\ \A m \in Contents[c].members :
              /\ m.kind = "archive" /\ i < 3 => m.content \in Level(top, i + 1)
              /\ m.kind # "archive" /\ Priority(m) # 3 => m.kind \in KindsOf(top, m.content)
<1>1. \A d \in DOMAIN Contents : NestedIn(d) \subseteq DOMAIN Contents
  BY ContentsAssumption DEF NestedIn
<1>2. c \in DOMAIN Contents /\ c \in Reachable(top)
  <2>1. CASE i = 1
    BY <2>1 DEF Level, Reachable
  <2>2. CASE i = 2
    BY <1>1, <2>2 DEF Level, Reachable
  <2>3. CASE i = 3
    <3>1. PICK d \in NestedIn(top) : c \in NestedIn(d)
      BY <2>3 DEF Level
    <3> QED BY <1>1, <3>1 DEF Reachable
  <2> QED BY <2>1, <2>2, <2>3
<1>3. ASSUME NEW m \in Contents[c].members, m.kind = "archive", i < 3 PROVE m.content \in Level(top, i + 1)
  <2>1. m.content \in NestedIn(c)
    BY <1>3 DEF NestedIn
  <2>2. CASE i = 1
    BY <2>1, <2>2 DEF Level
  <2>3. CASE i = 2
    BY <2>1, <2>3 DEF Level
  <2> QED BY <1>3, <2>2, <2>3
<1>4. ASSUME NEW m \in Contents[c].members, m.kind # "archive", Priority(m) # 3 PROVE m.kind \in KindsOf(top, m.content)
  <2>1. m \in Inside[c]
    BY <1>2, <1>4 DEF Inside
  <2> QED BY <1>2, <2>1 DEF KindsOf
<1> QED BY <1>2, <1>3, <1>4

\* An archive that is entered is of the next level.
JarFields(j) == j = [path |-> j.path, frames |-> j.frames, entries |-> j.entries, classes |-> j.classes,
                     retained |-> j.retained, digests |-> j.digests, models |-> j.models]
OfNextLevel(top, j, e) == FromLevels(top, e.jar.frames) /\ e.jar.models = j.models

LEMMA EntersALevel ==
  ASSUME NEW j, JarFields(j),
         NEW S, j.frames \in Seq(S), NEW top, FromLevels(top, j.frames), Len(j.frames) <= 2,
         NEW c \in DOMAIN Contents, c \in Level(top, Len(j.frames) + 1), NEW order \in InTurn(c), NEW r, NEW root
  PROVE  OfNextLevel(top, j, Entered(j, r, root, c, order))
<1> DEFINE e == Entered(j, r, root, c, order)
           frame == [root |-> root, left |-> order]
           more == Append(j.frames, frame)
           n == Cardinality(Contents[c].members)
<1>1. e.jar = j \/ e.jar = [j EXCEPT !.entries = @ + n, !.frames = Append(@, frame)]
  BY DEF Entered
<1>2. \/ e.jar.frames = j.frames /\ e.jar.models = j.models
      \/ e.jar.frames = more /\ e.jar.models = j.models
  <2>1. ASSUME NEW k, k = [j EXCEPT !.entries = @ + n, !.frames = Append(@, frame)]
        PROVE  k = [path |-> j.path, frames |-> more, entries |-> j.entries + n, classes |-> j.classes,
                    retained |-> j.retained, digests |-> j.digests, models |-> j.models]
    BY <2>1 DEF JarFields
  <2> HIDE DEF e
  <2> QED BY <1>1, <2>1
<1>3. /\ Len(j.frames) \in Nat /\ DOMAIN j.frames = 1 .. Len(j.frames) /\ DOMAIN more = 1 .. Len(j.frames) + 1
      /\ more[Len(j.frames) + 1] = frame /\ \A i \in 1 .. Len(j.frames) : more[i] = j.frames[i]
  <2> DEFINE T == S \cup {frame}
  <2>1. frame \in T /\ j.frames \in Seq(T) /\ Len(j.frames) \in Nat /\ DOMAIN j.frames = 1 .. Len(j.frames)
    BY SeqDef, LenProperties
  <2> HIDE DEF T, frame
  <2>2. more \in Seq(T) /\ Len(more) = Len(j.frames) + 1 /\ more[Len(j.frames) + 1] = frame
        /\ \A i \in 1 .. Len(j.frames) : more[i] = j.frames[i]
    BY <2>1, AppendProperties
  <2> QED BY <2>1, <2>2, LenProperties
<1>4. \A k \in DOMAIN order : order[k] \in Contents[c].members
  <2>1. Accepted(c) \subseteq Contents[c].members
    BY DEF Accepted
  <2>2. order \in [1 .. Cardinality(Accepted(c)) -> Accepted(c)]
    BY DEF InTurn, Listings
  <2> QED BY <2>1, <2>2
<1>5. FromLevels(top, more)
  <2>1. ASSUME NEW i \in DOMAIN more
        PROVE  i \in 1 .. 3 /\ \A k \in DOMAIN more[i].left : \E d \in Level(top, i) : more[i].left[k] \in Contents[d].members
    <3>1. CASE i \in 1 .. Len(j.frames)
      <4>1. more[i] = j.frames[i] /\ i \in DOMAIN j.frames
        BY <1>3, <3>1
      <4> HIDE DEF more
      <4> QED BY <4>1 DEF FromLevels
    <3>2. CASE i = Len(j.frames) + 1
      <4>1. more[i].left = order /\ i \in 1 .. 3
        BY <1>3, <3>2
      <4> HIDE DEF more
      <4> QED BY <1>4, <3>2, <4>1
    <3> QED BY <1>3, <2>1, <3>1, <3>2
  <2> HIDE DEF more
  <2> QED BY <2>1 DEF FromLevels
<1> HIDE DEF e, more
<1> QED BY <1>2, <1>5 DEF e, OfNextLevel

\* The archive on top is of the level it is at, and what is left of it when one is taken.
LEMMA TakenOfItsLevel ==
  ASSUME NEW p, NEW frames \in Seq(Frames(p)), frames # <<>>, NEW n, n = Len(frames), frames[n].left # <<>>,
         NEW top, FromLevels(top, frames)
  PROVE  /\ n \in 1 .. 3 /\ \E c \in Level(top, n) : Head(frames[n].left) \in Contents[c].members
         /\ FromLevels(top, [frames EXCEPT ![n].left = Tail(@)])
<1> DEFINE rest == [frames EXCEPT ![n].left = Tail(@)]
           l == frames[n].left
<1>1. n \in Nat /\ n \in 1 .. n /\ DOMAIN frames = 1 .. n /\ l \in Seq(AnyMember)
  <2>1. n \in Nat /\ n # 0 /\ DOMAIN frames = 1 .. n
    BY EmptySeq, LenProperties
  <2>2. frames[n] \in Frames(p)
    BY <2>1, ElementOfSeq
  <2> QED BY <2>1, <2>2 DEF Frames
<1>2. n \in 1 .. 3 /\ \A k \in DOMAIN l : \E c \in Level(top, n) : l[k] \in Contents[c].members
  BY <1>1 DEF FromLevels
<1> DEFINE t == Tail(l)
<1>3. /\ Head(l) = l[1] /\ Len(l) \in Nat /\ Len(l) # 0 /\ DOMAIN l = 1 .. Len(l) /\ DOMAIN t = 1 .. Len(l) - 1
      /\ \A i \in 1 .. Len(l) - 1 : t[i] = l[i + 1]
  <2>1. t \in Seq(AnyMember) /\ Len(t) = Len(l) - 1 /\ \A i \in 1 .. Len(t) : t[i] = l[i + 1]
    BY <1>1, HeadTailProperties
  <2> QED BY <1>1, <2>1, LenProperties, EmptySeq
<1>4. DOMAIN rest = 1 .. n /\ (\A i \in 1 .. n : i # n => rest[i] = frames[i]) /\ rest[n].left = t
  <2>1. frames[n] = [root |-> frames[n].root, left |-> frames[n].left]
    <3>1. frames[n] \in Frames(p)
      BY <1>1, ElementOfSeq
    <3> QED BY <3>1 DEF Frames
  <2>2. DOMAIN rest = 1 .. n /\ (\A i \in 1 .. n : i # n => rest[i] = frames[i]) /\ rest[n] = [frames[n] EXCEPT !.left = t]
    BY <1>1
  <2> HIDE DEF rest, t
  <2> QED BY <2>1, <2>2
<1> HIDE DEF rest, t
<1>5. ASSUME NEW i \in 1 .. n, NEW k \in DOMAIN rest[i].left
      PROVE  \E c \in Level(top, i) : rest[i].left[k] \in Contents[c].members
  <2>1. CASE i # n
    BY <1>1, <1>4, <1>5, <2>1 DEF FromLevels
  <2>2. CASE i = n
    <3>1. k \in 1 .. Len(l) - 1 /\ rest[i].left[k] = l[k + 1] /\ k + 1 \in DOMAIN l
      BY <1>3, <1>4, <1>5, <2>2
    <3> QED BY <1>2, <2>2, <3>1
  <2> QED BY <2>1, <2>2
<1>6. \A i \in 1 .. n : i \in 1 .. 3
  BY <1>2
<1>7. FromLevels(top, rest)
  BY <1>4, <1>5, <1>6 DEF FromLevels
<1>8. \E c \in Level(top, n) : Head(l) \in Contents[c].members
  BY <1>2, <1>3
<1> QED BY <1>2, <1>7, <1>8 DEF rest

LEMMA MemberCalls ==
  ASSUME AllIsWell, Called(files, walk.stage, loose, jar, examined), ~interrupted, Member
  PROVE  Called(files, walk.stage, loose, jar, examined)'
<1> DEFINE n == Len(jar.frames)
           m == Head(Top.left)
           c == m.content
           path == Top.root \o <<Bang, m.name>>
           fresh == c \notin jar.digests
           noted == [Rest EXCEPT !.digests = IF Cardinality(@) < Limits.entries THEN @ \cup {c} ELSE @]
           rest == [jar.frames EXCEPT ![n].left = Tail(@)]
           top == files[jar.path].content
           retained == jar.retained + Contents[c].size
           D == IF Cardinality(jar.digests) < Limits.entries THEN jar.digests \cup {c} ELSE jar.digests
           Same(k) == k.path = jar.path /\ k.frames = rest
           model == [path |-> path, content |-> c]
<1>1. /\ walk.stage = "jar" /\ jar.frames # <<>> /\ Top.left # <<>> /\ UNCHANGED <<files, walk, loose>>
  BY DEF Member
<1>2. /\ files \in Disks /\ JarShape(files, jar) /\ IsArchive(files, jar.path) /\ top \in DOMAIN Contents
      /\ jar = [path |-> jar.path, frames |-> jar.frames, entries |-> jar.entries, classes |-> jar.classes,
                retained |-> jar.retained, digests |-> jar.digests, models |-> jar.models]
  BY <1>1, DisksAssumption DEF AllIsWell, Shape, JarShape, IsArchive
<1>3. /\ FromLevels(top, jar.frames) /\ \A x \in jar.models : "class" \in KindsOf(top, x.content)
      /\ \A e \in examined : e[1] \in DOMAIN files =>
           IF IsArchive(files, e[1]) THEN e[3] \in KindsOf(files[e[1]].content, e[4]) ELSE e[3] = files[e[1]].kind
      /\ \A x \in loose.groups : files[x.path].kind = "class"
  BY <1>1 DEF Called
<1>4. n \in 1 .. 3 /\ (\E d \in Level(top, n) : m \in Contents[d].members) /\ FromLevels(top, rest)
      /\ rest \in Seq(Frames(jar.path))
  <2>1. jar.frames \in Seq(Frames(jar.path)) /\ jar.frames[n].left # <<>>
    BY <1>1, <1>2 DEF JarShape, Top
  <2> QED BY <1>1, <1>3, <2>1, Taken, TakenOfItsLevel DEF Top
<1>5. /\ m.kind # "archive" /\ Priority(m) # 3 => m.kind \in KindsOf(top, c)
      /\ m.kind = "archive" /\ n < 3 => c \in Level(top, n + 1) /\ c \in DOMAIN Contents
  <2>1. PICK d \in Level(top, n) : m \in Contents[d].members
    BY <1>4
  <2> HIDE DEF m, n, top
  <2>2. m.content \in DOMAIN Contents
    BY <1>2, <1>4, <2>1, LevelsReach, ContentsAssumption
  <2> QED BY <1>2, <1>4, <2>1, <2>2, LevelsReach
<1>6. /\ Rest = [path |-> jar.path, frames |-> rest, entries |-> jar.entries, classes |-> jar.classes,
                 retained |-> jar.retained, digests |-> jar.digests, models |-> jar.models]
      /\ noted = [path |-> jar.path, frames |-> rest, entries |-> jar.entries, classes |-> jar.classes,
                  retained |-> jar.retained, digests |-> D, models |-> jar.models]
  <2>1. Rest = [jar EXCEPT !.frames = rest]
    BY DEF Rest
  <2> HIDE DEF rest
  <2>2. Rest = [path |-> jar.path, frames |-> rest, entries |-> jar.entries, classes |-> jar.classes,
                retained |-> jar.retained, digests |-> jar.digests, models |-> jar.models]
    BY <1>2, <2>1
  <2> QED BY <2>2
<1>7. \/ Same(jar') /\ jar'.models = jar.models /\ examined' = examined
      \/ Same(jar') /\ jar'.models = jar.models \cup {model} /\ examined' = examined /\ m.kind = "class"
      \/ /\ Same(jar') /\ jar'.models = jar.models /\ m.kind \in {"source", "page"}
         /\ examined' = examined \cup {<<jar.path, path, m.kind, c>>}
      \/ /\ m.kind = "archive" /\ examined' = examined /\ ~(n > Limits.depth)
         /\ \E order \in InTurn(c) : jar' = Entered(noted, result, path, c, order).jar
  <2>0. /\ Same(Rest) /\ Rest.models = jar.models /\ Same(noted) /\ noted.models = jar.models
        /\ Same([noted EXCEPT !.classes = @ + 1]) /\ [noted EXCEPT !.classes = @ + 1].models = jar.models
    <3> HIDE DEF rest, D, noted
    <3> QED BY <1>6
  <2>8. /\ Same([noted EXCEPT !.classes = @ + 1, !.retained = retained])
        /\ [noted EXCEPT !.classes = @ + 1, !.retained = retained].models = jar.models
        /\ Same([noted EXCEPT !.classes = @ + 1, !.retained = retained, !.models = @ \cup {model}])
        /\ [noted EXCEPT !.classes = @ + 1, !.retained = retained, !.models = @ \cup {model}].models = jar.models \cup {model}
    <3> HIDE DEF rest, D, retained, model, noted
    <3> QED BY <1>6
  <2> HIDE DEF Same
  <2>1. CASE Priority(m) = 3
    <3>1. m.kind \notin {"class", "source", "page"}
      BY <2>1 DEF Priority
    <3>2. m.kind # "archive"
      <4>1. CASE m.lib
        BY <2>1, <4>1 DEF Priority
      <4>2. CASE ~m.lib
        BY <2>1, <4>2 DEF Priority
      <4> QED BY <4>1, <4>2
    <3>3. jar' = Rest /\ examined' = examined
      BY <2>1, <3>1, <3>2 DEF Member
    <3> HIDE DEF m, noted
    <3> QED BY <2>0, <3>3
  <2>2. CASE Priority(m) # 3 /\ m.reads # "ok"
    <3>1. jar' = Rest /\ examined' = examined
      BY <2>2 DEF Member
    <3> HIDE DEF m, noted
    <3> QED BY <2>0, <3>1
  <2>3. CASE Priority(m) # 3 /\ m.reads = "ok" /\ ~fresh
    BY <2>0, <2>3 DEF Member
  <2>4. CASE m.kind = "class" /\ m.reads = "ok" /\ fresh
    <3>1. Priority(m) # 3
      BY <2>4 DEF Priority
    <3>2. /\ examined' = examined
          /\ IF jar.classes >= Limits.classes THEN jar' = noted
             ELSE IF retained > Limits.retained THEN jar' = [noted EXCEPT !.classes = @ + 1]
             ELSE IF ParseTrouble(c) # "none" THEN jar' = [noted EXCEPT !.classes = @ + 1, !.retained = retained]
             ELSE jar' = [noted EXCEPT !.classes = @ + 1, !.retained = retained, !.models = @ \cup {model}]
      BY <2>4, <3>1 DEF Member
    <3> HIDE DEF noted, retained, model
    <3> QED BY <2>0, <2>4, <2>8, <3>2
  <2>5. CASE m.kind \in {"source", "page"} /\ m.reads = "ok" /\ fresh
    <3>1. Priority(m) # 3
      BY <2>5 DEF Priority
    <3>2. jar' = noted /\ examined' = examined \cup {<<jar.path, path, m.kind, c>>}
      BY <2>5, <3>1 DEF Member
    <3> HIDE DEF noted
    <3> QED BY <2>0, <2>5, <3>2
  <2>6. CASE m.kind = "archive" /\ m.reads = "ok" /\ fresh
    <3>1. Priority(m) # 3
      <4>1. CASE m.lib
        BY <2>6, <4>1 DEF Priority
      <4>2. CASE ~m.lib
        BY <2>6, <4>2 DEF Priority
      <4> QED BY <4>1, <4>2
    <3>2. /\ examined' = examined
          /\ IF Len(jar.frames) > Limits.depth THEN jar' = noted
             ELSE IF ~Contents[c].zip THEN jar' = noted
             ELSE \E order \in InTurn(c) : \E entered \in {Entered(noted, result, path, c, order)} : jar' = entered.jar
      BY <2>6, <3>1 DEF Member
    <3> HIDE DEF noted
    <3> QED BY <2>0, <2>6, <3>2
  <2>7. m.kind \notin {"class", "source", "page", "archive"} => Priority(m) = 3
    BY DEF Priority
  <2> QED BY <2>1, <2>2, <2>3, <2>4, <2>5, <2>6, <2>7
<1>8. m.kind = "class" \/ m.kind \in {"source", "page"} => Priority(m) # 3 /\ m.kind # "archive"
  BY DEF Priority
<1>9. model.content = c
  OBVIOUS
<1>10. ASSUME m.kind = "archive", ~(n > Limits.depth), NEW order \in InTurn(c)
       PROVE  LET j == Entered(noted, result, path, c, order).jar
              IN  j.path = jar.path /\ FromLevels(top, j.frames) /\ j.models = jar.models
  <2>1. n < 3 /\ n <= 2
    BY <1>4, <1>10, LimitsAssumption
  <2>2. /\ noted = [path |-> noted.path, frames |-> noted.frames, entries |-> noted.entries, classes |-> noted.classes,
                    retained |-> noted.retained, digests |-> noted.digests, models |-> noted.models]
        /\ noted.frames = rest /\ noted.path = jar.path /\ noted.models = jar.models
    <3> HIDE DEF rest, D, noted
    <3> QED BY <1>6
  <2>3. Len(rest) = n
    <3>1. DOMAIN rest = 1 .. n
      BY <1>1, <1>2, LenProperties DEF JarShape
    <3> QED BY <1>4, <3>1, LenProperties
  <2> HIDE DEF noted, rest, m, path, top
  <2>4. c \in DOMAIN Contents /\ c \in Level(top, Len(noted.frames) + 1) /\ Len(noted.frames) <= 2
    BY <1>5, <1>10, <2>1, <2>2, <2>3
  <2> DEFINE e == Entered(noted, result, path, c, order)
  <2>5. FromLevels(top, e.jar.frames) /\ e.jar.models = noted.models
    <3>1. PICK S : S = Frames(jar.path) /\ noted.frames \in Seq(S)
      BY <1>4, <2>2
    <3>2. FromLevels(top, noted.frames)
      BY <1>4, <2>2
    <3>3. PICK x, k, r, j, t : x = path /\ k = c /\ r = result /\ j = noted /\ t = top
      OBVIOUS
    <3>4. /\ k \in DOMAIN Contents /\ k \in Level(t, Len(j.frames) + 1) /\ order \in InTurn(k)
          /\ FromLevels(t, j.frames) /\ Len(j.frames) <= 2 /\ j.frames \in Seq(S)
      BY <1>10, <2>4, <3>1, <3>2, <3>3
    <3>5. JarFields(j)
      BY <2>2, <3>3 DEF JarFields
    <3> HIDE DEF e
    <3>6. OfNextLevel(t, j, Entered(j, r, x, k, order))
      BY <3>4, <3>5, EntersALevel
    <3> QED BY <3>3, <3>6 DEF e, OfNextLevel
  <2>6. e.jar.path = jar.path
    <3>1. e.jar = noted \/ e.jar = [noted EXCEPT !.entries = @ + Cardinality(Contents[c].members), !.frames = Append(@, [root |-> path, left |-> order])]
      BY DEF Entered
    <3> HIDE DEF e
    <3> QED BY <2>2, <3>1
  <2> QED BY <2>2, <2>5, <2>6
<1> HIDE DEF m, n, rest, noted, path, top, model
<1>11. jar'.path = jar.path /\ FromLevels(top, jar'.frames) /\ \A x \in jar'.models : "class" \in KindsOf(top, x.content)
  BY <1>3, <1>4, <1>5, <1>7, <1>8, <1>9, <1>10
<1>12. \A e \in examined' : e[1] \in DOMAIN files =>
         IF IsArchive(files, e[1]) THEN e[3] \in KindsOf(files[e[1]].content, e[4]) ELSE e[3] = files[e[1]].kind
  <2>1. ASSUME m.kind \in {"source", "page"}, NEW e, e = <<jar.path, path, m.kind, c>>
        PROVE  IsArchive(files, e[1]) /\ e[3] \in KindsOf(files[e[1]].content, e[4])
    BY <1>2, <1>5, <1>8, <2>1 DEF top
  <2> QED BY <1>3, <1>7, <2>1
<1> QED BY <1>1, <1>3, <1>11, <1>12 DEF Called, top

LEMMA OpensALevel ==
  ASSUME NEW p, NEW c \in DOMAIN Contents, NEW order \in InTurn(c), NEW r,
         NEW e, e = Entered([NoJar EXCEPT !.path = p], r, p, c, order)
  PROVE  e.jar.path = p /\ e.jar.models = {} /\ FromLevels(c, e.jar.frames)
<1>1. PICK k : k = [NoJar EXCEPT !.path = p]
  OBVIOUS
<1>2. k = [path |-> p, frames |-> <<>>, entries |-> 0, classes |-> 0, retained |-> 0, digests |-> {}, models |-> {}]
  <2>1. NoJar = [path |-> NoPath, frames |-> <<>>, entries |-> 0, classes |-> 0, retained |-> 0, digests |-> {}, models |-> {}]
    BY DEF NoJar
  <2>2. PICK no : no = NoJar
    OBVIOUS
  <2>3. k = [no EXCEPT !.path = p]
    BY <1>1, <2>2
  <2> QED BY <2>1, <2>2, <2>3
<1>3. /\ k = [path |-> k.path, frames |-> k.frames, entries |-> k.entries, classes |-> k.classes,
              retained |-> k.retained, digests |-> k.digests, models |-> k.models]
      /\ k.frames = <<>> /\ k.models = {} /\ k.path = p
  BY <1>2
<1>4. k.frames \in Seq({p}) /\ Len(k.frames) = 0 /\ FromLevels(c, k.frames)
  <2>1. <<>> \in Seq({p}) /\ Len(<<>>) = 0 /\ DOMAIN <<>> = {}
    BY EmptySeq
  <2> QED BY <1>3, <2>1 DEF FromLevels
<1>5. c \in Level(c, Len(k.frames) + 1) /\ Len(k.frames) <= 2
  BY <1>4 DEF Level
<1>6. FromLevels(c, Entered(k, r, p, c, order).jar.frames) /\ Entered(k, r, p, c, order).jar.models = k.models
  <2>1. PICK S, t, root : S = {p} /\ t = c /\ root = p
    OBVIOUS
  <2>2. /\ c \in Level(t, Len(k.frames) + 1) /\ Len(k.frames) <= 2
        /\ FromLevels(t, k.frames) /\ k.frames \in Seq(S)
    BY <1>4, <1>5, <2>1
  <2>3. JarFields(k)
    BY <1>3 DEF JarFields
  <2>4. OfNextLevel(t, k, Entered(k, r, root, c, order))
    BY <2>2, <2>3, EntersALevel
  <2> QED BY <2>1, <2>4 DEF OfNextLevel
<1>7. e.jar.path = p
  <2>1. \/ e.jar = k
        \/ e.jar = [k EXCEPT !.entries = @ + Cardinality(Contents[c].members), !.frames = Append(@, [root |-> p, left |-> order])]
    BY <1>1 DEF Entered
  <2> QED BY <1>3, <2>1
<1> QED BY <1>1, <1>3, <1>6, <1>7

LEMMA OpenJarCalls ==
  ASSUME AllIsWell, Called(files, walk.stage, loose, jar, examined), NEW p \in DOMAIN files, OpenJar(p)
  PROVE  Called(files, walk.stage, loose, jar, examined)'
<1> DEFINE f == files[p]
           j == [NoJar EXCEPT !.path = p]
           opens == ~interrupted /\ f.readable /\ Contents[f.content].zip
<1>1. UNCHANGED <<files, loose, examined>>
  BY DEF OpenJar
<1>2. f.content \in DOMAIN Contents
  BY DisksAssumption DEF AllIsWell, Shape
<1>3. \/ walk' = walk /\ walk.stage = "jars"
      \/ \E order \in InTurn(f.content) : jar' = Entered(j, NoResult, p, f.content, order).jar
  <2>1. opens \/ (walk' = walk /\ walk.stage = "jars")
    BY DEF OpenJar
  <2>2. opens => \E order \in InTurn(f.content) : jar' = Entered(j, NoResult, p, f.content, order).jar
    BY DEF OpenJar
  <2> QED BY <2>1, <2>2
<1>4. CASE walk' = walk /\ walk.stage = "jars"
  BY <1>1, <1>4 DEF Called
<1>5. ASSUME NEW order \in InTurn(f.content), jar' = Entered(j, NoResult, p, f.content, order).jar
      PROVE  Called(files, walk.stage, loose, jar, examined)'
  <2>1. jar'.path = p /\ jar'.models = {} /\ FromLevels(files[p].content, jar'.frames)
    BY <1>2, <1>5, OpensALevel
  <2> QED BY <1>1, <2>1 DEF Called
<1> QED BY <1>3, <1>4, <1>5

\* In a scan that nobody has stopped, everything is examined as it is called.
LEMMA CalledStays ==
  ASSUME AllIsWell, ShutTold, Called(files, walk.stage, loose, jar, examined), ~interrupted, ArtifactsNext
  PROVE  Called(files, walk.stage, loose, jar, examined)'
<1> DEFINE Named(e) == e[1] \in DOMAIN files =>
             IF IsArchive(files, e[1]) THEN e[3] \in KindsOf(files[e[1]].content, e[4]) ELSE e[3] = files[e[1]].kind
<1>1. /\ files \in Disks /\ \A e \in examined : Named(e)
      /\ \A m \in loose.groups : files[m.path].kind = "class"
      /\ walk \in [root : Nat, stage : {"walk", "loose", "groups", "jars", "jar", "end"}]
  BY DEF AllIsWell, Shape, Called
<1>2. ASSUME files' = files, walk'.stage # "jar", \A e \in examined' : Named(e),
             \A m \in loose'.groups : files[m.path].kind = "class"
      PROVE  Called(files, walk.stage, loose, jar, examined)'
  BY <1>2 DEF Called
<1> HIDE DEF Named
<1>3. ASSUME Interrupt PROVE Called(files, walk.stage, loose, jar, examined)'
  BY <1>3 DEF Interrupt, Called
<1>4. ASSUME Walk PROVE Called(files, walk.stage, loose, jar, examined)'
  <2>1. walk' = [walk EXCEPT !.stage = "loose"] /\ UNCHANGED <<files, examined>> /\ \E left : loose' = [NoLoose EXCEPT !.left = left]
    BY <1>4 DEF Walk, Goes
  <2>2. walk'.stage = "loose" /\ loose'.groups = {}
    BY <1>1, <2>1 DEF NoLoose
  <2> QED BY <1>1, <1>2, <2>1, <2>2
<1>5. ASSUME LooseRead \/ LooseDone \/ NextRoot PROVE Called(files, walk.stage, loose, jar, examined)'
  <2>1. /\ UNCHANGED <<files, examined>> /\ (loose' = loose \/ loose' = NoLoose)
        /\ \/ walk' = [walk EXCEPT !.stage = "groups"] \/ walk' = [walk EXCEPT !.stage = "jars"]
           \/ walk' = [walk EXCEPT !.stage = "end"] \/ walk' = [root |-> walk.root + 1, stage |-> "walk"]
    BY <1>5 DEF LooseRead, LooseDone, NextRoot, Goes
  <2>2. walk'.stage \in {"groups", "jars", "end", "walk"} /\ \A m \in loose'.groups : files[m.path].kind = "class"
    BY <1>1, <2>1 DEF NoLoose
  <2> QED BY <1>1, <1>2, <2>1, <2>2
<1>6. ASSUME NEW p \in DOMAIN files, Loose(p) PROVE Called(files, walk.stage, loose, jar, examined)'
  <2>1. /\ walk.stage = "loose" /\ p \in loose.left /\ UNCHANGED <<files, walk>>
        /\ loose'.groups = loose.groups \/ (loose'.groups = loose.groups \cup {[path |-> p, content |-> files[p].content]} /\ files[p].kind = "class")
        /\ examined' = examined \/ examined' = examined \cup {<<p, p, files[p].kind, files[p].content>>}
    BY <1>6 DEF Loose, IsEarliest
  <2>2. ~IsArchive(files, p)
    BY <2>1 DEF AllIsWell, Shape, IsLoose
  <2>3. \A e : e = <<p, p, files[p].kind, files[p].content>> => Named(e)
    BY <2>2 DEF Named
  <2>4. (\A e \in examined' : Named(e)) /\ \A m \in loose'.groups : files[m.path].kind = "class"
    BY <1>1, <2>1, <2>3
  <2> QED BY <1>2, <2>1, <2>4
<1>7. ASSUME NEW key, Group(key) PROVE Called(files, walk.stage, loose, jar, examined)'
  <2> DEFINE models == {m \in loose.groups : files[m.path].group = key}
  <2>1. /\ walk.stage = "groups" /\ UNCHANGED <<files, walk>> /\ loose'.groups = loose.groups \ models
        /\ \E order \in InOrder(models) :
             examined' = examined \cup {<<m.path, m.path, "class", m.content>> : m \in Decoded(key, order).reached}
    <3>1. loose = [left |-> loose.left, groups |-> loose.groups, classes |-> loose.classes, retained |-> loose.retained]
      BY DEF AllIsWell, Shape
    <3>2. /\ walk.stage = "groups" /\ UNCHANGED <<files, walk>> /\ loose' = [loose EXCEPT !.groups = @ \ models]
          /\ \E order \in InOrder(models) :
               examined' = examined \cup {<<m.path, m.path, "class", m.content>> : m \in Decoded(key, order).reached}
      BY <1>7 DEF Group
    <3> HIDE DEF models
    <3>3. loose'.groups = loose.groups \ models
      BY <3>1, <3>2
    <3> QED BY <3>2, <3>3
  <2>2. PICK order \in InOrder(models) :
          examined' = examined \cup {<<m.path, m.path, "class", m.content>> : m \in Decoded(key, order).reached}
    BY <2>1
  <2>3. Classes(models) /\ models \subseteq loose.groups
    <3>1. GroupsShape(files, loose.groups)
      BY DEF AllIsWell, Shape
    <3>2. models \subseteq loose.groups /\ IsFiniteSet(models)
      BY <3>1, FS_Subset DEF GroupsShape
    <3> QED BY <3>1, <3>2 DEF GroupsShape, Classes
  <2> HIDE DEF models
  <2>4. PICK reached : reached = Decoded(key, order).reached /\ reached \subseteq models
    BY <2>3, DecodedSays
  <2>5. ASSUME NEW m \in models, NEW e, e = <<m.path, m.path, "class", m.content>> PROVE Named(e)
    <3>1. files[m.path].kind = "class"
      BY <1>1, <2>3
    <3> QED BY <2>5, <3>1 DEF Named, IsArchive
  <2>6. \A e \in examined' : Named(e)
    BY <1>1, <2>2, <2>4, <2>5
  <2> QED BY <1>1, <1>2, <2>1, <2>6
<1>8. ASSUME NEW p \in pages, SignedPage(p) PROVE Called(files, walk.stage, loose, jar, examined)'
  <2>1. /\ walk.stage = "jars" /\ UNCHANGED <<files, walk, loose>>
        /\ \E k, c : examined' = examined \/ examined' = examined \cup {<<p, p, k, c>>}
    BY <1>8 DEF SignedPage
  <2>2. p \notin DOMAIN files
    BY AsidesAssumption DEF ShutTold
  <2>3. \A e, k, c : e = <<p, p, k, c>> => Named(e)
    BY <2>2 DEF Named
  <2> QED BY <1>1, <1>2, <2>1, <2>3
<1>9. ASSUME Leave PROVE Called(files, walk.stage, loose, jar, examined)'
  <2>1. /\ walk.stage = "jar" /\ jar.frames # <<>> /\ UNCHANGED <<files, walk, loose, examined>>
        /\ jar' = [jar EXCEPT !.frames = SubSeq(@, 1, Len(@) - 1)]
    BY <1>9 DEF Leave
  <2>2. /\ jar.frames \in Seq(Frames(jar.path))
        /\ jar = [path |-> jar.path, frames |-> jar.frames, entries |-> jar.entries, classes |-> jar.classes,
                  retained |-> jar.retained, digests |-> jar.digests, models |-> jar.models]
    BY <2>1 DEF AllIsWell, Shape, JarShape
  <2>3. PICK n, rest : n \in Nat /\ n = Len(jar.frames) /\ DOMAIN jar.frames = 1 .. n /\ rest = SubSeq(jar.frames, 1, n - 1)
    BY <2>2, LenProperties
  <2>4. DOMAIN rest = 1 .. n - 1 /\ \A i \in 1 .. n - 1 : rest[i] = jar.frames[i] /\ i \in 1 .. n
    <3>1. rest = [i \in 1 .. n - 1 |-> jar.frames[i]]
      BY <2>2, <2>3
    <3> QED BY <2>3, <3>1
  <2>5. jar'.path = jar.path /\ jar'.models = jar.models /\ jar'.frames = rest
    <3>1. jar' = [jar EXCEPT !.frames = rest]
      BY <2>1, <2>3
    <3> QED BY <2>2, <3>1
  <2>6. \A top : FromLevels(top, jar.frames) => FromLevels(top, rest)
    BY <2>3, <2>4 DEF FromLevels
  <2> QED BY <2>1, <2>5, <2>6 DEF Called
<1>10. ASSUME CloseJar PROVE Called(files, walk.stage, loose, jar, examined)'
  <2>1. /\ walk.stage = "jar" /\ UNCHANGED <<files, loose>> /\ walk' = [walk EXCEPT !.stage = "jars"]
        /\ \E order \in InOrder(jar.models) :
             examined' = examined \cup {<<jar.path, m.path, "class", m.content>> : m \in Decoded(jar.path, order).reached}
    BY <1>10 DEF CloseJar, Goes
  <2>2. PICK order \in InOrder(jar.models) :
          examined' = examined \cup {<<jar.path, m.path, "class", m.content>> : m \in Decoded(jar.path, order).reached}
    BY <2>1
  <2>3. Classes(jar.models) /\ IsArchive(files, jar.path)
        /\ \A x \in jar.models : "class" \in KindsOf(files[jar.path].content, x.content)
    BY <2>1 DEF AllIsWell, Shape, JarShape, Classes, Called
  <2>4. PICK reached : reached = Decoded(jar.path, order).reached /\ reached \subseteq jar.models
    BY <2>3, DecodedSays
  <2>5. ASSUME NEW m \in jar.models, NEW e, e = <<jar.path, m.path, "class", m.content>> PROVE Named(e)
    BY <2>3, <2>5 DEF Named
  <2>6. \A e \in examined' : Named(e)
    BY <1>1, <2>2, <2>4, <2>5
  <2>7. walk'.stage = "jars"
    BY <1>1, <2>1
  <2> QED BY <1>1, <1>2, <2>1, <2>6, <2>7
<1>11. \A p : ~StopLoose(p)
  BY DEF StopLoose
<1>12. Member => Called(files, walk.stage, loose, jar, examined)'
  BY MemberCalls
<1>13. \A p \in DOMAIN files : OpenJar(p) => Called(files, walk.stage, loose, jar, examined)'
  BY OpenJarCalls
<1> QED BY <1>3, <1>4, <1>5, <1>6, <1>7, <1>8, <1>9, <1>10, <1>11, <1>12, <1>13 DEF ArtifactsNext

\* A scan that nobody stopped: each artifact that is not in what a diagnostic reaches has
\* been analyzed end to end, as what it is called.
LEMMA WellIsTrue ==
  ASSUME ShutTold, (AllIsWell /\ Called(files, walk.stage, loose, jar, examined)) \/ interrupted PROVE CompleteIsTrue
<1> DEFINE Examines(p) ==
             /\ p \notin troubled
             /\ files[p].kind # "archive" => \E e \in examined : e[1] = p /\ e[3] = files[p].kind
             /\ files[p].kind = "archive" =>
                  \A c \in Reachable(files[p].content) : \A m \in Inside[c] :
                    \E e \in examined : e[1] = p /\ e[4] = m.content /\ e[3] \in KindsOf(files[p].content, m.content)
<1> SUFFICES ASSUME AllIsWell, Called(files, walk.stage, loose, jar, examined), walk.stage = "end",
                    NEW p \in enumerated, ArtifactStatus(p) = "complete"
             PROVE  Examines(p)
  BY NothingHides DEF CompleteIsTrue
<1>1. /\ Shape(files, walk, loose, jars, jar, enumerated)
      /\ Telling(files, walk.stage, result, diagnostics, jar.path, troubled)
      /\ EachAccounted(files, walk.stage, loose, jars, jar.path, enumerated, examined, troubled)
  BY DEF AllIsWell
<1>2. files \in Disks /\ enumerated \subseteq DOMAIN files /\ jars = {} /\ loose.left = {} /\ loose.groups = {}
  BY <1>1 DEF Shape
<1>3. {d \in diagnostics : p \in DiagnosticScope(d).files} = {}
  BY DEF ArtifactStatus
<1>4. p \notin troubled
  <2>1. ASSUME p \in troubled PROVE \E d \in diagnostics : About(files, d, p)
    BY <1>1, <2>1 DEF Telling, Heard, Noted
  <2> QED BY <1>2, <1>3, <2>1, AboutReaches
<1>5. Through(files, examined, p)
  BY <1>1, <1>2, <1>4 DEF EachAccounted, Waits
<1>6. \A e \in examined : e[1] = p =>
        IF IsArchive(files, p) THEN e[3] \in KindsOf(files[p].content, e[4]) ELSE e[3] = files[p].kind
  BY <1>2 DEF Called
<1>7. CASE IsArchive(files, p)
  BY <1>4, <1>5, <1>6, <1>7 DEF Through, IsArchive, Whole, Had
<1>8. CASE ~IsArchive(files, p)
  BY <1>2, <1>4, <1>5, <1>6, <1>8 DEF Through, IsArchive, Examined
<1> QED BY <1>7, <1>8

\* An artifact that a scan nobody stopped calls complete has been analyzed end to end,
\* whatever there is in the roots and whatever the limits: nothing went wrong in it;
\* each class, source and page in it, in archives as deep as they are followed, has
\* been examined, as what a member of the artifact is called; and no directory that could
\* not be listed may hide a part of it. No content may be an archive and, by another
\* name, something else that is looked into: a content is read once, as what it is
\* called first.
THEOREM CompleteMeansExamined == ASSUME NoPolyglots PROVE ArtifactsSpec => []CompleteIsTrue
<1> DEFINE Well == AllIsWell /\ Called(files, walk.stage, loose, jar, examined)
           Inv == ShutTold /\ (Well \/ interrupted)
<1>1. ArtifactsInit => Inv
  <2>1. ArtifactsInit => ShutTold
    BY DEF ArtifactsInit, ShutTold
  <2>2. ArtifactsInit => Called(files, walk.stage, loose, jar, examined)
    BY DEF ArtifactsInit, Called, NoLoose
  <2> QED BY <2>1, <2>2, WellAtFirst
<1>2. Inv /\ [ArtifactsNext]_artifactVars => Inv'
  <2>0. Inv /\ [ArtifactsNext]_artifactVars => ShutTold'
    BY ShutToldStays
  <2> SUFFICES ASSUME Inv, [ArtifactsNext]_artifactVars, ~interrupted' PROVE Well'
    BY <2>0
  <2>1. CASE UNCHANGED artifactVars
    <3>1. Well
      BY <2>1 DEF artifactVars
    <3>2. AllIsWell' <=> AllIsWell
      BY <2>1 DEF artifactVars, asideVars, AllIsWell
    <3>3. Called(files, walk.stage, loose, jar, examined)'
      BY <2>1, <3>1 DEF artifactVars, Called
    <3> QED BY <3>1, <3>2, <3>3
  <2>2. CASE ArtifactsNext
    <3>1. \/ interrupted' \/ Walk \/ LooseRead \/ LooseDone \/ Member \/ Leave \/ CloseJar \/ NextRoot
          \/ \E p \in DOMAIN files : Loose(p) \/ OpenJar(p) \/ StopLoose(p)
          \/ \E p \in pages : SignedPage(p)
          \/ \E m \in loose.groups : Group(files[m.path].group) \/ StopLoose(files[m.path].group)
      BY <2>2 DEF ArtifactsNext, Interrupt
    <3>2. ~interrupted
      <4>1. /\ Walk => interrupted' = interrupted
            /\ LooseRead => interrupted' = interrupted
            /\ LooseDone => interrupted' = interrupted
            /\ Leave => interrupted' = interrupted
            /\ NextRoot => interrupted' = interrupted
        BY DEF Walk, LooseRead, LooseDone, Leave, NextRoot
      <4>2. Member => interrupted' = interrupted
        BY DEF Member
      <4>3. CloseJar => interrupted' = interrupted
        BY DEF CloseJar
      <4>4. \A p : /\ Loose(p) => interrupted' = interrupted
                   /\ OpenJar(p) => interrupted' = interrupted
                   /\ StopLoose(p) => interrupted' = interrupted
                   /\ Group(p) => interrupted' = interrupted
        BY DEF Loose, OpenJar, StopLoose, Group
      <4>5. \A p : SignedPage(p) => interrupted' = interrupted
        BY DEF SignedPage
      <4> QED BY <3>1, <4>1, <4>2, <4>3, <4>4, <4>5
    <3>3. \A p : ~StopLoose(p)
      BY <3>2 DEF StopLoose
    <3>4. AllIsWell /\ Called(files, walk.stage, loose, jar, examined)
      BY <3>2
    <3>5. ASSUME NEW p \in DOMAIN files, Loose(p) \/ OpenJar(p) PROVE AllIsWell'
      BY <3>2, <3>4, <3>5, LooseKeeps, OpenJarKeeps
    <3>6. ASSUME NEW key, Group(key) PROVE AllIsWell'
      BY <3>2, <3>4, <3>6, GroupKeeps
    <3>7. ASSUME NEW p, SignedPage(p) PROVE AllIsWell'
      BY <3>4, <3>7, SignedPageKeeps
    <3>8. AllIsWell'
      BY <3>1, <3>2, <3>3, <3>4, <3>5, <3>6, <3>7, WalkKeeps, LooseReadKeeps, LooseDoneKeeps, MemberKeeps, LeaveKeeps,
         CloseJarKeeps, NextRootKeeps
    <3>9. Called(files, walk.stage, loose, jar, examined)'
      BY <2>2, <3>2, <3>4, CalledStays
    <3> QED BY <3>8, <3>9
  <2> QED BY <2>1, <2>2
<1>3. Inv => CompleteIsTrue
  BY WellIsTrue
<1> QED BY <1>1, <1>2, <1>3, PTL DEF ArtifactsSpec

=============================================================================
