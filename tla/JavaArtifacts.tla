--------------------------- MODULE JavaArtifacts ---------------------------
(***************************************************************************)
(* The Java pass over the artifacts of the web roots: loose classes and     *)
(* sources (AnalyzePaths), pages known by their content                     *)
(* (analyzeAsJSPSource), archives and the archives in them (archive.go),    *)
(* the groups of classes that are analyzed together (prepareArtifact and    *)
(* analyzeClassesContext), the diagnostics they leave, aggregated by code,  *)
(* and the coverage of each artifact read back from them (deobfscan.go).    *)
(* What the analyses find in a content is data. The texts of diagnostics,   *)
(* their bounded length included, are left out.                             *)
(***************************************************************************)
EXTENDS Naturals, Sequences, FiniteSets, SequencesExt

CONSTANTS Roots,      \* the web roots, in their order: paths
          Disks,      \* what may be there: path of an artifact -> [kind, readable, size, content, group]
          Asides,     \* and beside it: [shut: directories that cannot be listed to their end,
                      \* signed: path of a file -> [reads, size, content]]
          Contents,   \* content -> what it is as a class, a source, a page and an archive
          Limits      \* [entries, depth, classes, retained, artifact, instructions, findings]

\* A path is the sequence of its components; a member of an archive follows a Bang.
Bang == 0
NoPath == <<>>
Under(dir, path) == IsStrictPrefix(dir, path)

Component == Nat \ {Bang}

\* A class is grouped with others below a directory, or alone. Artifacts have absolute
\* paths, and the name of a class is none.
ASSUME DisksAssumption ==
  \A d \in Disks : \A p \in DOMAIN d :
    /\ p \in Seq(Component) /\ p # NoPath
    /\ d[p].content \in DOMAIN Contents
    /\ d[p].group = p \/ (d[p].group \in Seq(Component) \ DOMAIN d /\ Under(d[p].group, p))
    /\ \A c \in DOMAIN Contents : ~IsPrefix(<<Contents[c].name>>, p)
ASSUME AsidesAssumption ==
  \A a \in Asides : a.shut \subseteq Seq(Component) \ {NoPath}
                    /\ \A d \in Disks : (a.shut \cup DOMAIN a.signed) \cap DOMAIN d = {}

\* Only what opens as an archive has members.
ASSUME ContentsAssumption ==
  \A c \in DOMAIN Contents :
    /\ Contents[c].name \in Component /\ Contents[c].work \in Nat
    /\ IsFiniteSet(Contents[c].members)
    /\ Contents[c].members # {} => Contents[c].zip
    /\ \A m \in Contents[c].members : m.name \in Component /\ m.content \in DOMAIN Contents
\* validateLimits: archives are followed into archives twice at most.
ASSUME LimitsAssumption == Limits.instructions \in Nat /\ Limits.depth \in 0 .. 2

VARIABLES
  files,       \* the artifacts there are
  aside,       \* what there is beside them
  walk,        \* [root: which root, stage: "walk", "loose", "groups", "jars", "jar", "end"]
  loose,       \* [left, groups, classes, retained]: AnalyzePaths
  jar,         \* [path, frames, entries, classes, retained, digests, models]: an archive's scan
  pages,       \* files of this root that claim nothing, or a page by a compound name, and hold one
  jars,        \* archives of this root to come
  result,      \* the result under way: code -> [artifact, count], and what was found
  found,       \* findings, as [artifact, rule]
  diagnostics, \* what the results have left
  enumerated,  \* the artifacts walked over
  unlisted,    \* ghost: the directories met that could not be listed
  interrupted, \* the probe was told to stop
  examined,    \* ghost: <<artifact, member, kind, content>>
  troubled     \* ghost: the artifacts some occurrence was about

asideVars == <<aside, pages, unlisted>>
artifactVars == <<files, asideVars, walk, loose, jar, jars, result, found, diagnostics, enumerated, interrupted, examined, troubled>>

NoLoose == [left |-> {}, groups |-> {}, classes |-> 0, retained |-> 0]
NoJar == [path |-> NoPath, frames |-> <<>>, entries |-> 0, classes |-> 0, retained |-> 0, digests |-> {}, models |-> {}]
NoResult == [said |-> <<>>, found |-> {}, full |-> FALSE]

ArtifactsInit ==
  /\ files \in Disks /\ aside \in Asides /\ pages = {} /\ unlisted = {}
  /\ walk = [root |-> 1, stage |-> "walk"] /\ loose = NoLoose /\ jar = NoJar /\ jars = {} /\ result = NoResult
  /\ found = {} /\ diagnostics = {} /\ enumerated = {} /\ interrupted = FALSE
  /\ examined = {} /\ troubled = {}

\* SIGTERM, which the scan sends a probe that is late.
Interrupt == /\ ~interrupted /\ walk.stage # "end" /\ interrupted' = TRUE
             /\ UNCHANGED <<files, asideVars, walk, loose, jar, jars, result, found, diagnostics, enumerated, examined, troubled>>

-----------------------------------------------------------------------------
(* Paths and diagnostics.                                                   *)

Before(p, q) ==
  \/ IsStrictPrefix(p, q)
  \/ \E i \in DOMAIN p \cap DOMAIN q : p[i] < q[i] /\ SubSeq(p, 1, i - 1) = SubSeq(q, 1, i - 1)
IsEarliest(p, paths) == p \in paths /\ \A q \in paths \ {p} : Before(p, q)

Said(artifact, code) == [artifact |-> artifact, code |-> code, count |-> 1]

\* addDiagnostic: per code the least artifact and how often.
Merged(d, e) == [artifact |-> IF Before(d.artifact, e.artifact) THEN d.artifact ELSE e.artifact,
                 count |-> d.count + e.count]
AddDiagnostics(r, ds) ==
  [said |-> [c \in DOMAIN r.said \cup DOMAIN ds |->
               IF c \notin DOMAIN ds THEN r.said[c]
               ELSE IF c \notin DOMAIN r.said THEN ds[c] ELSE Merged(ds[c], r.said[c])],
   found |-> r.found, full |-> r.full]
AddDiagnostic(r, d) == AddDiagnostics(r, [c \in {d.code} |-> [artifact |-> d.artifact, count |-> d.count]])

\* addFinding: no more than there may be.
AddFindings(r, findings) ==
  LET new == findings \ r.found
      room == Limits.findings - Cardinality(r.found)
  IN  IF Cardinality(new) <= room THEN [said |-> r.said, found |-> r.found \cup new, full |-> r.full]
      ELSE [said |-> r.said, full |-> TRUE,
            found |-> r.found \cup (CHOOSE kept \in SUBSET new : Cardinality(kept) = room)]
AddHits(r, artifact, rules) == AddFindings(r, {[artifact |-> artifact, rule |-> h] : h \in rules})

\* finish, and what javadiskScan makes of the result.
Finished(r) == IF r.full THEN AddDiagnostic(r, Said(NoPath, "budget")) ELSE r
Flushed(r) == {[artifact |-> Finished(r).said[c].artifact, code |-> c, count |-> Finished(r).said[c].count] :
                 c \in DOMAIN Finished(r).said}

-----------------------------------------------------------------------------
(* One class, and a group of classes.                                       *)

\* parseClassIsolated: a panic of the parser is the class's diagnostic.
ParseTrouble(c) == CASE Contents[c].class = "malformed" -> "malformed"
                     [] Contents[c].class = "unsupported" -> "version"
                     [] Contents[c].class = "panics" -> "panic"
                     [] OTHER -> "none"

\* prepareArtifact and analyzeClassesContext, on models [path, content]: classes in
\* order of what they may do and of path, instructions charged as they are decoded,
\* the classes after the limit left out; classes of one name are not resolved.
Listings(S) == {q \in [1 .. Cardinality(S) -> S] : \A x \in S : \E i \in DOMAIN q : q[i] = x}
Sooner(a, b) == \/ Contents[a.content].priority < Contents[b.content].priority
                \/ Contents[a.content].priority = Contents[b.content].priority /\ Before(a.path, b.path)
InOrder(models) == {q \in Listings(models) : \A i, j \in DOMAIN q : i < j => Sooner(q[i], q[j])}
Charges(order) ==
  LET charged[i \in 0 .. Len(order)] == IF i = 0 THEN 0 ELSE charged[i - 1] + Contents[order[i].content].work
  IN  charged
Stops(order, charged) ==
  {i \in DOMAIN order : Contents[order[i].content].work > 0 /\ charged[i] >= Limits.instructions}
Reached(order, charged, stops) ==
  {i \in 1 .. (IF stops = {} THEN Len(order) ELSE Min(stops)) : charged[i] <= Limits.instructions}
Twice(order) ==
  LET namesake(i, j) == Contents[order[i].content].name = Contents[order[j].content].name
  IN  {Contents[order[i].content].name : i \in {j \in DOMAIN order : \E k \in DOMAIN order \ {j} : namesake(j, k)}}

\* What decoding, visiting and summarizing one class says.
SaidOf(key, path, c, twice) ==
  CASE c.code = "undecodable" -> <<Said(key, "bytecode")>>
    [] c.code = "unsupported" -> <<Said(path, "bytecode")>>
    \* Said by the visit and, unless its name is not unique, by every round of summaries.
    [] c.code = "budget" -> <<Said(path, "budget")>> \o (IF c.name \in twice THEN <<>> ELSE <<Said(path, "budget")>>)
    [] c.code = "wide" -> <<Said(<<c.name>>, "budget")>>   \* more call targets than may be merged
    [] OTHER -> <<>>

Occurrences(key, order, stops, reached, twice) ==
  LET about == [i \in DOMAIN order |->
                  IF i \in reached THEN SaidOf(key, order[i].path, Contents[order[i].content], twice) ELSE <<>>]
      troubles(i) == i \notin reached \/ about[i] # <<>> \/ Contents[order[i].content].name \in twice
  IN  [said |-> [n \in 1 .. Cardinality(twice) |-> Said(key, "duplicate")]
                \o (IF stops = {} THEN <<>> ELSE <<Said(key, "budget")>>) \o FlattenSeq(about),
       reached |-> {order[i] : i \in reached},
       troubled |-> {order[i].path : i \in {j \in DOMAIN order : troubles(j)}}]
Charged(key, order, charged) ==
  Occurrences(key, order, Stops(order, charged), Reached(order, charged, Stops(order, charged)), Twice(order))
Decoded(key, order) == Charged(key, order, Charges(order))

\* aggregateDiagnostics: per code the first artifact, and how often.
Aggregated(ds) ==
  LET first(c) == CHOOSE i \in DOMAIN ds : ds[i].code = c /\ \A j \in 1 .. i - 1 : ds[j].code # c
  IN  [c \in {ds[i].code : i \in DOMAIN ds} |->
         [artifact |-> ds[first(c)].artifact, count |-> Cardinality({i \in DOMAIN ds : ds[i].code = c})]]

\* One class speaks for a rule in its group.
GroupHits(models) == {h \in (UNION {Contents[m.content].hits : m \in models}) \X models :
                        h[1] \in Contents[h[2].content].hits /\
                        \A m \in models : h[1] \in Contents[m.content].hits => m = h[2] \/ Before(h[2].path, m.path)}

GroupResult(r, about, physical) ==
  LET hits == {[artifact |-> IF physical = NoPath THEN h[2].path ELSE physical, rule |-> h[1]] :
                 h \in GroupHits(about.reached)}
  IN  AddDiagnostics(AddFindings(r, hits), Aggregated(about.said))

-----------------------------------------------------------------------------
(* Loose artifacts.                                                         *)

Here == Roots[walk.root]
Goes(stage) == walk' = [walk EXCEPT !.stage = stage]

\* javadiskScan's walk of a root: of a directory that cannot be listed some entries may be
\* missed, and all that is below them; one told to stop while walking has seen some of it.
\* A file signed as a page is no artifact.
Walk ==
  /\ walk.stage = "walk"
  /\ LET all == {p \in DOMAIN files \cup DOMAIN aside.signed : Under(Here, p)} \cup {k \in aside.shut : IsPrefix(Here, k)}
         entries == UNION {{SubSeq(p, 1, Len(k) + 1) : p \in {p \in all : Under(k, p)}} : k \in aside.shut}
     IN  \E missed \in SUBSET entries : \E met \in {{p \in all : \A e \in missed : ~IsPrefix(e, p)}} :
         \E seen \in {met} \cup (IF interrupted THEN SUBSET met ELSE {}) :
           /\ enumerated' = enumerated \cup (seen \cap DOMAIN files)
           /\ unlisted' = unlisted \cup (seen \cap aside.shut)
           /\ diagnostics' = diagnostics \cup {Said(k, "read") : k \in seen \cap aside.shut}
                                         \cup (IF interrupted THEN {Said(Here, "cancelled")} ELSE {})
           /\ IF interrupted THEN Goes("end") /\ UNCHANGED <<loose, pages, jars>>
              ELSE /\ loose' = [NoLoose EXCEPT !.left = {p \in seen \cap DOMAIN files : files[p].kind # "archive"}]
                   /\ jars' = {p \in seen \cap DOMAIN files : files[p].kind = "archive"}
                   /\ pages' = seen \cap DOMAIN aside.signed
                   /\ Goes("loose")
  /\ result' = NoResult
  /\ UNCHANGED <<files, aside, jar, found, interrupted, examined, troubled>>

\* readLooseArtifact.
ReadTrouble(p) == IF ~files[p].readable THEN "read" ELSE IF files[p].size > Limits.artifact THEN "budget" ELSE "none"

\* AnalyzePaths is told to stop: what is left, and every class it has read, is dropped.
StopLoose(p) ==
  /\ interrupted
  /\ \/ walk.stage = "loose" /\ loose.left # {} /\ IsEarliest(p, loose.left)
     \/ walk.stage = "groups" /\ loose.groups # {} /\ IsEarliest(p, {files[m.path].group : m \in loose.groups})
  /\ result' = AddDiagnostic(result, Said(p, "cancelled"))
  /\ loose' = NoLoose /\ Goes("jars")
  /\ diagnostics' = diagnostics \cup Flushed(result') /\ found' = found \cup result'.found
  /\ UNCHANGED <<files, asideVars, jar, jars, enumerated, interrupted, examined, troubled>>

\* A turn of AnalyzePaths' loop.
Loose(p) ==
  LET f == files[p]
      class == f.kind = "class"
      overClasses == class /\ loose.classes >= Limits.classes
      read == ReadTrouble(p)
      retained == loose.retained + f.size
      over == retained > Limits.retained
      parse == ParseTrouble(f.content)
      counted == class /\ ~overClasses /\ read = "none"
      kept == counted /\ ~over
      trouble == CASE overClasses -> "budget"
                   [] ~overClasses /\ read # "none" -> read
                   [] counted /\ over -> "budget"
                   [] kept -> parse
                   [] OTHER -> "none"
  IN  /\ walk.stage = "loose" /\ ~interrupted /\ loose.left # {} /\ IsEarliest(p, loose.left)
      /\ loose' = [left |-> loose.left \ {p},
                   groups |-> IF kept /\ parse = "none" THEN loose.groups \cup {[path |-> p, content |-> f.content]} ELSE loose.groups,
                   classes |-> loose.classes + (IF counted THEN 1 ELSE 0),
                   retained |-> IF kept THEN retained ELSE loose.retained]
      /\ result' = IF trouble # "none" THEN AddDiagnostic(result, Said(p, trouble))
                   ELSE IF class THEN result
                   ELSE AddHits(result, p, IF f.kind = "page" THEN Contents[f.content].page ELSE Contents[f.content].source)
      /\ troubled' = IF trouble # "none" THEN troubled \cup {p} ELSE troubled
      /\ examined' = IF trouble = "none" /\ ~class THEN examined \cup {<<p, p, f.kind, f.content>>} ELSE examined
      /\ UNCHANGED <<files, asideVars, walk, jar, jars, found, diagnostics, enumerated, interrupted>>

LooseRead == /\ walk.stage = "loose" /\ loose.left = {} /\ Goes("groups")
             /\ UNCHANGED <<files, asideVars, loose, jar, jars, result, found, diagnostics, enumerated, interrupted, examined, troubled>>

\* looseApplicationGroup: the nearest WEB-INF/classes, else the class alone.
Group(key) ==
  LET models == {m \in loose.groups : files[m.path].group = key}
  IN  /\ walk.stage = "groups" /\ ~interrupted /\ loose.groups # {}
      /\ IsEarliest(key, {files[m.path].group : m \in loose.groups})
      /\ loose' = [loose EXCEPT !.groups = @ \ models]
      /\ \E order \in InOrder(models) : \E about \in {Decoded(key, order)} :
           /\ result' = GroupResult(result, about, NoPath)
           /\ troubled' = troubled \cup about.troubled
           /\ examined' = examined \cup {<<m.path, m.path, "class", m.content>> : m \in about.reached}
      /\ UNCHANGED <<files, asideVars, walk, jar, jars, found, diagnostics, enumerated, interrupted>>

LooseDone ==
  /\ walk.stage = "groups" /\ loose.groups = {}
  /\ diagnostics' = diagnostics \cup Flushed(result) /\ found' = found \cup result.found
  /\ result' = NoResult /\ loose' = NoLoose /\ Goes("jars")
  /\ UNCHANGED <<files, asideVars, jar, jars, enumerated, interrupted, examined, troubled>>

\* analyzeAsJSPSource: one that cannot be read, is too large to read or empty is passed over
\* in silence; the others are examined one by one, each a result of its own.
SignedPage(p) ==
  LET f == aside.signed[p]
      trouble == CASE f.reads # "ok" -> "none" [] f.reads = "ok" /\ interrupted -> "cancelled"
                   [] f.reads = "ok" /\ ~interrupted /\ f.size > Limits.artifact -> "budget" [] OTHER -> "none"
      read == f.reads = "ok" /\ trouble = "none"
  IN  /\ walk.stage = "jars" /\ pages # {} /\ IsEarliest(p, pages)
      /\ pages' = pages \ {p}
      /\ diagnostics' = IF trouble = "none" THEN diagnostics ELSE diagnostics \cup {Said(p, trouble)}
      /\ found' = IF read THEN found \cup {[artifact |-> p, rule |-> h] : h \in Contents[f.content].page} ELSE found
      /\ examined' = IF read THEN examined \cup {<<p, p, "page", f.content>>} ELSE examined
      /\ UNCHANGED <<files, aside, unlisted, walk, loose, jar, jars, result, enumerated, interrupted, troubled>>

-----------------------------------------------------------------------------
(* Archives.                                                                *)

Priority(m) == CASE m.kind \in {"class", "source", "page"} -> 0
                 [] m.kind = "archive" /\ m.lib -> 1
                 [] m.kind = "archive" /\ ~m.lib -> 2
                 [] OTHER -> 3

\* By priority, and by name, whatever PrepareZIP does not refuse.
Accepted(c) == {m \in Contents[c].members : m.prepared}
InTurn(c) == {q \in Listings(Accepted(c)) : \A i, j \in DOMAIN q : i < j =>
                \/ Priority(q[i]) < Priority(q[j])
                \/ Priority(q[i]) = Priority(q[j]) /\ q[i].name <= q[j].name}

\* scan's beginning: the entries of the archive and of those it is in count together;
\* a member that is refused is diagnosed, the others come in turn.
Entered(j, r, root, c, order) ==
  LET members == Contents[c].members
      bad == members \ Accepted(c)
      least == Min({m.name : m \in bad})
      refused == [artifact |-> root \o <<Bang, least>>, count |-> Cardinality(bad)]
  IN  IF Cardinality(members) > Limits.entries - j.entries
      THEN [jar |-> j, result |-> AddDiagnostic(r, Said(root, "archiveBudget")), trouble |-> TRUE]
      ELSE [jar |-> [j EXCEPT !.entries = @ + Cardinality(members),
                              !.frames = Append(@, [root |-> root, left |-> order])],
            result |-> IF bad = {} THEN r ELSE AddDiagnostics(r, [code \in {"read"} |-> refused]),
            trouble |-> bad # {}]

\* AnalyzePath of the next archive.
OpenJar(p) ==
  LET f == files[p]
      entered(order) == Entered([NoJar EXCEPT !.path = p], NoResult, p, f.content, order)
      opens == ~interrupted /\ f.readable /\ Contents[f.content].zip
  IN  /\ walk.stage = "jars" /\ pages = {} /\ jars # {} /\ IsEarliest(p, jars)
      /\ IF opens
         THEN \E order \in InTurn(f.content) :
                /\ jar' = entered(order).jar /\ result' = entered(order).result
                /\ Goes("jar") /\ jars' = jars \ {p}
                /\ troubled' = IF entered(order).trouble THEN troubled \cup {p} ELSE troubled
                /\ UNCHANGED diagnostics
         ELSE /\ diagnostics' = diagnostics \cup {Said(p, IF interrupted THEN "cancelled" ELSE "read")}
              /\ jars' = IF interrupted THEN {} ELSE jars \ {p}
              /\ troubled' = troubled \cup {p}
              /\ UNCHANGED <<walk, jar, result>>
      /\ UNCHANGED <<files, asideVars, loose, found, enumerated, interrupted, examined>>

Top == jar.frames[Len(jar.frames)]
Rest == [jar EXCEPT !.frames[Len(jar.frames)].left = Tail(@)]

\* The next member of the archive being scanned. A content met before is not read twice,
\* whatever it was called; what cannot be examined is diagnosed.
Member ==
  LET m == Head(Top.left)
      c == m.content
      path == Top.root \o <<Bang, m.name>>
      fresh == c \notin jar.digests
      noted == [Rest EXCEPT !.digests = IF Cardinality(@) < Limits.entries THEN @ \cup {c} ELSE @]
      retained == jar.retained + Contents[c].size
      Trouble(code) == result' = AddDiagnostic(result, Said(path, code)) /\ troubled' = troubled \cup {jar.path}
      Fine == result' = result /\ troubled' = troubled
      Unseen == examined' = examined
      Seen == examined' = examined \cup {<<jar.path, path, m.kind, c>>}
  IN  /\ walk.stage = "jar" /\ ~interrupted /\ jar.frames # <<>> /\ Top.left # <<>>
      /\ CASE Priority(m) = 3 -> jar' = Rest /\ Fine /\ Unseen
           [] Priority(m) # 3 /\ m.reads # "ok" ->
                jar' = Rest /\ Trouble(IF m.reads = "budget" THEN "archiveBudget" ELSE "read") /\ Unseen
           [] Priority(m) # 3 /\ m.reads = "ok" /\ ~fresh -> jar' = Rest /\ Fine /\ Unseen
           [] m.kind = "class" /\ m.reads = "ok" /\ fresh ->
                /\ Unseen
                /\ IF jar.classes >= Limits.classes THEN jar' = noted /\ Trouble("budget")
                   ELSE IF retained > Limits.retained
                   THEN jar' = [noted EXCEPT !.classes = @ + 1] /\ Trouble("budget")
                   ELSE IF ParseTrouble(c) # "none"
                   THEN jar' = [noted EXCEPT !.classes = @ + 1, !.retained = retained] /\ Trouble(ParseTrouble(c))
                   ELSE /\ jar' = [noted EXCEPT !.classes = @ + 1, !.retained = retained,
                                                !.models = @ \cup {[path |-> path, content |-> c]}]
                        /\ Fine
           [] m.kind \in {"source", "page"} /\ m.reads = "ok" /\ fresh ->
                /\ jar' = noted /\ Seen /\ troubled' = troubled
                /\ result' = AddHits(result, jar.path, IF m.kind = "page" THEN Contents[c].page ELSE Contents[c].source)
           [] m.kind = "archive" /\ m.reads = "ok" /\ fresh ->
                /\ Unseen
                /\ IF Len(jar.frames) > Limits.depth THEN jar' = noted /\ Trouble("archiveBudget")
                   ELSE IF ~Contents[c].zip THEN jar' = noted /\ Trouble("read")
                   ELSE \E order \in InTurn(c) : \E entered \in {Entered(noted, result, path, c, order)} :
                          /\ jar' = entered.jar /\ result' = entered.result
                          /\ troubled' = IF entered.trouble THEN troubled \cup {jar.path} ELSE troubled
      /\ UNCHANGED <<files, asideVars, walk, loose, jars, found, diagnostics, enumerated, interrupted>>

Leave ==
  /\ walk.stage = "jar" /\ ~interrupted /\ jar.frames # <<>> /\ Top.left = <<>>
  /\ jar' = [jar EXCEPT !.frames = SubSeq(@, 1, Len(@) - 1)]
  /\ UNCHANGED <<files, asideVars, walk, loose, jars, result, found, diagnostics, enumerated, interrupted, examined, troubled>>

\* The end of analyzeArchivefiles: its classes are one group.
CloseJar ==
  /\ walk.stage = "jar" /\ (interrupted \/ jar.frames = <<>>)
  /\ IF interrupted
     THEN /\ diagnostics' = diagnostics \cup Flushed(AddDiagnostic(result, Said(jar.path, "cancelled")))
          /\ found' = found \cup result.found
          /\ troubled' = troubled \cup {jar.path}
          /\ jars' = {} /\ UNCHANGED examined
     ELSE /\ \E order \in InOrder(jar.models) : \E about \in {Decoded(jar.path, order)} :
               /\ \E last \in {GroupResult(result, about, jar.path)} :
                    diagnostics' = diagnostics \cup Flushed(last) /\ found' = found \cup last.found
               /\ troubled' = IF about.troubled # {} THEN troubled \cup {jar.path} ELSE troubled
               /\ examined' = examined \cup {<<jar.path, m.path, "class", m.content>> : m \in about.reached}
          /\ UNCHANGED jars
  /\ jar' = NoJar /\ result' = NoResult /\ Goes("jars")
  /\ UNCHANGED <<files, asideVars, loose, enumerated, interrupted>>

NextRoot ==
  /\ walk.stage = "jars" /\ pages = {} /\ jars = {}
  /\ walk' = IF walk.root = Len(Roots) THEN [walk EXCEPT !.stage = "end"]
             ELSE [root |-> walk.root + 1, stage |-> "walk"]
  /\ UNCHANGED <<files, asideVars, loose, jar, jars, result, found, diagnostics, enumerated, interrupted, examined, troubled>>

ArtifactsNext ==
  \/ Interrupt \/ Walk \/ LooseRead \/ LooseDone \/ Member \/ Leave \/ CloseJar \/ NextRoot
  \/ \E p \in DOMAIN files : Loose(p) \/ OpenJar(p) \/ StopLoose(p)
  \/ \E p \in pages : SignedPage(p)
  \/ \E m \in loose.groups : Group(files[m.path].group) \/ StopLoose(files[m.path].group)

ArtifactsSpec == ArtifactsInit /\ [][ArtifactsNext]_artifactVars

-----------------------------------------------------------------------------
(* The coverage of each artifact.                                           *)

\* physicalArtifactPath.
Physical(path) == IF \E i \in DOMAIN path : path[i] = Bang
                  THEN SubSeq(path, 1, (CHOOSE i \in DOMAIN path : path[i] = Bang /\ \A j \in 1 .. i - 1 : path[j] # Bang) - 1)
                  ELSE path

\* Mutant: a diagnostic that names an artifact is that artifact's alone.
ScopeOfNamed(d) ==
  LET key == Physical(d.artifact)
  IN  IF key = NoPath THEN [files |-> enumerated, named |-> NoPath]
      ELSE IF key \in enumerated THEN [files |-> {key}, named |-> key]
      ELSE [files |-> enumerated, named |-> key]

\* javaDiagnosticScope: one occurrence, or an archive's, is about the artifact it names;
\* one occurrence in a directory about what is in it; else it may be about any of them.
DiagnosticScope(d) ==
  LET key == Physical(d.artifact)
      inside == {p \in enumerated : Under(key, p)}
  IN  IF key = NoPath THEN [files |-> enumerated, named |-> NoPath]
      ELSE IF key \in enumerated /\ (d.count = 1 \/ key # d.artifact \/ files[key].kind = "archive")
      THEN [files |-> {key}, named |-> key]
      ELSE IF key \notin enumerated /\ d.count = 1 /\ inside # {} THEN [files |-> inside, named |-> NoPath]
      ELSE [files |-> enumerated, named |-> key]

\* javaArtifactCoverage.
ArtifactStatus(p) ==
  LET reaching == {d \in diagnostics : p \in DiagnosticScope(d).files}
  IN  IF ~files[p].readable \/ \E d \in reaching : d.code = "read" /\ DiagnosticScope(d).named = p THEN "failed"
      ELSE IF reaching # {} THEN "degraded" ELSE "complete"

-----------------------------------------------------------------------------
\* What there is to examine in an archive that opens: every member of a relevant kind,
\* in archives as deep as they are followed.
Inside == [c \in DOMAIN Contents |-> {m \in Contents[c].members : Priority(m) # 3 /\ m.kind # "archive"}]
NestedIn(c) == {m.content : m \in {m \in Contents[c].members : m.kind = "archive"}}
Reachable(c) == LET one == NestedIn(c)
                    two == UNION {NestedIn(d) : d \in one}
                IN  {c} \cup one \cup two

\* No member of a kind that is looked into for itself has a content that opens as an
\* archive: a content is read once, as the kind of the member that comes first.
NoPolyglots ==
  \A c \in DOMAIN Contents : \A m \in Contents[c].members :
    m.kind = "archive" \/ Priority(m) = 3 \/ ~Contents[m.content].zip

\* The kinds that the members of an archive give a content.
KindsOf(top, content) == {m.kind : m \in {m \in UNION {Inside[c] : c \in Reachable(top)} : m.content = content}}

\* An artifact that a scan nobody stopped calls complete has been analyzed end to end:
\* nothing went wrong in it, whatever diagnostics were merged over the artifacts; the
\* content of each of its members has been examined, as what a member of it is called
\* (members of one content are examined once: archive.go:261); and no directory that
\* could not be listed may hide a part of it, or anything at all if nothing was seen there.
CompleteIsTrue ==
  (walk.stage = "end" /\ ~interrupted) =>
    \A p \in enumerated : ArtifactStatus(p) = "complete" =>
      /\ p \notin troubled
      /\ files[p].kind # "archive" => \E e \in examined : e[1] = p /\ e[3] = files[p].kind
      /\ files[p].kind = "archive" =>
           \A c \in Reachable(files[p].content) : \A m \in Inside[c] :
             \E e \in examined : e[1] = p /\ e[4] = m.content /\ e[3] \in KindsOf(files[p].content, m.content)
      /\ \A k \in unlisted : ~Under(k, p) /\ \E q \in enumerated : Under(k, q)
=============================================================================
