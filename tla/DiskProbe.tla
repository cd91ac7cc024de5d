----------------------------- MODULE DiskProbe -----------------------------
(***************************************************************************)
(* The disk view, cmd/diskprobe: which entries of the web roots it opens,  *)
(* the engine's scan of each root, the taint and Java passes, the scan of  *)
(* the decoded layers, and what it reports of all that. The roots belong   *)
(* to a live server: an entry may become unreadable at any step. The rule  *)
(* engine, the taint grammars and the decoders are outside: what they find *)
(* in a content is data.                                                    *)
(***************************************************************************)
EXTENDS RuleScope, Integers

CONSTANTS Texts,     \* content -> what signs, rules, grammars and decoders find in it
          Rules,     \* rule -> [lang |-> the language it declares, score]
          Trees,     \* the sets of entries the roots may hold
          Commands,  \* [usable, roots, deobf, temp]
          MaxVanish  \* how many entries may become unreadable during a scan

VARIABLES tree, command, stage,
          readable,   \* entries that can be opened now
          todo,       \* roots the current stage has not reached
          listed,     \* entries the enumeration let through
          skips,      \* entries not examined, by why
          signed,     \* entry -> languages, as the sign cache has it
          engineSaw,  \* entries the engine has examined
          scanned, failedRoots, rawHits, taintHits, javaHits, decoded, javaTrouble,
          opened,     \* ghost: what the Java pass has opened
          cutShort,   \* ghost: an engine run ended before its time
          diskExit, status, findings

diskVars == <<tree, command, stage, readable, todo, listed, skips, signed, engineSaw, scanned, failedRoots,
              rawHits, taintHits, javaHits, decoded, javaTrouble, opened, cutShort, diskExit, status, findings>>

Text(f) == Texts[f.text]

\* A tree is finite, and so is what an analysis finds in a content; a score is an
\* integer, as a rule has it.
ASSUME TreesAssumption ==
  \A t \in Trees : IsFiniteSet(t) /\ \A f \in t :
    /\ f.kind \in {"regular", "pipe", "linkIn", "linkOut"} /\ f.size \in {"small", "large"}
    /\ Text(f).matches \subseteq Source /\ Text(f).shebang \in {"none", "perl", "python"}
    /\ IsFiniteSet(Text(f).taints) /\ \A x \in Text(f).taints : x.score \in Int
    /\ Len(Text(f).layers) \in Nat /\ DOMAIN Text(f).layers = 1 .. Len(Text(f).layers)
    /\ \A rules \in {Text(f).hits, Text(f).resolved} \cup {Text(f).layers[i] : i \in DOMAIN Text(f).layers} :
         IsFiniteSet(rules) /\ rules \subseteq DOMAIN Rules
ASSUME RulesAssumption == \A r \in DOMAIN Rules : Rules[r].score \in Int

Skips(nonRegular, unreadable, oversize, noDetector) ==
  [nonRegular |-> nonRegular, unreadable |-> unreadable, oversize |-> oversize, noDetector |-> noDetector]
SkipsTotal == Cardinality(skips.nonRegular) + Cardinality(skips.unreadable)
              + Cardinality(skips.oversize) + Cardinality(skips.noDetector)

DiskInit ==
  /\ tree \in Trees /\ command \in Commands
  /\ readable = {f \in tree : f.readable}
  /\ stage = "start" /\ todo = {} /\ listed = {} /\ skips = Skips({}, {}, {}, {}) /\ signed = <<>>
  /\ engineSaw = {} /\ scanned = {} /\ failedRoots = {} /\ rawHits = {} /\ taintHits = {}
  /\ javaHits = {} /\ decoded = <<>> /\ javaTrouble = FALSE /\ opened = {} /\ cutShort = FALSE
  /\ diskExit = "none" /\ status = "none" /\ findings = {}

\* The server's own work on its files.
Vanish(f) ==
  /\ stage \notin {"start", "done", "stuck"}
  /\ Cardinality({g \in tree : g.readable /\ g \notin readable}) < MaxVanish
  /\ readable' = readable \ {f}
  /\ UNCHANGED <<tree, command, stage, todo, listed, skips, signed, engineSaw, scanned, failedRoots, rawHits,
                 taintHits, javaHits, decoded, javaTrouble, opened, cutShort, diskExit, status, findings>>

\* What readBoundedFile gives: nothing of a file that is closed or too large.
Readable(f) == f \in readable /\ f.size = "small"
SignsNow(f) == IF Readable(f) THEN SignsFor(Text(f)) ELSE {}
Signs(f) == IF f \in DOMAIN signed THEN signed[f] ELSE SignsNow(f)
Unnamed(f) == Classify(f.name) = "unknown"

-----------------------------------------------------------------------------
\* runDiskProbe before it scans: unusable flags, policy, specification or rules, or no
\* web root at all, are a failure and never an empty scan.
StartDisk ==
  /\ stage = "start"
  /\ IF command.usable /\ command.roots # {}
     THEN stage' = "enumerate" /\ todo' = command.roots /\ diskExit' = diskExit
     ELSE stage' = "done" /\ diskExit' = "coverage" /\ todo' = todo
  /\ UNCHANGED <<tree, command, readable, listed, skips, signed, engineSaw, scanned, failedRoots, rawHits, taintHits,
                 javaHits, decoded, javaTrouble, opened, cutShort, status, findings>>

\* Mutant: what cannot be opened is left out without a word.
EnumerateMutely(r) ==
  LET entries == {f \in tree : f.root = r}
      regular == {f \in entries : f.kind = "regular"}
  IN  /\ stage = "enumerate" /\ r \in todo
      /\ skips' = [skips EXCEPT
           !.nonRegular = @ \cup {f \in entries : f.kind \in {"pipe", "linkOut"}},
           !.oversize = @ \cup {f \in regular : f.size = "large" /\ Classify(f.name) \in Source}]
      /\ listed' = listed \cup (regular \cap readable)
      /\ todo' = IF todo = {r} THEN command.roots ELSE todo \ {r}
      /\ stage' = IF todo # {r} THEN stage ELSE IF command.deobf THEN "signs" ELSE "engine"
      /\ UNCHANGED <<tree, command, readable, signed, engineSaw, scanned, failedRoots, rawHits, taintHits, javaHits,
                     decoded, javaTrouble, opened, cutShort, diskExit, status, findings>>

\* enumerateScannable of one root: regular files that open. A link to a regular file
\* inside the roots is examined where it leads; anything else is counted.
Enumerate(r) ==
  LET entries == {f \in tree : f.root = r}
      regular == {f \in entries : f.kind = "regular"}
  IN  /\ stage = "enumerate" /\ r \in todo
      /\ skips' = [skips EXCEPT
           !.nonRegular = @ \cup {f \in entries : f.kind \in {"pipe", "linkOut"}},
           !.oversize = @ \cup {f \in regular : f.size = "large" /\ Classify(f.name) \in Source},
           !.unreadable = @ \cup (regular \ readable)]
      /\ listed' = listed \cup (regular \cap readable)
      /\ todo' = IF todo = {r} THEN command.roots ELSE todo \ {r}
      /\ stage' = IF todo # {r} THEN stage ELSE IF command.deobf THEN "signs" ELSE "engine"
      /\ UNCHANGED <<tree, command, readable, signed, engineSaw, scanned, failedRoots, rawHits, taintHits, javaHits,
                     decoded, javaTrouble, opened, cutShort, diskExit, status, findings>>

\* Files whose name and content claim no language are counted; asking fills the cache.
ReadSigns ==
  /\ stage = "signs"
  /\ LET asked == {f \in listed : Unnamed(f)}
     IN  /\ signed' = [f \in asked |-> SignsNow(f)]
         /\ skips' = [skips EXCEPT !.noDetector =
              {f \in listed : Classify(f.name) = "unknown" /\ ~WebshellLike(f.name, SignsNow(f))}]
  /\ stage' = "engine"
  /\ UNCHANGED <<tree, command, readable, todo, listed, engineSaw, scanned, failedRoots, rawHits, taintHits, javaHits,
                 decoded, javaTrouble, opened, cutShort, diskExit, status, findings>>

\* The rules' findings on a file, or on a layer of it, under the name it is scanned by.
Hits(f, name, hits, signs, layer) ==
  {[file |-> f, rule |-> r, score |-> Rules[r].score, layer |-> layer] :
     r \in {r \in hits : RuleAdmission(Rules[r].lang, name, signs) # "refused"}}

\* scanWebroots' turn for one root. The scan list needs a temporary file; a name with a
\* line break is left out of it; an engine that fails with some output is taken at its
\* word, one that fails with none fails the root.
Engine(r) ==
  /\ stage = "engine" /\ r \in todo
  /\ LET targets == {f \in listed : f.root = r /\ ~f.lineBreak}
         fails == command.temp = "none" /\ \E f \in listed : f.root = r
     IN  \E seen \in SUBSET targets, works \in BOOLEAN :
           /\ works => seen = targets
           /\ fails => ~works /\ seen = {}
           /\ targets = {} /\ ~fails => works
           /\ LET hits == UNION {Hits(f, f.name, Text(f).hits, SignsNow(f), 0) : f \in seen \cap readable}
              IN  IF works \/ hits # {}
                  THEN /\ scanned' = scanned \cup {r} /\ failedRoots' = failedRoots
                       /\ rawHits' = rawHits \cup hits
                       /\ engineSaw' = engineSaw \cup (seen \cap readable)
                  ELSE /\ failedRoots' = failedRoots \cup {r}
                       /\ UNCHANGED <<scanned, rawHits, engineSaw>>
           /\ cutShort' = (cutShort \/ ~works)
  /\ todo' = IF todo = {r} THEN command.roots ELSE todo \ {r}
  /\ stage' = IF todo # {r} THEN stage ELSE IF command.deobf THEN "taint" ELSE "java"
  /\ UNCHANGED <<tree, command, readable, listed, skips, signed, taintHits, javaHits, decoded, javaTrouble, opened, diskExit,
                 status, findings>>

\* The four taint passes.
Taint ==
  /\ stage = "taint"
  /\ taintHits' = UNION {
       {[file |-> f, rule |-> t.rule, score |-> t.score, layer |-> 0] :
          t \in {t \in Text(f).taints : t.grammar \in Grammars(f.name, Text(f), Signs(f))}} :
       f \in {f \in listed : Readable(f)}}
  /\ stage' = "java"
  /\ UNCHANGED <<tree, command, readable, todo, listed, skips, signed, engineSaw, scanned, failedRoots, rawHits,
                 javaHits, decoded, javaTrouble, opened, cutShort, diskExit, status, findings>>

\* javadiskScan of one root, which walks it again and looks at every entry's name: one
\* that opens a pipe waits for ever.
JavaScan(r) ==
  /\ stage = "java" /\ r \in todo
  /\ LET entries == {f \in tree : f.root = r}
         named == {f \in entries : Classify(f.name) \in {"jsp", "jvm"}}
         asJSP == {f \in entries : \/ Classify(f.name) = "jsp" /\ f.name[Len(f.name)] # "jsp"
                                   \/ Unnamed(f) /\ "jsp" \in Signs(f)}
         asked == {f \in entries : Unnamed(f) /\ f \notin DOMAIN signed}
         source(f) == f \in asJSP \/ f \in named
     IN  /\ opened' = opened \cup named \cup asJSP \cup asked
         /\ javaHits' = javaHits \cup {[file |-> f, rule |-> "javadisk", score |-> 85, layer |-> 0] :
                                         f \in {f \in entries : source(f) /\ Readable(f) /\ Text(f).java}}
         /\ javaTrouble' = (javaTrouble \/ \E f \in named \ asJSP : ~Readable(f))
         /\ stage' = CASE \E f \in opened' : f.kind = "pipe" -> "stuck"
                       [] (\A f \in opened' : f.kind # "pipe") /\ todo # {r} -> stage
                       [] OTHER -> IF command.deobf THEN "mirror" ELSE "report"
  /\ todo' = todo \ {r}
  /\ UNCHANGED <<tree, command, readable, listed, skips, signed, engineSaw, scanned, failedRoots, rawHits, taintHits,
                 decoded, cutShort, diskExit, status, findings>>

-----------------------------------------------------------------------------
\* sortDecodedForDedup: by file, rule and the hash of the layer, that is by which layer;
\* the engine's own order is any.
Orders(S) ==
  {q \in [1 .. Cardinality(S) -> S] : /\ \A x \in S : \E i \in DOMAIN q : q[i] = x
                                      /\ \A i, j \in DOMAIN q : i < j => q[i].layer <= q[j].layer}

\* buildDecodedMirror and the scan of it. What the engine cannot scan there is not
\* missed: the answer is that of the files as they are.
Mirror ==
  /\ stage = "mirror"
  /\ LET decodable == {f \in listed : Readable(f) /\ WebshellLike(f.name, Signs(f))}
         layers(f) == UNION {Hits(f, <<MirrorExt(f.name, Signs(f))>>, Text(f).layers[i], {}, i) : i \in DOMAIN Text(f).layers}
         resolved(f) == IF PassAdmits(f.name, "php", Signs(f))
                        THEN Hits(f, <<"php">>, Text(f).resolved, {}, Len(Text(f).layers) + 1) ELSE {}
         all == UNION {layers(f) \cup resolved(f) : f \in decodable}
     IN  \E scannable \in {all, {}} : \E order \in Orders(scannable) :
           /\ command.temp = "none" => scannable = {}
           /\ cutShort' = (cutShort \/ scannable # all)
           /\ decoded' = order
  /\ stage' = "report"
  /\ UNCHANGED <<tree, command, readable, todo, listed, skips, signed, engineSaw, scanned, failedRoots, rawHits,
                 taintHits, javaHits, javaTrouble, opened, diskExit, status, findings>>

\* dedupByOriginRule: of a file's findings by one rule the first of the highest score;
\* the files as they are come first, then the layers, then the taint passes.
Place(h) == IF h \in rawHits THEN 0
            ELSE IF h \in {decoded[i] : i \in DOMAIN decoded} THEN CHOOSE i \in DOMAIN decoded : decoded[i] = h
            ELSE Len(decoded) + 1
Survivors(all) ==
  {h \in all : \A g \in all : g.file = h.file /\ g.rule = h.rule =>
     g.score < h.score \/ (g.score = h.score /\ (g = h \/ Place(h) < Place(g)))}

\* The end of runDiskProbe.
ReportDisk ==
  /\ stage = "report"
  /\ IF scanned = {}
     THEN diskExit' = "coverage" /\ UNCHANGED <<status, findings>>
     ELSE /\ diskExit' = "ok"
          /\ status' = IF failedRoots # {} \/ SkipsTotal > 0 \/ javaTrouble THEN "degraded" ELSE "ran"
          /\ findings' = Survivors(rawHits \cup {decoded[i] : i \in DOMAIN decoded} \cup taintHits) \cup javaHits
  /\ stage' = "done"
  /\ UNCHANGED <<tree, command, readable, todo, listed, skips, signed, engineSaw, scanned, failedRoots, rawHits,
                 taintHits, javaHits, decoded, javaTrouble, opened, cutShort>>

DiskNext ==
  \/ StartDisk \/ ReadSigns \/ Taint \/ Mirror \/ ReportDisk
  \/ \E r \in command.roots : Enumerate(r) \/ Engine(r) \/ JavaScan(r)
  \/ \E f \in readable : Vanish(f)

DiskSpec == DiskInit /\ [][DiskNext]_diskVars

-----------------------------------------------------------------------------
Vanished == {f \in tree : f.readable /\ f \notin readable}

\* A disk view that says it ran, of roots nothing has touched meanwhile and with an
\* engine that finished, has put every entry before the engine, or reaches its content
\* by another name, and none whose name claims a web language was too large for the
\* other passes; a view without a scanned root says that it failed and nothing else.
DiskIsHonest ==
  (stage = "done" /\ diskExit = "ok") =>
    /\ scanned # {} /\ command.usable
    /\ (status = "ran" /\ Vanished = {} /\ ~cutShort) =>
         \A f \in tree : f.root \in command.roots /\ ~f.lineBreak =>
           f.kind = "linkIn" \/ (f \in engineSaw /\ f \in listed /\ (Classify(f.name) \in Source => Readable(f)))

\* Two files of one content, one named for its language and one by a name that claims
\* none: what is found in the first is found in the second, in layers only where the
\* language is the first its content looks like, and by a rule only if it declares a
\* language of the table or none; a program of one interpreter by its name has not the
\* other's first line, and a Python one has Python's.
RenamedIsAsNamed ==
  (stage = "done" /\ diskExit = "ok" /\ Vanished = {} /\ ~cutShort) =>
    \A f, g \in listed :
      (/\ f.text = g.text /\ f.size = "small" /\ g.size = "small" /\ ~g.lineBreak /\ Unnamed(g)
       /\ Classify(f.name) \in SignsFor(Text(f))
       /\ Classify(f.name) = "python" => Text(f).shebang = "python"
       /\ Classify(f.name) = "perl" => Text(f).shebang # "python") =>
      \A h \in findings :
        (/\ h.file = f
         /\ h.layer > 0 => MirrorExt(g.name, SignsFor(Text(g))) = Classify(f.name)
         /\ h.rule \in DOMAIN Rules => Rules[h.rule].lang \in Languages) =>
        \E k \in findings : k.file = g /\ k.rule = h.rule
=============================================================================
