------------------------------- MODULE MCJava -------------------------------
(***************************************************************************)
(* Instances of the parts of the Java pass: JavaArtifacts over loose        *)
(* artifacts and nested archives that exhaust every budget, JavaSource over *)
(* statements that declare, shadow and assign, SafeZip over well-formed     *)
(* archives in which up to two fields are wrong.                            *)
(***************************************************************************)
EXTENDS JavaArtifacts, JavaSource, SafeZip, TLC

-----------------------------------------------------------------------------
(* Artifacts.                                                               *)

Class(name, code, rulesHit) ==
  [class |-> "ok", name |-> name, code |-> code, hits |-> rulesHit,
   priority |-> IF rulesHit = {} THEN 3 ELSE 0, work |-> 2, size |-> 1,
   source |-> {}, page |-> {}, zip |-> FALSE, members |-> {}]
NoClass == [Class(99, "ok", {}) EXCEPT !.class = "malformed"]
JarOf(ms) == [NoClass EXCEPT !.zip = TRUE, !.members = ms]
MemberOf(n, kind, content) ==
  [name |-> n, kind |-> kind, content |-> content, lib |-> FALSE, prepared |-> TRUE, reads |-> "ok"]

MCContents ==
  "shell" :> Class(91, "ok", {"exec"})     @@ "twin" :> Class(91, "budget", {"exec"})
  @@ "late" :> Class(92, "budget", {})     @@ "plain" :> Class(93, "ok", {})
  @@ "odd" :> Class(94, "undecodable", {}) @@ "wide" :> Class(95, "wide", {})
  @@ "bad" :> NoClass                      @@ "text" :> [NoClass EXCEPT !.page = {"exec"}]
  @@ "jar" :> JarOf({MemberOf(1, "class", "shell"), MemberOf(2, "page", "text"),
                     MemberOf(3, "other", "text"), MemberOf(4, "class", "shell")})
  @@ "war" :> JarOf({MemberOf(1, "archive", "jar"), MemberOf(3, "page", "text"),
                     [MemberOf(2, "archive", "inner") EXCEPT !.lib = TRUE]})
  @@ "inner" :> JarOf({MemberOf(1, "class", "twin"), MemberOf(2, "archive", "deep")})
  @@ "deep" :> JarOf({MemberOf(1, "source", "text"), MemberOf(2, "archive", "jar")})
  @@ "unread" :> JarOf({[MemberOf(1, "class", "plain") EXCEPT !.prepared = FALSE], MemberOf(2, "class", "bad")})
  @@ "spent" :> JarOf({[MemberOf(1, "page", "text") EXCEPT !.reads = "budget"], MemberOf(2, "class", "odd")})
  @@ "mixed" :> JarOf({MemberOf(1, "class", "wide"), MemberOf(2, "archive", "bad"),
                       MemberOf(3, "class", "plain"), MemberOf(4, "source", "text")})

\* The instance is one that the theorem about the pass speaks of.
ASSUME ContentsHaveOneKind == NoPolyglots

MCRoots == <<<<1>>, <<2>>>>

\* Files in a directory of classes are one application.
Loosely(p, kind, content) ==
  p :> [kind |-> kind, readable |-> TRUE, size |-> 1, content |-> content,
        group |-> IF Len(p) = 3 THEN SubSeq(p, 1, 2) ELSE p]
Unreadable == <<1, 9>> :> [kind |-> "source", readable |-> FALSE, size |-> 1, content |-> "text", group |-> <<1, 9>>]
TooLarge == <<2, 1>> :> [kind |-> "source", readable |-> TRUE, size |-> 9, content |-> "text", group |-> <<2, 1>>]

Catalog ==
  { Loosely(<<1, 5, 1>>, "class", "shell"), Loosely(<<1, 5, 2>>, "class", "twin"),
    Loosely(<<1, 5, 3>>, "class", "late"),  Loosely(<<1, 5, 4>>, "class", "odd"),
    Loosely(<<1, 6>>, "class", "bad"),      Loosely(<<1, 7>>, "class", "wide"),
    Loosely(<<1, 8>>, "page", "text"),      Loosely(<<2, 2>>, "class", "plain"),
    Unreadable, TooLarge,
    Loosely(<<1, 1>>, "archive", "war"),    Loosely(<<2, 3>>, "archive", "jar"),
    Loosely(<<2, 4>>, "archive", "unread"), Loosely(<<2, 5>>, "archive", "spent"),
    Loosely(<<2, 6>>, "archive", "mixed"),  Loosely(<<2, 7>>, "archive", "bad") }

MCDisks == {a @@ b @@ c : a \in Catalog, b \in Catalog, c \in Catalog}

\* Directories that cannot be listed, one in another among them, and files that hold a page.
NothingAside == [shut |-> {}, signed |-> <<>>]
PageFile(reads, size) == [reads |-> reads, size |-> size, content |-> "text"]
MCAsides ==
  { NothingAside, [shut |-> {<<1>>, <<1, 5>>}, signed |-> <<1, 5, 9>> :> PageFile("ok", 1)],
    [shut |-> {<<2>>}, signed |-> <<1, 2>> :> PageFile("nothing", 1) @@ <<2, 8>> :> PageFile("ok", 1)],
    [shut |-> {<<1, 4>>}, signed |-> <<1, 2>> :> PageFile("ok", 1)],
    [shut |-> {}, signed |-> <<1, 3>> :> PageFile("ok", 9)] }
\* The instance takes at most two artifacts where there is something beside them.
FewBeside == aside = NothingAside \/ Cardinality(DOMAIN files) <= 2

MCLimits == [entries |-> 10, depth |-> 2, classes |-> 2, retained |-> 3, artifact |-> 3,
             instructions |-> 5, findings |-> 2]

-----------------------------------------------------------------------------
(* Statements.                                                              *)

Bare(name) == [NoExpr EXCEPT !.names = {name}, !.bare = TRUE]
Literal(text) == [NoExpr EXCEPT !.literal = text]
FromRequest == [NoExpr EXCEPT !.names = {"request"}, !.sources = {"request"}]
EngineOf(name) == [NoExpr EXCEPT !.makes = "engine", !.of = name]

Statement(boundary, name, type, assigns, value) ==
  [boundary |-> boundary, name |-> name, type |-> type, assigns |-> assigns, value |-> value,
   declares |-> name # NoText /\ type \notin {NoText, "else"},
   sink |-> "none", arg |-> NoExpr, receiver |-> NoText]
SinkCall(kind, receiver, arg) ==
  [Statement(";", NoText, NoText, FALSE, NoExpr) EXCEPT !.sink = kind, !.arg = arg, !.receiver = receiver]

MCStatements ==
  { Statement("{", NoText, NoText, FALSE, NoExpr), Statement("}", NoText, NoText, FALSE, NoExpr),
    Statement("{", "request", "request", FALSE, NoExpr),
    Statement(";", "a", "String", TRUE, FromRequest), Statement(";", "a", NoText, TRUE, FromRequest),
    Statement(";", "a", "String", TRUE, Literal(Path)), Statement(";", "a", NoText, TRUE, EngineOf("b")),
    Statement(";", "b", NoText, TRUE, Bare("a")), Statement(";", "b", "String", TRUE, Literal(Shell)),
    Statement(";", "b", "engineManager", TRUE, NoExpr), Statement("}", "request", "String", TRUE, Bare("a")),
    Statement(";", "a", "String", FALSE, NoExpr), Statement("{", "b", "String", FALSE, NoExpr),
    Statement(";", "a", "else", TRUE, Literal(Shell)), SinkCall("addFilter", "servletContext", NoExpr),
    SinkCall("exec", NoText, Bare("b")), SinkCall("write", "a", Bare("b")), SinkCall("eval", "a", FromRequest) }

-----------------------------------------------------------------------------
(* Archives.                                                                *)

Segments(s) == [segments |-> s, rooted |-> FALSE, drive |-> FALSE]
Stream(out, in) == [out |-> out, in |-> in, ends |-> TRUE, crc |-> 1,
                    least |-> [o \in 0 .. out |-> IF o = 0 THEN 0 ELSE 1]]
Central(name, flags, method, offset, usize, rank) ==
  [name |-> name, flags |-> flags, method |-> method, crc |-> 1, csize |-> 2, usize |-> usize,
   offset |-> offset, length |-> 4, extras |-> 0, extra |-> <<>>, multiDisk |-> FALSE,
   file |-> [csize |-> 2, usize |-> usize, data |-> offset + 3], stream |-> Stream(usize, 2), priority |-> 0, rank |-> rank]
LocalOf(c, csize, usize, crc) ==
  [name |-> c.name, flags |-> c.flags, method |-> c.method, crc |-> crc, csize |-> csize, usize |-> usize,
   extras |-> 0, extra |-> <<>>, backslash |-> FALSE, length |-> 3]

Stored == Central(Segments(<<"a">>), {}, "store", 0, 2, 1)
Streamed == Central(Segments(<<"b", ".", "a">>), {"descriptor"}, "deflate", 5, 4, 2)

Ordinary ==
  [ends |-> <<[at |-> 21, records |-> 2, onDisk |-> 2, size |-> 8, offset |-> 13, multiDisk |-> FALSE]>>,
   end64 |-> [at |-> 21, records |-> 2, onDisk |-> 2, size |-> 8, offset |-> 13, multiDisk |-> FALSE, exact |-> TRUE],
   directoryAt |-> 13, centrals |-> <<Stored, Streamed>>,
   locals |-> (0 :> LocalOf(Stored, 2, 2, 1) @@ 5 :> LocalOf(Streamed, 0, 0, 0)), words |-> 10 :> <<1, 2, 4>>]

\* ZIP64 sizes and a wide descriptor in the second entry, everything one unit further than it says.
Large ==
  [Ordinary EXCEPT
    !.centrals[1].file.data = 4,
    !.centrals[2] = [@ EXCEPT !.csize = Full, !.usize = Full, !.extras = 1, !.extra = <<4, 2>>, !.file.data = 9],
    !.locals = 1 :> @[0] @@ 6 :> [@[5] EXCEPT !.csize = Full, !.usize = Full, !.extras = 1, !.extra = <<4, 2>>],
    !.words = 11 :> <<Signature, 1, 2, 0, 4, 0>>,
    !.directoryAt = 17, !.ends[1].at = 25, !.ends[1].offset = Full, !.end64.at = 25, !.end64.offset = 16]

\* ZIP64 sizes of the first entry and of the directory.
Long == [Ordinary EXCEPT !.locals[0] = [@ EXCEPT !.usize = Full, !.extras = 1, !.extra = <<2>>],
                         !.ends[1].records = Full, !.ends[1].onDisk = Full]

\* The local header of the first and of the second entry, and a descriptor.
First(a) == CHOOSE o \in DOMAIN a.locals : \A p \in DOMAIN a.locals : o <= p
Second(a) == First(a) + 5
Described(a) == CHOOSE d \in DOMAIN a.words : \A e \in DOMAIN a.words : e <= d
SizesAt(words) == IF Len(words) \in {3, 5} THEN <<2, 3>> ELSE <<3, 4>>

Faults ==
  { <<"none", 0>>, <<"usize", 3>>, <<"csize", 1>>, <<"file", 3>>, <<"first", 5>>, <<"lusize", 3>>, <<"lcsize", 3>>,
    <<"offset", 0>>, <<"offset", 4>>, <<"dcsize", 1>>, <<"dusize", 3>>, <<"dusize", 5>>, <<"nodesc", 3>>, <<"moredesc", 5>>,
    <<"alldesc", 0>>, <<"dwide", 0>>, <<"flags", 0>>, <<"lflags", 0>>, <<"encrypt", 0>>, <<"lname", 0>>, <<"name", 0>>,
    <<"twice", 0>>, <<"unsafe", 0>>, <<"method", 0>>, <<"crc", 2>>, <<"lcrc", 2>>, <<"scrc", 2>>, <<"stream", 5>>,
    <<"stream", 6>>, <<"ends", 0>>, <<"records", 1>>, <<"size", 4>>, <<"eoff", 12>>, <<"extra", 0>>, <<"lextra", 0>>,
    <<"length", 5>>, <<"clen", 5>>, <<"signed", 0>>, <<"sigcrc", 0>>, <<"data", 1>> }

Renamed(a, s) == [a EXCEPT !.centrals[2].name = Segments(s), !.locals[Second(a)].name = Segments(s)]

\* An archive in which one thing is otherwise.
Wrong(a, fault) ==
  LET v == fault[2]
      l == Second(a)
      d == Described(a)
  IN  CASE fault[1] = "usize"   -> [a EXCEPT !.centrals[2].usize = v, !.centrals[2].file.usize = v]
        [] fault[1] = "csize"   -> [a EXCEPT !.centrals[2].csize = v, !.centrals[2].file.csize = v]
        [] fault[1] = "first"   ->
             [a EXCEPT !.centrals[1] = [@ EXCEPT !.usize = v, !.file.usize = v, !.stream = Stream(v, 2)],
                       !.locals[First(a)] = IF @.extra = <<>> THEN [@ EXCEPT !.usize = v] ELSE [@ EXCEPT !.extra = <<v>>]]
        [] fault[1] = "file"    -> [a EXCEPT !.centrals[1].usize = v, !.centrals[1].file.usize = v]
        [] fault[1] = "lusize"  -> [a EXCEPT !.locals[l].usize = v]
        [] fault[1] = "lcsize"  -> [a EXCEPT !.locals[l].csize = v]
        [] fault[1] = "offset"  -> [a EXCEPT !.centrals[2].offset = v]
        [] fault[1] = "dcsize"  -> [a EXCEPT !.words[d][SizesAt(a.words[d])[1]] = v]
        [] fault[1] = "dusize"  -> [a EXCEPT !.words[d][SizesAt(a.words[d])[2]] = v]
        [] fault[1] = "dwide"   -> [a EXCEPT !.words[d] = IF Len(@) = 3 THEN <<@[1], @[2], 0, @[3], 0>> ELSE <<1, 2, 4>>]
        [] fault[1] = "nodesc"  -> [a EXCEPT !.words = v :> @[d]]
        [] fault[1] = "moredesc" -> [a EXCEPT !.words = @ @@ v :> <<1, 2, 2>>]
        [] fault[1] = "signed"  -> [a EXCEPT !.words[d] = <<Signature>> \o @]
        [] fault[1] = "sigcrc"  ->
             [a EXCEPT !.centrals[2].crc = Signature, !.centrals[2].stream.crc = Signature,
                       !.words[d] = IF Len(@) = 3 THEN <<Signature, 2, 4>> ELSE <<Signature, Signature, 2, 0, 4, 0>>]
        [] fault[1] = "data"    -> [a EXCEPT !.centrals[2].file.data = @ + v]
        [] fault[1] = "alldesc" ->
             [a EXCEPT !.centrals[1].flags = {"descriptor"},
                       !.locals[First(a)] = [@ EXCEPT !.flags = {"descriptor"}, !.crc = 0, !.csize = 0, !.usize = 0],
                       !.words = @ @@ l :> <<1, 2, 2>>]
        [] fault[1] = "flags"   -> [a EXCEPT !.centrals[2].flags = {}]
        [] fault[1] = "lflags"  -> [a EXCEPT !.locals[l].flags = {}]
        [] fault[1] = "encrypt" -> [a EXCEPT !.locals[l].flags = @ \cup {"encrypted"}, !.centrals[2].flags = @ \cup {"encrypted"}]
        [] fault[1] = "lname"   -> [a EXCEPT !.locals[l].name = Segments(<<"x">>)]
        [] fault[1] = "name"    -> [a EXCEPT !.centrals[2].name = Segments(<<"x">>)]
        [] fault[1] = "twice"   -> Renamed(a, <<"b", "..", "a">>)
        [] fault[1] = "unsafe"  -> Renamed(a, <<"b", "..", "..", "a">>)
        [] fault[1] = "method"  -> [a EXCEPT !.locals[l].method = "lzma"]
        [] fault[1] = "crc"     -> [a EXCEPT !.centrals[2].crc = v]
        [] fault[1] = "lcrc"    -> [a EXCEPT !.locals[l].crc = v]
        [] fault[1] = "scrc"    -> [a EXCEPT !.centrals[2].stream.crc = v]
        [] fault[1] = "stream"  -> [a EXCEPT !.centrals[2] = [@ EXCEPT !.usize = v, !.file.usize = v, !.stream = Stream(v, 2)]]
        [] fault[1] = "ends"    -> [a EXCEPT !.ends = @ \o @]
        [] fault[1] = "records" -> [a EXCEPT !.ends[1].records = v]
        [] fault[1] = "size"    -> [a EXCEPT !.ends[1].size = v]
        [] fault[1] = "eoff"    -> [a EXCEPT !.ends[1].offset = v]
        [] fault[1] = "extra"   -> [a EXCEPT !.centrals[2].extra = <<4>>]
        [] fault[1] = "lextra"  -> [a EXCEPT !.locals[l].extra = <<4, 2, 0>>]
        [] fault[1] = "length"  -> [a EXCEPT !.locals[l].length = v]
        [] fault[1] = "clen"    -> [a EXCEPT !.centrals[2].length = v]
        [] OTHER -> a

MCArchives == {Wrong(Wrong(a, f), g) : a \in {Ordinary, Large, Long}, f \in Faults, g \in Faults}
MCReadLimits == [compressed |-> 2, expanded |-> 5, total |-> 6, ratio |-> 2, floor |-> 2, chunk |-> 2]
=============================================================================
