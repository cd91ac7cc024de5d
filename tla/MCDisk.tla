------------------------------- MODULE MCDisk -------------------------------
(***************************************************************************)
(* Instances of the parts of the disk view: DiskProbe over pairs of files   *)
(* that share their content, Discovery over hosts and mounted images, the   *)
(* unwrapping of Deobfuscate, and the taint passes of ScriptTaint.          *)
(***************************************************************************)
EXTENDS DiskProbe, Discovery, Deobfuscate, ScriptTaint, TLC

-----------------------------------------------------------------------------
(* Files.                                                                   *)

Content(matches, hits) ==
  [matches |-> matches, binary |-> FALSE, marker |-> FALSE, shebang |-> "none", readsCGI |-> FALSE,
   hits |-> hits, taints |-> {}, layers |-> <<>>, resolved |-> {}, java |-> FALSE]
Tainted(grammar, rule, score) == [grammar |-> grammar, rule |-> rule, score |-> score]

MCTexts ==
  "aspx" :> [Content({"jsp", "asp"}, {"asp1", "any"}) EXCEPT
               !.taints = {Tainted("asp", "asptaint", 85)}, !.layers = <<{"asp1"}>>]
  @@ "jsp" :> [Content({"jsp"}, {"jsp1"}) EXCEPT !.java = TRUE, !.layers = <<{"jsp2"}, {"jsp2"}>>]
  @@ "php" :> [Content({"php"}, {"php1", "typo"}) EXCEPT
               !.taints = {Tainted("php", "phptaint", 85), Tainted("php", "phptaint", 70)}, !.resolved = {"php2"}]
  @@ "perl" :> [Content({"perl"}, {"perl1"}) EXCEPT !.shebang = "perl", !.taints = {Tainted("perl", "pltaint", 85)}]
  @@ "image" :> [Content({"php"}, {"any"}) EXCEPT !.binary = TRUE]
  @@ "poly" :> [Content({"php"}, {"php1"}) EXCEPT !.binary = TRUE, !.marker = TRUE]

RuleFor(lang) == [lang |-> lang, score |-> 70]
MCRules == "asp1" :> RuleFor("asp-family") @@ "any" :> RuleFor("") @@ "jsp1" :> RuleFor("jsp")
           @@ "jsp2" :> RuleFor("web-generic") @@ "php1" :> RuleFor("php") @@ "php2" :> RuleFor("php")
           @@ "perl1" :> RuleFor("perl") @@ "typo" :> RuleFor("phpp")

FileIn(root, name, text) == [root |-> root, name |-> name, text |-> text, kind |-> "regular", size |-> "small",
                           readable |-> TRUE, lineBreak |-> FALSE]
OrdinaryFiles ==
  { FileIn("a", <<"aspx">>, "aspx"), FileIn("b", <<"unknown">>, "aspx"), FileIn("a", <<"jsp", "unknown">>, "jsp"),
    FileIn("a", <<"unknown">>, "jsp"), FileIn("a", <<"php">>, "php"), FileIn("b", <<>>, "php"),
    FileIn("a", <<"perl">>, "perl"), FileIn("b", <<>>, "perl"), FileIn("a", <<"php">>, "poly"), FileIn("a", <<>>, "poly") }
OddFiles ==
  { FileIn("a", <<"unknown">>, "image"), [FileIn("a", <<"jvm">>, "image") EXCEPT !.readable = FALSE],
    [FileIn("b", <<"php">>, "php") EXCEPT !.size = "large"], [FileIn("a", <<"php">>, "php") EXCEPT !.kind = "pipe"],
    [FileIn("a", <<"jsp">>, "jsp") EXCEPT !.kind = "linkIn"], [FileIn("a", <<"unknown">>, "php") EXCEPT !.kind = "linkOut"],
    [FileIn("a", <<"php">>, "php") EXCEPT !.lineBreak = TRUE], [FileIn("a", <<"php">>, "php") EXCEPT !.readable = FALSE] }
MCTrees == {{f, g} : f \in OrdinaryFiles, g \in OrdinaryFiles \cup OddFiles}

CommandLine(usable, rootsGiven, deobf, temp) == [usable |-> usable, roots |-> rootsGiven, deobf |-> deobf, temp |-> temp]
MCCommands == { CommandLine(TRUE, {"a", "b"}, TRUE, "ok"), CommandLine(TRUE, {"a"}, FALSE, "ok"),
                CommandLine(TRUE, {"a", "b"}, TRUE, "none"), CommandLine(FALSE, {"a"}, TRUE, "ok"),
                CommandLine(TRUE, {}, TRUE, "ok") }

-----------------------------------------------------------------------------
(* Hosts.                                                                   *)

DirsOf(paths) == UNION {Prefixes(p) : p \in paths}
Html == <<"var", "www", "html">>
Site == <<"srv", "site">>
TomcatHome == <<"opt", "tomcat">>
ServerHome == <<"opt", "wildfly">>
Mount == <<"mnt", "img">>

MCCandidates == [iis |-> [fixed |-> <<<<"iis.config">>>>, dropIns |-> <<>>],
                 apache |-> [fixed |-> <<<<"etc", "httpd.conf">>>>, dropIns |-> <<<<"etc", "sites">>>>],
                 nginx |-> [fixed |-> <<<<"etc", "nginx.conf">>>>, dropIns |-> <<<<"etc", "conf.d">>>>]]
MCGuesses == [web |-> <<Html, <<"var", "www">>>>, tomcat |-> <<TomcatHome>>, appserver |-> <<ServerHome>>]
MCDeployments == <<<<"standalone", "deployments">>, <<"deployments">>>>
MCComponents == STRING
MCSystemDirs == {<<"etc">>, <<"var">>, <<"opt">>, <<"mnt">>, <<"srv">>}

Configuration(names) == [kind |-> "regular", names |-> names, long |-> FALSE, malformed |-> FALSE,
                         hosts |-> <<>>, contexts |-> <<>>]
ServerXmlOf(hosts, contexts) == [Configuration(<<>>) EXCEPT !.hosts = hosts, !.contexts = contexts]
LinkTo(to, absolute) == [to |-> to, absolute |-> absolute]
NotInstalled == [installed |-> FALSE, names |-> <<>>, files |-> <<>>]

Plain == [dirs |-> DirsOf({Html, Site, <<"etc", "sites">>, <<"etc", "conf.d">>}), locked |-> {}, links |-> <<>>,
          configs |-> <<>>, nginx |-> NotInstalled, apache |-> NotInstalled, env |-> <<>>,
          processes |-> [visible |-> TRUE, tomcat |-> <<>>, servers |-> <<>>], windows |-> FALSE]

\* From anywhere up to the top, and from there by the way in which the filesystem is mounted.
Climb == <<".", "..", "..", "..", "..", "..">> \o Mount \o Site
\* What a configuration may name, and where a web root may lead.
Named == {<<>>, <<"etc">>, Site, Html, <<"var">>, <<"gone">>, <<".", "www">>, <<"srv", "..", "..", "etc">>,
          <<"etc", "httpd.conf">>, Climb}
Leads == {LinkTo(<<>>, TRUE), LinkTo(<<"etc">>, TRUE), LinkTo(Site, TRUE),
          LinkTo(<<"..", "..", "..", "srv">>, FALSE), LinkTo(<<"html">>, FALSE)}

Linked(l) == [Plain EXCEPT !.dirs = @ \ {Html}, !.links = Html :> l,
                           !.configs = <<"etc", "nginx.conf">> :> Configuration(<<Html, Site>>)]
Served(n, m) ==
  [Plain EXCEPT !.configs = <<"etc", "httpd.conf">> :> Configuration(<<n>>)
                              @@ <<"etc", "conf.d", "x">> :> [Configuration(<<m>>) EXCEPT !.long = TRUE],
                !.nginx = [NotInstalled EXCEPT !.installed = TRUE, !.names = <<m>>],
                !.apache = [installed |-> TRUE, names |-> <<n>>,
                            files |-> <<<<"etc", "httpd.conf">>, <<"etc", "sites", "pipe">>>>]]
Piped == [Served(Site, Html) EXCEPT !.configs = @ @@ <<"etc", "sites", "pipe">> :> [Configuration(<<>>) EXCEPT !.kind = "pipe"]]

\* A Tomcat whose configuration is in its place, or elsewhere behind a link, beside
\* other servers' processes, of which one is stale.
Elsewhere == <<"etc", "tom">>
WithTomcat(xml, conf) ==
  [Plain EXCEPT !.dirs = @ \cup DirsOf({TomcatHome \o <<"webapps">>, ServerHome \o <<"deployments">>, Elsewhere})
                           \cup (IF conf = Elsewhere THEN {} ELSE {Append(TomcatHome, "conf")}),
                !.links = IF conf = Elsewhere THEN Append(TomcatHome, "conf") :> LinkTo(conf, TRUE) ELSE <<>>,
                !.configs = Append(conf, "server.xml") :> xml,
                !.env = <<TomcatHome>>,
                !.processes = [visible |-> TRUE, tomcat |-> <<<<"opt">>>>, servers |-> <<ServerHome, <<"opt">>, <<"stale">>>>]]
Tomcats == {WithTomcat(xml, conf) :
              xml \in {ServerXmlOf(<<>>, <<>>), [ServerXmlOf(<<>>, <<>>) EXCEPT !.malformed = TRUE],
                       ServerXmlOf(<<<<".", "apps">>, Site>>, <<<<".", "..", "..", "..", "etc">>, <<>>, Climb>>)},
              conf \in {Append(TomcatHome, "conf"), Elsewhere}}
Windows == [Plain EXCEPT !.windows = TRUE, !.dirs = @ \cup {InetPub},
                         !.configs = <<"iis.config">> :> Configuration(<<Site, InetPub>>)]

LiveHosts == {Linked(l) : l \in Leads} \cup {Served(n, m) : n, m \in Named} \cup {Piped, Windows} \cup Tomcats
               \cup {[Plain EXCEPT !.locked = {Html}], [Plain EXCEPT !.processes.visible = FALSE, !.dirs = {<<"etc">>}]}

\* The same filesystem mounted on a host that has its own.
Mounted(h) == [Plain EXCEPT !.dirs = @ \cup Prefixes(Mount) \cup {Mount \o p : p \in h.dirs},
                 !.links = [q \in {Mount \o p : p \in DOMAIN h.links} |-> h.links[SubSeq(q, 3, Len(q))]],
                 !.configs = [q \in {Mount \o p : p \in DOMAIN h.configs} |-> h.configs[SubSeq(q, 3, Len(q))]]]

Everywhere == [explicit |-> <<>>, disabled |-> FALSE, refuse |-> {}, root |-> <<>>]
Mechanisms == {"iis-default", "iis-config", "apache-config", "apache-dump", "nginx-config", "nginx-dump", "tomcat-env",
               "tomcat-process", "tomcat-convention", "appserver-process", "appserver-convention", "convention"}
LiveSearches ==
  { Everywhere, [Everywhere EXCEPT !.disabled = TRUE],
    [Everywhere EXCEPT !.explicit = <<<<"var", "www">>, Html, <<"var">>, Html, <<"gone">>, <<"etc", "httpd.conf">>>>] }
  \cup {[Everywhere EXCEPT !.refuse = {m}] : m \in Mechanisms}
ImageSearches == {[Everywhere EXCEPT !.root = Mount],
                  [Everywhere EXCEPT !.explicit = <<Mount \o Html, Site>>, !.root = Mount]}

Starts == (LiveHosts \X LiveSearches) \cup ({Mounted(h) : h \in LiveHosts} \X ImageSearches)
MCHosts == {s[1] : s \in Starts}
MCSearches == LiveSearches \cup ImageSearches

-----------------------------------------------------------------------------
(* Encoded texts: a is the file, b and c are what may be inside it.         *)

TextOf(size) ==
  [size |-> size, escaped |-> FALSE, marked |-> TRUE, normal |-> "b", sinks |-> {}, names |-> {}, encoded |-> TRUE,
   evals |-> <<>>, hexes |-> <<>>, blobs |-> <<>>, chars |-> <<>>, inflated |-> <<>>, rotated |-> "empty",
   folded |-> "a", dispatches |-> 0]

Outer ==
  {[TextOf(1) EXCEPT !.evals = e, !.blobs = b, !.rotated = r] :
     e, b \in {<<>>, <<"b", "c">>, <<"a">>, <<"c">>}, r \in {"empty", "c"}}
  \cup {[TextOf(1) EXCEPT !.encoded = FALSE, !.escaped = es, !.folded = f, !.hexes = <<"c">>, !.dispatches = 1] :
          es \in BOOLEAN, f \in {"a", "b", "c"}}
Inner == {[TextOf(1) EXCEPT !.folded = IF e = <<>> THEN "b" ELSE "empty", !.chars = e, !.blobs = b, !.inflated = i, !.sinks = {"exec"}, !.names = {"exec"}] :
            e \in {<<>>, <<"c">>}, b \in {<<>>, <<"a", "c">>}, i \in {<<>>, <<[whole |-> "c", cut |-> "a"]>>}}
Innermost == {[TextOf(size) EXCEPT !.folded = "b", !.hexes = e, !.blobs = b] :
                size \in {1, 3}, e \in {<<>>, <<"a">>}, b \in {<<>>, <<"b">>}}
MCCorpora == {"a" :> x @@ "b" :> y @@ "c" :> z @@ "empty" :> [TextOf(0) EXCEPT !.folded = "empty"] :
                x \in Outer, y \in Inner, z \in Innermost}

-----------------------------------------------------------------------------
(* Pages.                                                                   *)

Blank == [bound |-> Nobody, owns |-> {}, locals |-> {}, declares |-> FALSE, into |-> {}, reads |-> {}, source |-> "no",
          number |-> FALSE, body |-> FALSE, makes |-> Nobody, calls |-> <<>>, opens |-> Nobody, onto |-> Nobody,
          saves |-> FALSE, writes |-> [handle |-> Nobody, reads |-> {}, source |-> "no"]]
Assignment(name, reads, from) == [Blank EXCEPT !.into = {name}, !.reads = reads, !.source = from]
Call(sink, receiver, reads, from, literal) ==
  [sink |-> sink, form |-> "call", receiver |-> receiver, reads |-> reads, source |-> from,
   literal |-> literal, defines |-> FALSE]
Calling(cs) == [Blank EXCEPT !.calls = cs]
Declaring(owned, really) == [Blank EXCEPT !.declares = TRUE, !.owns = owned, !.locals = really]

AspLines ==
  { Assignment("a", {}, "request"), Assignment("b", {"a"}, "no"), [Assignment("b", {"a"}, "no") EXCEPT !.number = TRUE],
    [Declaring({"a"}, {"a"}) EXCEPT !.bound = "open"], [Declaring({}, {}) EXCEPT !.bound = "close"],
    Declaring({"a", "b"}, {"b"}),
    Calling(<<Call("Execute", Nobody, {"a"}, "no", FALSE)>>),
    Calling(<<Call("Execute", Nobody, {"b"}, "no", TRUE), Call("Execute", Nobody, {}, "request", FALSE)>>),
    Calling(<<Call("WScriptShell", "o", {"b"}, "no", TRUE)>>),
    [Assignment("o", {}, "no") EXCEPT !.makes = "wscript.shell"], [Assignment("o", {}, "no") EXCEPT !.makes = "adodb.stream"],
    [Blank EXCEPT !.opens = "o", !.onto = "executable", !.saves = TRUE], [Blank EXCEPT !.opens = "o", !.onto = "other"],
    [Blank EXCEPT !.writes = [handle |-> "o", reads |-> {"a"}, source |-> "no"]],
    [Calling(<<Call("Execute", Nobody, {"a"}, "no", FALSE)>>) EXCEPT !.declares = TRUE] }
PerlLines ==
  { Assignment("a", {}, "request"), Assignment("a", {}, "stdin"), [Assignment("a", {}, "stdin") EXCEPT !.body = TRUE],
    [Assignment("a", {"o"}, "no") EXCEPT !.into = {"a", "b"}], Assignment("o", {"a"}, "no"),
    Calling(<<Call("system", Nobody, {}, "no", FALSE), Call("system", Nobody, {"b"}, "no", FALSE)>>),
    Calling(<<Call("eval", Nobody, {}, "stdin", FALSE), [Call("system", Nobody, {"a"}, "no", FALSE) EXCEPT !.defines = TRUE]>>) }
SsiLines ==
  { Assignment("a", {}, "request"), Assignment("b", {"a"}, "no"), Assignment("o", {"b"}, "no"),
    Calling(<<Call("exec cmd", Nobody, {"o"}, "no", FALSE)>>), Calling(<<Call("exec cgi", Nobody, {"a"}, "no", FALSE)>>),
    Calling(<<Call("include file", Nobody, {}, "request", FALSE)>>) }

UpTo(lines, n) == UNION {[1 .. k -> lines] : k \in 0 .. n}
PageOf(grammar, lines) == [grammar |-> grammar, large |-> FALSE, statements |-> lines, tags |-> [n \in {} |-> Nobody]]
MCPages ==
  {PageOf("asp", s) : s \in UpTo(AspLines, 3)}
  \cup {[PageOf("asp", s) EXCEPT !.tags = "o" :> "wscript.shell"] : s \in UpTo(AspLines, 2)}
  \cup {PageOf("asp", <<Assignment("a", {}, "request")>> \o s) : s \in [1 .. 3 -> AspLines]}
  \cup {PageOf("perl", s) : s \in UpTo(PerlLines, 4)} \cup {PageOf("ssi", s) : s \in UpTo(SsiLines, 4)}
  \cup {[PageOf("ssi", <<>>) EXCEPT !.large = TRUE]}
=============================================================================
