----------------------------- MODULE ScriptTaint -----------------------------
(***************************************************************************)
(* The three taint passes that follow names rather than a syntax tree:      *)
(* internal/asptaint (ASP and the pages written like it), perlpytaint and   *)
(* ssitaint. Each reads a page as assignments, spreads taint over them in   *)
(* rounds, without regard to order, and reports the sinks a tainted name    *)
(* reaches. A statement is what the patterns of its pass see of it; how a   *)
(* page is cut into statements is not modelled.                             *)
(***************************************************************************)
EXTENDS Naturals, Sequences, FiniteSets

CONSTANTS Names,
          Pages,       \* [grammar, large, statements, tags]
          MaxRounds    \* the rounds of the first two passes

Nobody == "none"

\* Statements speak of names; what a declaration declares is among what it mentions.
ASSUME PagesAssumption ==
  \A p \in Pages : \A i \in DOMAIN p.statements :
    LET s == p.statements[i]
    IN  /\ s.into \subseteq Names /\ s.reads \subseteq Names /\ s.locals \subseteq s.owns
        /\ \A k \in DOMAIN s.calls : s.calls[k].reads \subseteq Names

\* A page is a sequence of statements, and each has its calls in a sequence. A statement
\* of a page of includes is one directive: it sets one name at most, in no routine.
ASSUME StatementsInOrder ==
  \A p \in Pages :
    /\ Len(p.statements) \in Nat /\ DOMAIN p.statements = 1 .. Len(p.statements)
    /\ \A i \in DOMAIN p.statements :
         LET s == p.statements[i]
         IN  /\ Len(s.calls) \in Nat /\ DOMAIN s.calls = 1 .. Len(s.calls)
             /\ p.grammar = "ssi" => s.bound = Nobody /\ \A m, n \in s.into : m = n

VARIABLES page, tainted, at, round, grew, doing, proven

taintVars == <<page, tainted, at, round, grew, doing, proven>>

TaintInit == /\ page \in Pages
             /\ tainted = {} /\ at = 1 /\ round = 0 /\ grew = FALSE
             /\ doing = "sweep" /\ proven = {}

-----------------------------------------------------------------------------
(* Sources and scopes.                                                      *)

Lines(p) == DOMAIN p.statements
Line(p, i) == p.statements[i]
CallsOf(s) == {s.calls[k] : k \in DOMAIN s.calls}

\* Whether a Perl or Python file is a CGI program at all; only then is its standard
\* input a request's body.
Framed(p) == \E i \in Lines(p) : \/ Line(p, i).source = "request"
                                 \/ \E c \in CallsOf(Line(p, i)) : c.source = "request"
Given(p, source) == \/ source = "request"
                    \/ p.grammar = "perl" /\ source = "stdin" /\ Framed(p)

\* scopeOf: the routine a statement is in, 0 for the file body.
Opened(p, i) == Cardinality({j \in 1 .. i : Line(p, j).bound = "open"})
Bounds(p, i) == {j \in 1 .. i - 1 : Line(p, j).bound # Nobody}
Around(p, i) ==
  IF Bounds(p, i) = {} THEN 0
  ELSE LET last == CHOOSE j \in Bounds(p, i) : \A k \in Bounds(p, i) : k <= j
       IN  IF Line(p, last).bound = "open" THEN Opened(p, last) ELSE 0
ScopeOf(p, i) == IF Line(p, i).bound = "open" THEN Opened(p, i) ELSE Around(p, i)

\* The names a routine owns: every name its declarations mention.
Owned(p, r) == UNION {Line(p, i).owns : i \in {j \in Lines(p) : ScopeOf(p, j) = r /\ Line(p, j).bound # "close"}}

\* Mutant: a name is the same name everywhere in the file.
KeyByName(p, i, n) == <<0, n>>
Key(p, i, n) == IF ScopeOf(p, i) # 0 /\ n \in Owned(p, ScopeOf(p, i)) THEN <<ScopeOf(p, i), n>> ELSE <<0, n>>

\* What is given by the request, or read from a tainted name: an expression, an argument.
Carries(p, i, x, T) == Given(p, x.source) \/ \E n \in x.reads : Key(p, i, n) \in T

\* assignmentsIn: an ASP value made a number carries nothing, and a Perl program's body is
\* read only where it has one.
AspAssigns(p, i) == ~Line(p, i).number
PerlAssigns(p, i) == Line(p, i).body => Framed(p)
Assigns(p, i) == /\ Line(p, i).into # {}
                 /\ p.grammar = "asp" => AspAssigns(p, i)
                 /\ p.grammar = "perl" => PerlAssigns(p, i)

-----------------------------------------------------------------------------
(* Sinks.                                                                   *)

\* The object a method has to be called on.
Owner(sink) == CASE sink = "ScriptControl" -> "scriptcontrol" [] sink = "WScriptShell" -> "wscript.shell"
                 [] sink = "ShellApplication" -> "shell.application" [] sink = "LosFormatter" -> "losformatter"
                 [] sink = "ObjectStateFormatter" -> "objectstateformatter"
                 [] sink = "RuntimeCompile" -> "csharpcodeprovider" [] OTHER -> Nobody

\* comObjects and objectTagObjects: the last object the page makes for the name, else
\* the one its tag declares.
Makers(p, n) == {i \in Lines(p) : Line(p, i).makes # Nobody /\ n \in Line(p, i).into}
Object(p, n) == IF Makers(p, n) # {}
                THEN Line(p, CHOOSE i \in Makers(p, n) : \A j \in Makers(p, n) : j <= i).makes
                ELSE IF n \in DOMAIN p.tags THEN p.tags[n] ELSE Nobody

\* isCodeTemplate excuses code the page writes itself with a name in it.
Excused(c) == c.sink = "Execute" /\ c.literal /\ c.source # "request"

\* ASP judges the first call of each form in a statement, on the object it needs.
FirstOfForm(calls, k) == \A h \in 1 .. k - 1 : <<calls[h].sink, calls[h].form>> # <<calls[k].sink, calls[k].form>>
AspReaches(p, i, k, T) ==
  LET c == Line(p, i).calls[k]
  IN  /\ ~Line(p, i).declares
      /\ FirstOfForm(Line(p, i).calls, k)
      /\ Owner(c.sink) = Nobody \/ Object(p, c.receiver) = Owner(c.sink)
      /\ ~Excused(c)
      /\ Carries(p, i, c, T)

\* Perl and Python judge every call, but for what defines a function of the sink's name.
PerlReaches(p, i, k, T) == LET c == Line(p, i).calls[k] IN ~c.defines /\ Carries(p, i, c, T)

\* An include page reports the first sink of each family.
Family(sink) == CASE sink \in {"exec cmd", "exec cgi"} -> "SSIExec"
                  [] sink \in {"include virtual", "include file"} -> "SSIInclude" [] OTHER -> sink
Precedes(i, k, j, h) == i < j \/ (i = j /\ k < h)
SsiReaches(p, i, k, T) ==
  LET c == Line(p, i).calls[k]
  IN  /\ Carries(p, i, c, T)
      /\ \A j \in Lines(p) : \A h \in DOMAIN Line(p, j).calls :
           LET d == Line(p, j).calls[h]
           IN  Precedes(j, h, i, k) /\ Family(d.sink) = Family(c.sink) => ~Carries(p, j, d, T)

Reaches(p, i, k, T) == \/ p.grammar = "asp" /\ AspReaches(p, i, k, T)
                       \/ p.grammar = "perl" /\ PerlReaches(p, i, k, T)
                       \/ p.grammar = "ssi" /\ SsiReaches(p, i, k, T)
SinkFindings(p, T) ==
  UNION {{Line(p, i).calls[k].sink : k \in {h \in DOMAIN Line(p, i).calls : Reaches(p, i, h, T)}} : i \in Lines(p)}

\* fileDrops: the last place each handle was opened onto, a stream's by its saving.
Openings(p, h) == {i \in Lines(p) : /\ Line(p, i).opens = h
                                    /\ Line(p, i).saves => Object(p, h) = "adodb.stream"}
Destination(p, h) == Line(p, CHOOSE i \in Openings(p, h) : \A j \in Openings(p, h) : j <= i).onto
Written(p, T) ==
  {Line(p, i).writes : i \in {j \in Lines(p) :
     LET w == Line(p, j).writes
     IN  ~Line(p, j).declares /\ w.handle # Nobody /\ Openings(p, w.handle) # {} /\ Carries(p, j, w, T)}}
Drops(p, T) ==
  IF p.grammar # "asp" \/ Written(p, T) = {} THEN {}
  ELSE IF \E w \in Written(p, T) : Destination(p, w.handle) \in {"executable", "request"}
       THEN {"file-drop-on-request"} ELSE {"request-content-file-write"}

-----------------------------------------------------------------------------
\* A page beyond maxInput is not analysed.
Skip == /\ doing = "sweep" /\ page.large
        /\ doing' = "done"
        /\ UNCHANGED <<page, tainted, at, round, grew, proven>>

\* One assignment in a round of the fixpoint.
Propagate ==
  /\ doing = "sweep" /\ ~page.large /\ at <= Len(page.statements)
  /\ tainted' = tainted \cup IF Assigns(page, at) /\ Carries(page, at, Line(page, at), tainted)
                             THEN {Key(page, at, n) : n \in Line(page, at).into} ELSE {}
  /\ grew' = (grew \/ tainted' # tainted)
  /\ at' = at + 1
  /\ UNCHANGED <<page, round, doing, proven>>

\* Mutant: ssitaint's rounds are bounded as the others' are.
RoundsAlike(p) == MaxRounds

\* ssitaint's rounds are as many as its chains can be long.
Rounds(p) == IF p.grammar = "ssi" THEN Len(p.statements) + 1 ELSE MaxRounds

EndRound ==
  /\ doing = "sweep" /\ ~page.large /\ at > Len(page.statements)
  /\ round' = round + 1
  /\ IF grew /\ round' < Rounds(page)
     THEN at' = 1 /\ grew' = FALSE /\ doing' = doing
     ELSE doing' = "judge" /\ UNCHANGED <<at, grew>>
  /\ UNCHANGED <<page, tainted, proven>>

JudgeSinks ==
  /\ doing = "judge"
  /\ proven' = SinkFindings(page, tainted) \cup Drops(page, tainted)
  /\ doing' = "done"
  /\ UNCHANGED <<page, tainted, at, round, grew>>

TaintNext == Skip \/ Propagate \/ EndRound \/ JudgeSinks
TaintSpec == TaintInit /\ [][TaintNext]_taintVars

-----------------------------------------------------------------------------
(* What a flow is: the names as the language scopes them, where a routine   *)
(* owns what it really declares, and the least set of them that is closed   *)
(* under the page's assignments.                                            *)

Declared(p, r) == UNION {Line(p, i).locals : i \in {j \in Lines(p) : ScopeOf(p, j) = r /\ Line(p, j).bound # "close"}}
Variable(p, i, n) == IF ScopeOf(p, i) # 0 /\ n \in Declared(p, ScopeOf(p, i)) THEN <<ScopeOf(p, i), n>> ELSE <<0, n>>
Variables(p) == {Variable(p, i, n) : i \in Lines(p), n \in Names}

Fed(p, i, x, T) == Given(p, x.source) \/ \E n \in x.reads : Variable(p, i, n) \in T
Closed(p, T) == \A i \in Lines(p) : Assigns(p, i) /\ Fed(p, i, Line(p, i), T)
                                      => \A n \in Line(p, i).into : Variable(p, i, n) \in T
Flows(p) == {v \in Variables(p) : \A T \in SUBSET Variables(p) : Closed(p, T) => v \in T}

\* What is reported as proven is: a sink, or a write, of the page really is given the
\* request's data along its assignments, never another routine's name of the same
\* spelling, a declaration of the sink or a prompt of a program that is no CGI.
ProvenMeansAFlow ==
  \A f \in proven : \E i \in Lines(page) :
    \/ \E c \in CallsOf(Line(page, i)) : /\ c.sink = f
                                        /\ ~(page.grammar = "perl" /\ c.defines)
                                        /\ ~(page.grammar = "asp" /\ Line(page, i).declares)
                                        /\ Fed(page, i, c, Flows(page))
    \/ /\ f \in {"file-drop-on-request", "request-content-file-write"}
       /\ Line(page, i).writes.handle # Nobody
       /\ Fed(page, i, Line(page, i).writes, Flows(page))

\* No family of sinks of a page of includes that the request reaches is missed, however
\* long the chain and in whatever order it is written.
IncludesMissNothing ==
  doing = "done" /\ page.grammar = "ssi" /\ ~page.large =>
    \A i \in Lines(page) : \A c \in CallsOf(Line(page, i)) :
      Fed(page, i, c, Flows(page)) => \E f \in proven : Family(f) = Family(c.sink)
=============================================================================
