----------------------------- MODULE JavaSource -----------------------------
(***************************************************************************)
(* The Java and JSP source analyzer, internal/javadisk/javadisk.go: one     *)
(* pass over the statements of a file, in one flat table of what is known  *)
(* of each name, with what a scope's declarations hide put back when the   *)
(* scope is left. A statement is what the analyzer's patterns see of it;    *)
(* how comments, strings, escapes and parentheses are told apart is not     *)
(* modelled.                                                                *)
(***************************************************************************)
EXTENDS Naturals, Sequences, FiniteSets

CONSTANTS Locals, Statements,
          MaxStatements      \* how long a file may be

\* What a name may be known to be; the last three by the type it is declared with.
Typed == {"request", "objectInput", "groovyShell"}
Receivers == {"engineManager", "engine", "groovyShell", "request", "objectInput", "jndi", "servlet"}
Kinds == Receivers \cup {"tainted", "executablePath", "executableWriter"}
NoText == "none"
Shell == "shell"   \* a literal of reverseShellLiterals
Path == "path"     \* a literal that is an executable path

\* [names] read, [sources] it calls request methods on, a [literal], whether it is a
\* [bare] name, what it [makes], and the name it makes it [of].
NoExpr == [names |-> {}, sources |-> {}, literal |-> NoText, bare |-> FALSE, makes |-> NoText, of |-> NoText]
Mentioned(e) == e.names \cup e.sources \cup {e.of}
Touched(s) == Mentioned(s.arg) \cup Mentioned(s.value) \cup {s.receiver}

\* A statement [declares] its name in the language, which is not what the analyzer goes
\* by: of a type and an assignment it sees both. What is declared is not read in its own
\* declaration, and what is declared with a value has a type.
ASSUME StatementsAssumption ==
  /\ NoText \notin Locals
  /\ \A s \in Statements :
       /\ s.name \in Locals \cup {NoText} /\ s.declares \in BOOLEAN
       /\ s.declares => s.name \in Locals \ Touched(s) /\ (s.assigns => s.type # NoText)
       /\ \A e \in {s.arg, s.value} : e.bare => \E n \in Locals : e.names = {n}

VARIABLES jsp,       \* whether the file is a page
          facts,     \* name -> [is, typed, text]
          scopes,    \* per open scope: declared name -> what it hides
          hits,      \* what the pass found so far
          statements,  \* how many it has read
          env,       \* ghost: what names mean in the language, per scope
          strayed,   \* ghost: names the analyzer has taken for others
          due        \* ghost: what is to be found, by what names mean

javaVars == <<jsp, facts, scopes, hits, statements, env, strayed, due>>

Nothing == [is |-> {}, typed |-> {}, text |-> NoText]
NoNames == [n \in {} |-> Nothing]

\* newAnalyzerState: a page has its implicit objects.
AtFirst == [n \in Locals |-> CASE jsp /\ n = "request" -> [Nothing EXCEPT !.is = {"request"}]
                               [] jsp /\ n = "servletContext" -> [Nothing EXCEPT !.is = {"servlet"}]
                               [] OTHER -> Nothing]

JavaInit == /\ jsp \in BOOLEAN /\ facts = AtFirst /\ scopes = <<NoNames>> /\ hits = {} /\ statements = 0
            /\ env = <<AtFirst>> /\ strayed = {} /\ due = {}

-----------------------------------------------------------------------------
(* Expressions.                                                             *)

Is(f, name, kind) == name \in Locals /\ kind \in f[name].is
InputControlled(f, e) == \/ \E r \in e.sources : Is(f, r, "request")
                         \/ \E n \in e.names : Is(f, n, "tainted")
BareName(e) == CHOOSE n \in e.names : TRUE
IsAlias(f, e, kind) == e.bare /\ Is(f, BareName(e), kind)

\* constantStringValue, and what a constant or a literal says of a path.
Constant(f, e) == IF e.literal # NoText /\ e.names = {} THEN e.literal
                  ELSE IF e.bare THEN f[BareName(e)].text ELSE NoText
HasExecutablePath(f, e) == e.literal = Path \/ IsAlias(f, e, "executablePath")

\* What an expression makes: an engine only from a manager, a writer only onto an
\* executable path, the page's request only in a page.
Makes(f, e) ==
  CASE e.makes = "engine" -> IF Is(f, e.of, "engineManager") THEN {"engine"} ELSE {}
    [] e.makes = "writer" -> IF Is(f, e.of, "executablePath") \/ e.literal = Path THEN {"executableWriter"} ELSE {}
    [] e.makes = "request" -> IF jsp THEN {"request"} ELSE {}
    [] OTHER -> {e.makes} \cap Receivers

\* deriveAssignmentFacts.
Derived(f, e, type) ==
  [is |-> (IF InputControlled(f, e) THEN {"tainted"} ELSE {})
          \cup (IF IF Constant(f, e) # NoText THEN Constant(f, e) = Path ELSE HasExecutablePath(f, e)
                THEN {"executablePath"} ELSE {})
          \cup {k \in Receivers : type = k \/ IsAlias(f, e, k)} \cup Makes(f, e),
   text |-> Constant(f, e)]

\* assign: all that was known goes, but for what the declared type says.
Assigned(known, derived) == [is |-> derived.is \cup known.typed, typed |-> known.typed, text |-> derived.text]

-----------------------------------------------------------------------------
(* Sinks.                                                                   *)

On(f, s, kind) == Is(f, s.receiver, kind)
ArgumentsGiven(f, s) == InputControlled(f, s.arg)

\* What a statement's sink is given, and whether that makes a finding.
ExecHits(f, s) ==
  IF s.sink # "exec" THEN {}
  ELSE (IF ArgumentsGiven(f, s) THEN {"requestExec"} ELSE {}) \cup (IF Constant(f, s.arg) = Shell THEN {"reverseShell"} ELSE {})
WriteHits(f, s) ==
  IF s.sink = "write" /\ ArgumentsGiven(f, s) /\ (On(f, s, "executableWriter") \/ On(f, s, "executablePath"))
  THEN {"fileDrop"} ELSE {}
CodeHits(f, s) ==
  CASE s.sink = "defineClass" -> {"classload"} \cup (IF ArgumentsGiven(f, s) THEN {"classloadInput"} ELSE {})
    [] s.sink = "decode" -> {"encoded"}
    [] s.sink = "eval" -> IF ArgumentsGiven(f, s) /\ (On(f, s, "engine") \/ On(f, s, "groovyShell")) THEN {"scriptEval"} ELSE {}
    [] s.sink = "invoke" -> IF ArgumentsGiven(f, s) THEN {"reflectionInput"} ELSE {}
    [] OTHER -> {}
ContextHits(f, s) ==
  CASE s.sink = "lookup" /\ On(f, s, "jndi") -> {"jndiLookup"}
    [] s.sink = "readObject" /\ On(f, s, "objectInput") -> {"deserialization"}
    [] s.sink = "addFilter" /\ On(f, s, "servlet") -> {"hookRegistration"}
    [] OTHER -> {}
SinkHits(f, s) == ExecHits(f, s) \cup WriteHits(f, s) \cup CodeHits(f, s) \cup ContextHits(f, s)
SourceHits(f, s) == IF \E e \in {s.arg, s.value} : \E r \in e.sources : Is(f, r, "request") THEN {"requestInput"} ELSE {}

-----------------------------------------------------------------------------
(* Scopes.                                                                  *)

\* Mutant: what a second declaration of a name hides is noted over the first.
DeclareAgain(t, name) == [t EXCEPT !.scopes[Len(t.scopes)] = [n \in DOMAIN @ \cup {name} |-> IF n = name THEN t.facts[n] ELSE @[n]]]

\* declare: what the name meant before its first declaration in the scope is kept.
Declare(t, name) ==
  LET top == t.scopes[Len(t.scopes)]
  IN  IF name \in DOMAIN top THEN t
      ELSE [t EXCEPT !.scopes[Len(t.scopes)] = [n \in DOMAIN top \cup {name} |-> IF n = name THEN t.facts[n] ELSE top[n]]]

Push(t) == [t EXCEPT !.scopes = Append(@, NoNames)]
Pop(t) ==
  IF Len(t.scopes) = 1 THEN t
  ELSE LET top == t.scopes[Len(t.scopes)]
       IN  [facts |-> [n \in Locals |-> IF n \in DOMAIN top THEN top[n] ELSE t.facts[n]],
            scopes |-> SubSeq(t.scopes, 1, Len(t.scopes) - 1)]

OfType(known, type) == [known EXCEPT !.typed = @ \cup {type}, !.is = @ \cup {type}]

\* discoverTypedReceivers, whose declarations are of request, stream and shell types.
DeclareTyped(t, s) ==
  IF s.type \notin Typed \/ s.name = NoText THEN t
  ELSE LET u == Declare(t, s.name)
       IN  [u EXCEPT !.facts[s.name] = OfType(@, s.type)]

\* parseAssignment and assign.
Assign(t, s) ==
  IF s.name = NoText \/ ~s.assigns THEN t
  ELSE LET derived == Derived(t.facts, s.value, s.type)
           u == IF s.type = NoText THEN t ELSE Declare(t, s.name)
       IN  [u EXCEPT !.facts[s.name] = Assigned(@, derived)]

-----------------------------------------------------------------------------
(* Ghost: lexical scoping as the language has it, an environment per scope. *)
(* A name is looked up in the innermost scope that declares it; any         *)
(* declaration, with a value or without, of a parameter or a local, gives   *)
(* the name a meaning of its own.                                           *)

Scope(e, name) == CHOOSE i \in DOMAIN e : name \in DOMAIN e[i] /\ \A j \in i + 1 .. Len(e) : name \notin DOMAIN e[j]
Meaning(e) == [n \in Locals |-> e[Scope(e, n)][n]]
Bind(e, name, what) == [e EXCEPT ![Scope(e, name)] = [@ EXCEPT ![name] = what]]
Introduce(e, name, what) == [e EXCEPT ![Len(e)] = [n \in DOMAIN @ \cup {name} |-> IF n = name THEN what ELSE @[n]]]

\* What a statement makes of its name, of which so much was known.
After(s, known, f) ==
  LET typed == IF s.type \in Typed THEN OfType(known, s.type) ELSE known
  IN  IF s.assigns THEN Assigned(typed, Derived(f, s.value, s.type)) ELSE typed

InScope(e, s) == IF s.boundary = "{" THEN Append(e, NoNames) ELSE e
Lexical(e0, s) ==
  LET e1 == InScope(e0, s)
      f == Meaning(e1)
      e2 == CASE s.declares -> Introduce(e1, s.name, After(s, Nothing, f))
              [] ~s.declares /\ s.assigns /\ s.name # NoText -> Bind(e1, s.name, After(s, f[s.name], f))
              [] OTHER -> e1
  IN  IF s.boundary = "}" /\ Len(e2) > 1 THEN SubSeq(e2, 1, Len(e2) - 1) ELSE e2

\* Where the analyzer takes one name for another: a declaration through which shows what
\* was known of the name it hides, what it takes for a declaration and is none, a value
\* given to a name whose declaration it has not seen, or one got from such a name.
LooksDeclared(s) == s.type \in Typed \/ (s.assigns /\ s.type # NoText)
Unseen(name) == Scope(env, name) > 1 /\ name \notin DOMAIN scopes[Scope(env, name)]
Strays(s) ==
  /\ s.name # NoText
  /\ \/ s.declares /\ After(s, facts[s.name], facts) # After(s, Nothing, facts)
     \/ LooksDeclared(s) /\ ~s.declares
     \/ s.assigns /\ ~LooksDeclared(s) /\ Unseen(s.name)
     \/ s.assigns /\ Mentioned(s.value) \cap strayed # {}

-----------------------------------------------------------------------------
\* One turn of Analyze's loop: the scope is entered before the statement in front of
\* its brace is looked at, and left after.
Read(s) ==
  /\ statements < MaxStatements
  /\ LET t0 == [facts |-> facts, scopes |-> scopes]
         t1 == IF s.boundary = "{" THEN Push(t0) ELSE t0
         t2 == DeclareTyped(t1, s)
         t3 == Assign(t2, s)
         t4 == IF s.boundary = "}" THEN Pop(t3) ELSE t3
     IN  /\ facts' = t4.facts /\ scopes' = t4.scopes
         /\ hits' = hits \cup SinkHits(t2.facts, s) \cup SourceHits(t2.facts, s)
  /\ statements' = statements + 1
  /\ env' = Lexical(env, s)
  /\ strayed' = strayed \cup (IF Strays(s) THEN {s.name} ELSE {})
  /\ due' = due \cup LET f == Meaning(InScope(env, s))
                      IN  IF Touched(s) \cap strayed' = {} THEN SinkHits(f, s) \cup SourceHits(f, s) ELSE {}
  /\ UNCHANGED jsp

JavaNext == \E s \in Statements : Read(s)

JavaSpec == JavaInit /\ [][JavaNext]_javaVars

\* Analyze's rules, worst first, as <<rule, score>>.
Findings(found) ==
  (IF "requestExec" \in found THEN {<<"request-exec", 85>>}
   ELSE IF "reverseShell" \in found THEN {<<"reverse-shell-literal", 40>>} ELSE {})
  \cup (IF "fileDrop" \in found THEN {<<"file-drop-on-request", 85>>} ELSE {})
  \cup (IF "classloadInput" \in found THEN {<<"dynamic-classload", 85>>}
        ELSE IF {"classload", "encoded"} \subseteq found THEN {<<"dynamic-classload", 75>>} ELSE {})
  \cup (IF "scriptEval" \in found THEN {<<"scriptengine-eval", 75>>} ELSE {})
  \cup (IF "reflectionInput" \in found THEN {<<"reflection-invoke", 75>>} ELSE {})
  \cup (IF found \cap {"deserialization", "jndiLookup"} # {} /\ (jsp \/ "requestInput" \in found)
        THEN {<<"deserialization-jndi", 60>>} ELSE {})
  \cup (IF jsp /\ "hookRegistration" \in found THEN {<<"servlet-hook-registration", 60>>} ELSE {})

-----------------------------------------------------------------------------
\* The flat table with its hidden values put back knows of every name what lexical
\* scoping says, but of the names it has taken for others: no name stays tainted, or a
\* request, because another of that name was in a block that is closed, and none is
\* forgotten for it. What that makes due is found, and scores as much beside anything
\* else that is found; where no name was taken for another nothing else is.
ScopesAreLexical ==
  /\ \A n \in Locals \ strayed : facts[n] = Meaning(env)[n]
  /\ due \subseteq hits /\ (strayed = {} => hits = due)
  /\ \A owed \in Findings(due) : \E found \in Findings(hits) : found[2] >= owed[2]
=============================================================================
