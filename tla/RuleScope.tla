------------------------------ MODULE RuleScope ------------------------------
(***************************************************************************)
(* What a file may be examined by: the language its name claims            *)
(* (internal/weblang), the languages its content may be written in          *)
(* (cmd/diskprobe/langsign.go), and the admission of rules, taint passes   *)
(* and decoded layers from the two (rulegate.go, deobfscan.go). A suffix    *)
(* is the language it identifies, or "unknown"; a name is the sequence of   *)
(* its suffixes; what the sign patterns match is data of the content.       *)
(***************************************************************************)
EXTENDS Naturals, Sequences, FiniteSets

Source == {"php", "jsp", "asp", "aspx", "perl", "python", "cgi", "shtml"}
Contexts == Source \cup {"config", "static", "jvm", "unknown"}

\* Classify and inferFileContext: the last suffix that identifies a language, where
\* one before the last counts only if it is of server-parsed source.
Claims(name) == {i \in DOMAIN name : name[i] # "unknown" /\ (i = Len(name) \/ name[i] \in Source)}
Classify(name) ==
  IF Claims(name) = {} THEN "unknown"
  ELSE name[CHOOSE i \in Claims(name) : \A j \in Claims(name) : j <= i]

\* signsFor: every language whose pattern matches; binary content only behind a long
\* marker. ASP.NET has ASP's pattern, CGI those of Perl and of Python.
SignsFor(content) ==
  IF content.binary /\ ~content.marker THEN {}
  ELSE content.matches
       \cup (IF "asp" \in content.matches THEN {"aspx"} ELSE {})
       \cup (IF {"perl", "python"} \cap content.matches # {} THEN {"cgi"} ELSE {})

-----------------------------------------------------------------------------
(* Rules.                                                                   *)

\* What a rule may declare, "" being no declaration; anything else is misspelt.
Languages == {"", "web-generic", "jsp", "java", "aspx", "dotnet", "asp-family", "perl", "python", "php", "asp", "shtml"}

LangCompatible(lang, context) ==
  CASE lang = "web-generic" -> context \in {"php", "jsp", "asp", "aspx", "config"}
    [] lang \in {"jsp", "java"} -> context = "jsp"
    [] lang \in {"aspx", "dotnet"} -> context = "aspx"
    [] lang = "asp-family" -> context \in {"asp", "aspx", "config"}
    [] lang \in {"perl", "python"} -> context \in {lang, "cgi"}
    [] lang \in {"php", "asp", "shtml"} -> context = lang
    [] OTHER -> context # "unknown"    \* a misspelt declaration narrows nothing

DeclaredLangs(lang) ==
  CASE lang = "web-generic" -> {"php", "jsp", "asp", "aspx"}
    [] lang \in {"jsp", "java"} -> {"jsp"}
    [] lang \in {"aspx", "dotnet"} -> {"aspx"}
    [] lang = "asp-family" -> {"asp", "aspx"}
    [] lang \in {"perl", "python"} -> {lang, "cgi"}
    [] lang \in {"php", "asp", "shtml"} -> {lang}
    [] OTHER -> {}

\* Mutant: a declaration is met only by a name, as before names were widened.
AdmissionByName(lang, name, signs) ==
  IF lang = "" THEN "undeclared" ELSE IF LangCompatible(lang, Classify(name)) THEN "declared" ELSE "refused"

\* ruleAdmission: by declaration where the name claims a language, by content only
\* where it claims none.
RuleAdmission(lang, name, signs) ==
  CASE lang = "" -> "undeclared"
    [] lang # "" /\ LangCompatible(lang, Classify(name)) -> "declared"
    [] lang # "" /\ ~LangCompatible(lang, Classify(name)) /\ Classify(name) = "unknown"
         /\ DeclaredLangs(lang) \cap signs # {} -> "unknown-language"
    [] OTHER -> "refused"

-----------------------------------------------------------------------------
(* Passes.                                                                  *)

PassAdmits(name, lang, signs) == Classify(name) = lang \/ (Classify(name) = "unknown" /\ lang \in signs)
WebshellLike(name, signs) == Classify(name) \in Source \/ (Classify(name) = "unknown" /\ signs # {})

\* perlPyLang, and what perlpytaintFindings makes of a name that claims nothing: the
\* program that a CGI's first line names, else Perl. Only a file without any suffix is
\* asked whether it reads a CGI variable, and the answer no is not the last word.
Interpreter(content) == IF content.shebang # "none" THEN content.shebang ELSE "perl"
PerlPyLang(name, content) ==
  CASE Classify(name) \in {"perl", "python"} -> Classify(name)
    [] Classify(name) = "cgi" -> Interpreter(content)
    [] name = <<>> /\ content.shebang # "none" /\ content.readsCGI -> content.shebang
    [] OTHER -> "none"
PerlPyGrammar(name, content, signs) ==
  IF PerlPyLang(name, content) # "none" THEN PerlPyLang(name, content)
  ELSE IF Classify(name) = "unknown" /\ "cgi" \in signs THEN Interpreter(content) ELSE "none"

\* The grammars a file is offered to.
Grammars(name, content, signs) ==
  {g \in {"php", "shtml"} : PassAdmits(name, g, signs)}
  \cup (IF PassAdmits(name, "asp", signs) \/ PassAdmits(name, "aspx", signs) THEN {"asp"} ELSE {})
  \cup ({PerlPyGrammar(name, content, signs)} \ {"none"})

-----------------------------------------------------------------------------
(* Decoded layers.                                                          *)

Preference == <<"php", "jsp", "asp", "aspx", "perl", "python", "cgi", "shtml">>

\* mirrorExtFor: the suffix a layer wears, which the rules are admitted by.
MirrorExt(name, signs) ==
  LET matching == {i \in DOMAIN Preference : Preference[i] \in signs}
  IN  IF Classify(name) # "unknown" THEN Classify(name)
      ELSE IF matching = {} THEN "php"
      ELSE Preference[CHOOSE i \in matching : \A j \in matching : i <= j]
=============================================================================
