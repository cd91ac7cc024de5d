---------------------------- MODULE RuleLibrary ----------------------------
(***************************************************************************)
(* The console's rule library and rule sets: internal/rules (compile check *)
(* in the context of the library), internal/ruleset (exclusions, freeze),  *)
(* their handlers in internal/httpapi and the statements of store/pg.go.   *)
(* Requests run side by side: an edit is checked, then locked, numbered    *)
(* and inserted; a freeze reads the selection, then the rules, compiles,   *)
(* stores the blob and then records. A rule text is the name it declares   *)
(* and the names its condition refers to; a blob is the set of texts it    *)
(* was compiled from. Failures of the database itself, audit and metadata  *)
(* columns are left out.                                                   *)
(***************************************************************************)
EXTENDS Naturals, Sequences, FiniteSets

CONSTANTS Ids,          \* rule ids, 1 .. n
          Texts,        \* the texts analysts write: [name, refs]
          Library,      \* the rules there are at first: id -> [layer, text]
          Sets,         \* rule sets, created empty
          Selections,   \* the selections analysts make: [layers, rules]
          Writers,      \* requests that create or edit a rule; one each, which
                        \* bounds the rules and revisions there will be
          Freezers,     \* freeze requests
          GraphLoaded   \* somebody called SetGraph

Layers == {"foundation", "own", "custom"}
Editable == {"own", "custom"}

ASSUME LibraryAssumption ==
  /\ Ids \subseteq Nat \ {0}
  /\ DOMAIN Library \subseteq Ids
  /\ \A i \in DOMAIN Library : Library[i].layer \in Layers
  /\ \A s \in Selections : s.layers \subseteq Layers /\ s.rules \subseteq Ids
  /\ GraphLoaded \in BOOLEAN

VARIABLES
  rules,    \* per id: [name, layer, deleted, revs], name "" when the id is unused
  sets,     \* per set: [selection, excluded, frozen, blob, members]
  blobs,    \* contents of the blob store
  job,      \* per writer: [at, op, id, text, number]
  freeze,   \* per freezer: [at, set, selection, pins]
  ruling    \* the last answer about an exclusion: [asked, granted, orphans]

vars == <<rules, sets, blobs, job, freeze, ruling>>

Unused == [name |-> "", layer |-> "own", deleted |-> FALSE, revs |-> <<>>]
NoText == [name |-> "", refs |-> {}]
NoSelection == [layers |-> {}, rules |-> {}]

Init ==
  /\ rules = [i \in Ids |-> IF i \in DOMAIN Library
                            THEN [name |-> Library[i].text.name, layer |-> Library[i].layer,
                                  deleted |-> FALSE, revs |-> <<Library[i].text>>]
                            ELSE Unused]
  /\ sets = [s \in Sets |-> [selection |-> NoSelection, excluded |-> {}, frozen |-> FALSE,
                             blob |-> {}, members |-> {}]]
  /\ blobs = {}
  /\ job = [w \in Writers |-> [at |-> "idle", op |-> "none", id |-> 0, text |-> NoText, number |-> 0]]
  /\ freeze = [f \in Freezers |-> [at |-> "idle", set |-> "none", selection |-> NoSelection, pins |-> {}]]
  /\ ruling = [asked |-> FALSE, granted |-> FALSE, orphans |-> FALSE]

-----------------------------------------------------------------------------
(* Compiling.                                                               *)

\* yr compile over a directory: all of it or nothing. A name declared twice, or a
\* reference nothing declares, fails the whole. `texts` maps something to texts.
Compiles(texts) ==
  /\ \A a, b \in DOMAIN texts : texts[a].name = texts[b].name => a = b
  /\ \A a \in DOMAIN texts : texts[a].refs \subseteq {texts[b].name : b \in DOMAIN texts}

Present(i) == rules[i].name # "" /\ ~rules[i].deleted
Latest(i) == rules[i].revs[Len(rules[i].revs)]

\* AllRuleTexts without the edited rule's own name, keyed by the identifier column,
\* which keeps the name the first revision declared.
Known(text) == {rules[i].name : i \in {i \in Ids : Present(i)}} \ {text.name}
BodyOf(name) == Latest(CHOOSE i \in Ids : Present(i) /\ rules[i].name = name)

\* DependenciesOf: what the text refers to, directly or not.
ContextFor(text) ==
  LET known == Known(text)
      closed(S) == text.refs \cap known \subseteq S
                   /\ \A n \in S : BodyOf(n).refs \cap known \subseteq S
  IN  {n \in known : \A S \in SUBSET known : closed(S) => n \in S}

\* CheckRule.
CheckRule(text) ==
  LET context == ContextFor(text)
  IN  Compiles([n \in context \cup {""} |-> IF n = "" THEN text ELSE BodyOf(n)])

-----------------------------------------------------------------------------
(* The rule library.                                                        *)

\* Create and Edit check the text in the context of the library as it is now.
BeginCreate(w) ==
  /\ job[w].at = "idle"
  /\ \E text \in Texts :
       job' = [job EXCEPT ![w] = [at |-> IF CheckRule(text) THEN "checked" ELSE "refused",
                                  op |-> "create", id |-> 0, text |-> text, number |-> 0]]
  /\ UNCHANGED <<rules, sets, blobs, freeze, ruling>>

\* GetRule finds a deleted rule too.
BeginEdit(w) ==
  /\ job[w].at = "idle"
  /\ \E text \in Texts, i \in Ids :
       /\ rules[i].name # "" /\ rules[i].layer \in Editable
       /\ job' = [job EXCEPT ![w] = [at |-> IF CheckRule(text) THEN "checked" ELSE "refused",
                                     op |-> "edit", id |-> i, text |-> text, number |-> 0]]
  /\ UNCHANGED <<rules, sets, blobs, freeze, ruling>>

\* rules.identifier is UNIQUE, deleted rules included.
CreateRule(w) ==
  /\ job[w].at = "checked" /\ job[w].op = "create"
  /\ LET text == job[w].text
         free == {i \in Ids : rules[i].name = ""}
     IN  IF \E i \in Ids : rules[i].name = text.name
         THEN job' = [job EXCEPT ![w].at = "failed"] /\ UNCHANGED rules
         ELSE \E i \in free :
                /\ \A j \in free : i <= j
                /\ \E layer \in Editable :
                     rules' = [rules EXCEPT ![i] = [name |-> text.name, layer |-> layer,
                                                    deleted |-> FALSE, revs |-> <<text>>]]
                /\ job' = [job EXCEPT ![w].at = "done", ![w].id = i, ![w].number = 1]
  /\ UNCHANGED <<sets, blobs, freeze, ruling>>

\* Mutant: no lock on the parent row.
LockNothing(w) ==
  /\ job[w].at = "checked" /\ job[w].op = "edit"
  /\ job' = [job EXCEPT ![w].at = "locked"]
  /\ UNCHANGED <<rules, sets, blobs, freeze, ruling>>

\* AddRevision: SELECT ... FOR UPDATE on the rule, ...
LockRule(w) ==
  /\ job[w].at = "checked" /\ job[w].op = "edit"
  /\ \A v \in Writers : job[v].id = job[w].id => job[v].at \notin {"locked", "numbered"}
  /\ job' = [job EXCEPT ![w].at = "locked"]
  /\ UNCHANGED <<rules, sets, blobs, freeze, ruling>>

\* ... MAX(revision) + 1, ...
NumberRevision(w) ==
  /\ job[w].at = "locked"
  /\ job' = [job EXCEPT ![w].at = "numbered", ![w].number = Len(rules[job[w].id].revs) + 1]
  /\ UNCHANGED <<rules, sets, blobs, freeze, ruling>>

\* Mutant: the text of the rule is replaced.
ReplaceRevision(w) ==
  /\ job[w].at = "numbered"
  /\ rules' = [rules EXCEPT ![job[w].id].revs = [@ EXCEPT ![Len(@)] = job[w].text]]
  /\ job' = [job EXCEPT ![w].at = "done"]
  /\ UNCHANGED <<sets, blobs, freeze, ruling>>

\* ... and the row, whose key is (rule_id, revision). The identifier stays.
InsertRevision(w) ==
  /\ job[w].at = "numbered"
  /\ IF job[w].number \in DOMAIN rules[job[w].id].revs
     THEN job' = [job EXCEPT ![w].at = "failed"] /\ UNCHANGED rules
     ELSE /\ rules' = [rules EXCEPT ![job[w].id].revs = Append(@, job[w].text)]
          /\ job' = [job EXCEPT ![w].at = "done"]
  /\ UNCHANGED <<sets, blobs, freeze, ruling>>

\* Service.Delete hides the rule; its revisions stay.
DeleteRule(i) ==
  /\ rules[i].name # "" /\ rules[i].layer \in Editable
  /\ rules' = [rules EXCEPT ![i].deleted = TRUE]
  /\ UNCHANGED <<sets, blobs, job, freeze, ruling>>

-----------------------------------------------------------------------------
(* Rule sets.                                                               *)

\* Mutant: a frozen set takes a new selection.
SetAnySelection(s, sel) ==
  /\ sets' = [sets EXCEPT ![s].selection = sel]
  /\ UNCHANGED <<rules, blobs, job, freeze, ruling>>

\* SetSelection, refused for a frozen set.
SetSelection(s, sel) ==
  /\ ~sets[s].frozen
  /\ sets' = [sets EXCEPT ![s].selection = sel]
  /\ UNCHANGED <<rules, blobs, job, freeze, ruling>>

\* Rules that would not compile without the names in `gone`.
Orphans(gone) == {i \in Ids : Present(i) /\ rules[i].name \notin gone /\ Latest(i).refs \cap gone # {}}

\* POST exclusions names the rule twice, and nobody compares: CheckExclusion judges
\* the identifier, of rule `named`, and refuses everything while no graph is loaded;
\* AddExclusion excludes the id i, and does not look whether the set is frozen.
Exclude(s, i, named) ==
  /\ rules[i].name # "" /\ rules[named].name # ""
  /\ LET orphans == Orphans({rules[named].name}) # {}
         granted == GraphLoaded /\ ~orphans
     IN  /\ ruling' = [asked |-> TRUE, granted |-> granted, orphans |-> orphans]
         /\ sets' = [sets EXCEPT ![s].excluded = IF granted THEN @ \cup {i} ELSE @]
  /\ UNCHANGED <<rules, blobs, job, freeze>>

\* ResolveSelection: the latest revision of every rule a selection includes.
Resolve(sel, excluded) ==
  {<<i, Len(rules[i].revs)>> : i \in {i \in Ids \ excluded :
     Present(i) /\ (rules[i].layer \in sel.layers \/ i \in sel.rules)}}

TextOf(pin) == rules[pin[1]].revs[pin[2]]
TextsOf(pins) == [p \in pins |-> TextOf(p)]
Blob(pins) == {<<p[1], TextOf(p)>> : p \in pins}

\* Service.Freeze: the selection is read in one query ...
BeginFreeze(f, s) ==
  /\ freeze[f].at = "idle"
  /\ freeze' = [freeze EXCEPT ![f] = [at |-> "selected", set |-> s,
                                      selection |-> sets[s].selection, pins |-> {}]]
  /\ UNCHANGED <<rules, sets, blobs, job, ruling>>

\* ... and the rules in the next, which are then compiled.
ResolveAndCompile(f) ==
  /\ freeze[f].at = "selected"
  /\ LET pins == Resolve(freeze[f].selection, sets[freeze[f].set].excluded)
     IN  freeze' = [freeze EXCEPT ![f].at = IF pins # {} /\ Compiles(TextsOf(pins)) THEN "compiled" ELSE "refused",
                                  ![f].pins = pins]
  /\ UNCHANGED <<rules, sets, blobs, job, ruling>>

\* The console may die here, and leaves a blob nobody refers to.
PutBlob(f) ==
  /\ freeze[f].at = "compiled"
  /\ blobs' = blobs \cup {Blob(freeze[f].pins)}
  /\ freeze' = [freeze EXCEPT ![f].at = "stored"]
  /\ UNCHANGED <<rules, sets, job, ruling>>

\* store.Freeze, in one transaction, unless the set is frozen by now.
RecordFreeze(f) ==
  /\ freeze[f].at = "stored"
  /\ LET s == freeze[f].set
     IN  IF sets[s].frozen
         THEN freeze' = [freeze EXCEPT ![f].at = "refused"] /\ UNCHANGED sets
         ELSE /\ sets' = [sets EXCEPT ![s].frozen = TRUE, ![s].blob = Blob(freeze[f].pins),
                                      ![s].members = freeze[f].pins]
              /\ freeze' = [freeze EXCEPT ![f].at = "done"]
  /\ UNCHANGED <<rules, blobs, job, ruling>>

\* The console stops: every request in flight ends without an answer.
Restart ==
  /\ freeze' = [f \in Freezers |-> IF freeze[f].at \in {"selected", "compiled", "stored"}
                                   THEN [freeze[f] EXCEPT !.at = "cutOff"] ELSE freeze[f]]
  /\ job' = [w \in Writers |-> IF job[w].at \in {"checked", "locked", "numbered"}
                               THEN [job[w] EXCEPT !.at = "cutOff"] ELSE job[w]]
  /\ UNCHANGED <<rules, sets, blobs, ruling>>

Next ==
  \/ \E w \in Writers : \/ BeginCreate(w) \/ BeginEdit(w) \/ CreateRule(w)
                        \/ LockRule(w) \/ NumberRevision(w) \/ InsertRevision(w)
  \/ \E i \in Ids : DeleteRule(i)
  \/ \E s \in Sets : \/ \E sel \in Selections : SetSelection(s, sel)
                     \/ \E i, named \in Ids : Exclude(s, i, named)
                     \/ \E f \in Freezers : BeginFreeze(f, s)
  \/ \E f \in Freezers : ResolveAndCompile(f) \/ PutBlob(f) \/ RecordFreeze(f)
  \/ Restart

Spec == Init /\ [][Next]_vars

-----------------------------------------------------------------------------
(* Properties.                                                              *)

\* Whatever is edited, renamed or deleted later, a frozen set's blob is in the
\* store, is not empty, and is what its pinned revisions compile to ("a frozen rule
\* set that contains one of those revisions must stay reconstructible",
\* SoftDeleteRule; "compile, store the blob, THEN record", Service.Freeze).
FrozenIsReconstructible ==
  \A s \in Sets : sets[s].frozen =>
    /\ sets[s].members # {} /\ Compiles(TextsOf(sets[s].members))
    /\ sets[s].blob \in blobs /\ sets[s].blob = Blob(sets[s].members)

\* "frozen sets are immutable" (SetSelection): the selection, the members and the
\* blob of a frozen set never change.
FrozenNeverChanges ==
  [][\A s \in Sets : sets[s].frozen => sets'[s] = [sets[s] EXCEPT !.excluded = sets'[s].excluded]]_vars

\* Concurrent edits of one rule are all kept, each under the number it was told: an
\* edit that passed its check never fails on the key (the comment on AddRevision).
EditsAreKept ==
  \A w \in Writers : job[w].op = "edit" =>
    /\ job[w].at # "failed"
    /\ job[w].at = "done" => rules[job[w].id].revs[job[w].number] = job[w].text

\* The compile check "is the only thing standing between a typo and a team-wide
\* outage" (compile.go): what the console accepted can always be frozen as a whole.
LibraryCompiles ==
  Compiles([i \in {i \in Ids : Present(i)} |-> Latest(i)])

\* "CheckExclusion reports whether excluding one rule would orphan another"
\* (ruleset.go): it refuses for that reason.
RefusalHasACause == ruling.asked /\ ~ruling.granted => ruling.orphans
=============================================================================
