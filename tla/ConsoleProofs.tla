---------------------------- MODULE ConsoleProofs ---------------------------
(***************************************************************************)
(* The rule library: edits are kept and frozen sets stay what they were,    *)
(* for every library, any texts, and any number of analysts and rule sets.  *)
(* Agent builds: releases are whole and agents are what they say, for any   *)
(* release folders, any number of publishers and builders, any shortening   *)
(* of a build's id, and however many blobs the store loses or changes.      *)
(* Triage: pages are whole, for any findings and any number of analysts.    *)
(***************************************************************************)
EXTENDS AgentBuild, Triage, NumberLemmas, SequenceTheorems, TLAPS

AllTexts == Texts \cup {Library[i].text : i \in DOMAIN Library} \cup {NoText}
RuleNames == {""} \cup {t.name : t \in AllTexts}
Pins == Ids \X Nat
Blobs == SUBSET (Ids \X AllTexts)
AllSelections == Selections \cup {NoSelection}

Rule == [name : RuleNames, layer : Layers, deleted : BOOLEAN, revs : Seq(AllTexts)]
Job == [at : {"idle", "checked", "refused", "locked", "numbered", "done", "failed", "cutOff"},
        op : {"none", "create", "edit"}, id : Ids \cup {0}, text : AllTexts, number : Nat]
Freezing == [at : {"idle", "selected", "compiled", "refused", "stored", "done", "cutOff"},
             set : Sets \cup {"none"}, selection : AllSelections, pins : SUBSET Pins]
RuleSet == [selection : AllSelections, excluded : SUBSET Ids, frozen : BOOLEAN,
            blob : Blobs, members : SUBSET Pins]

LibraryTypeOK ==
  /\ rules \in [Ids -> Rule]
  /\ sets \in [Sets -> RuleSet]
  /\ blobs \in SUBSET Blobs
  /\ job \in [Writers -> Job]
  /\ freeze \in [Freezers -> Freezing]
  /\ ruling \in [asked : BOOLEAN, granted : BOOLEAN, orphans : BOOLEAN]

\* A rule that is there has a revision.
RulesHaveTexts == \A i \in Ids : rules[i].name # "" => rules[i].revs # <<>>

\* An edit is of a rule that is there; one edit of a rule at a time is past the lock,
\* and it has the next number; an edit that is done is under its number.
InLock(w) == job[w].at \in {"locked", "numbered"}
EditInOrder(w) ==
  /\ job[w].op = "edit" => job[w].id \in Ids /\ rules[job[w].id].name # "" /\ job[w].at # "failed"
  /\ InLock(w) => job[w].op = "edit"
  /\ job[w].at = "numbered" => job[w].number = Len(rules[job[w].id].revs) + 1
  /\ job[w].op = "edit" /\ job[w].at = "done" =>
       /\ job[w].number \in DOMAIN rules[job[w].id].revs
       /\ rules[job[w].id].revs[job[w].number] = job[w].text
EditsInOrder ==
  /\ \A w \in Writers : EditInOrder(w)
  /\ \A v, w \in Writers : v # w /\ job[v].id = job[w].id => ~(InLock(v) /\ InLock(w))

\* Every pin is a revision of a rule that is there, and together they compile.
Pinned(pins) == \A p \in pins : rules[p[1]].name # "" /\ p[2] \in DOMAIN rules[p[1]].revs
Sound(pins) == pins # {} /\ Pinned(pins) /\ Compiles(TextsOf(pins))

\* A freeze that compiled holds a sound selection, and its blob once it is stored.
FreezeIsSound(f) ==
  /\ freeze[f].at \in {"selected", "compiled", "stored"} => freeze[f].set \in Sets
  /\ freeze[f].at \in {"compiled", "stored"} => Sound(freeze[f].pins)
  /\ freeze[f].at = "stored" => Blob(freeze[f].pins) \in blobs
FreezesAreSound == \A f \in Freezers : FreezeIsSound(f)

FrozenIsSound(s) ==
  Sound(sets[s].members) /\ sets[s].blob = Blob(sets[s].members) /\ sets[s].blob \in blobs
FrozenAreSound == \A s \in Sets : sets[s].frozen => FrozenIsSound(s)

LibraryInv == /\ LibraryTypeOK /\ RulesHaveTexts /\ EditsInOrder
              /\ FreezesAreSound /\ FrozenAreSound

-----------------------------------------------------------------------------
(* Types.                                                                   *)

LEMMA InitType == Init => LibraryTypeOK
<1> SUFFICES ASSUME Init PROVE LibraryTypeOK
  OBVIOUS
<1>1. rules \in [Ids -> Rule]
  <2>1. ASSUME NEW i \in Ids PROVE rules[i] \in Rule
    <3>1. CASE i \in DOMAIN Library
      <4>1. Library[i].text \in AllTexts /\ Library[i].text.name \in RuleNames /\ Library[i].layer \in Layers
        BY <3>1, LibraryAssumption DEF AllTexts, RuleNames
      <4>2. rules[i] = [name |-> Library[i].text.name, layer |-> Library[i].layer,
                        deleted |-> FALSE, revs |-> <<Library[i].text>>]
        BY <3>1 DEF Init
      <4> QED BY <4>1, <4>2 DEF Rule
    <3>2. CASE i \notin DOMAIN Library
      <4>1. PICK none : none = <<>> /\ none \in Seq(AllTexts)
        BY EmptySeq
      <4>2. rules[i] = [name |-> "", layer |-> "own", deleted |-> FALSE, revs |-> none]
        BY <3>2, <4>1 DEF Init, Unused
      <4>3. PICK name \in RuleNames, layer \in Layers, deleted \in BOOLEAN :
              name = "" /\ layer = "own" /\ deleted = FALSE
        BY DEF RuleNames, Layers
      <4>4. [name |-> name, layer |-> layer, deleted |-> deleted, revs |-> none] \in Rule
        BY <4>1 DEF Rule
      <4> QED BY <4>2, <4>3, <4>4
    <3> QED BY <3>1, <3>2
  <2> QED BY <2>1 DEF Init
<1>2. sets \in [Sets -> RuleSet]
  BY DEF Init, RuleSet, AllSelections, Pins, Blobs
<1>3. job \in [Writers -> Job]
  BY DEF Init, Job, AllTexts
<1>4. freeze \in [Freezers -> Freezing]
  BY DEF Init, Freezing, AllSelections, Pins
<1> QED BY <1>1, <1>2, <1>3, <1>4 DEF Init, LibraryTypeOK

\* What a selection resolves to are pins.
LEMMA ResolvedArePins ==
  ASSUME LibraryTypeOK, NEW sel, NEW excluded
  PROVE  Resolve(sel, excluded) \in SUBSET Pins
BY DEF LibraryTypeOK, Rule, Resolve, Pins

\* A blob holds texts of the pins it was compiled from.
LEMMA BlobType ==
  ASSUME LibraryTypeOK, NEW pins \in SUBSET Pins, Pinned(pins)
  PROVE  Blob(pins) \in Blobs
<1> SUFFICES ASSUME NEW p \in pins PROVE TextOf(p) \in AllTexts
  BY DEF Blob, Blobs, Pins
<1>1. p[1] \in Ids /\ rules[p[1]].revs \in Seq(AllTexts) /\ p[2] \in DOMAIN rules[p[1]].revs
  BY DEF LibraryTypeOK, Rule, Pins, Pinned
<1> QED BY <1>1 DEF TextOf

\* Each statement of the store keeps the types of its tables.
LEMMA TypeStep == ASSUME LibraryInv, [Next]_vars PROVE LibraryTypeOK'
<1> USE DEF LibraryInv
<1>1. ASSUME NEW w \in Writers, BeginCreate(w) PROVE LibraryTypeOK'
  BY <1>1 DEF BeginCreate, LibraryTypeOK, Job, AllTexts
<1>2. ASSUME NEW w \in Writers, BeginEdit(w) PROVE LibraryTypeOK'
  <2>1. PICK text \in Texts, i \in Ids, place \in {"checked", "refused"} :
          job' = [job EXCEPT ![w] = [at |-> place, op |-> "edit", id |-> i, text |-> text, number |-> 0]]
    BY <1>2 DEF BeginEdit
  <2>2. job' \in [Writers -> Job]
    BY <2>1 DEF LibraryTypeOK, Job, AllTexts
  <2> QED BY <1>2, <2>2 DEF BeginEdit, LibraryTypeOK
<1>3. ASSUME NEW w \in Writers, CreateRule(w) PROVE LibraryTypeOK'
  <2>1. UNCHANGED <<sets, blobs, freeze, ruling>> /\ job[w].text \in AllTexts
    BY <1>3 DEF CreateRule, LibraryTypeOK, Job
  <2>2. CASE job' = [job EXCEPT ![w].at = "failed"] /\ UNCHANGED rules
    BY <2>1, <2>2 DEF LibraryTypeOK, Job
  <2>3. ASSUME NEW i \in Ids, NEW layer \in Editable,
               rules' = [rules EXCEPT ![i] = [name |-> job[w].text.name, layer |-> layer,
                                              deleted |-> FALSE, revs |-> <<job[w].text>>]],
               job' = [job EXCEPT ![w].at = "done", ![w].id = i, ![w].number = 1]
        PROVE  LibraryTypeOK'
    <3>1. rules' \in [Ids -> Rule]
      <4>1. job[w].text.name \in RuleNames /\ layer \in Layers
        BY <2>1 DEF RuleNames, Editable, Layers
      <4>2. [name |-> job[w].text.name, layer |-> layer, deleted |-> FALSE, revs |-> <<job[w].text>>] \in Rule
        BY <2>1, <4>1 DEF Rule
      <4> QED BY <2>3, <4>2 DEF LibraryTypeOK
    <3>2. job' \in [Writers -> Job]
      <4>1. [job[w] EXCEPT !.at = "done", !.id = i, !.number = 1] \in Job
        BY DEF LibraryTypeOK, Job
      <4> QED BY <2>3, <4>1 DEF LibraryTypeOK
    <3> QED BY <2>1, <3>1, <3>2 DEF LibraryTypeOK
  <2> QED BY <1>3, <2>2, <2>3 DEF CreateRule
<1>4. ASSUME NEW w \in Writers, LockRule(w) PROVE LibraryTypeOK'
  BY <1>4 DEF LockRule, LibraryTypeOK, Job
<1>5. ASSUME NEW w \in Writers, NumberRevision(w) PROVE LibraryTypeOK'
  <2>1. rules[job[w].id].revs \in Seq(AllTexts)
    BY <1>5 DEF NumberRevision, EditsInOrder, EditInOrder, InLock, LibraryTypeOK, Rule
  <2>2. Len(rules[job[w].id].revs) + 1 \in Nat
    BY <2>1
  <2>3. [job[w] EXCEPT !.at = "numbered", !.number = Len(rules[job[w].id].revs) + 1] \in Job
    BY <2>2 DEF LibraryTypeOK, Job
  <2>4. job' \in [Writers -> Job]
    BY <1>5, <2>3 DEF NumberRevision, LibraryTypeOK
  <2> QED BY <1>5, <2>4 DEF NumberRevision, LibraryTypeOK
<1>6. ASSUME NEW w \in Writers, InsertRevision(w) PROVE LibraryTypeOK'
  <2>1. UNCHANGED <<sets, blobs, freeze, ruling>>
    BY <1>6 DEF InsertRevision
  <2>2. rules' \in [Ids -> Rule]
    <3>1. job[w].id \in Ids /\ job[w].text \in AllTexts /\ rules[job[w].id] \in Rule
      BY <1>6 DEF InsertRevision, EditsInOrder, EditInOrder, InLock, LibraryTypeOK, Job
    <3>2. Append(rules[job[w].id].revs, job[w].text) \in Seq(AllTexts)
      BY <3>1 DEF Rule
    <3>3. [rules[job[w].id] EXCEPT !.revs = Append(rules[job[w].id].revs, job[w].text)] \in Rule
      BY <3>1, <3>2 DEF Rule
    <3> QED BY <1>6, <3>3 DEF InsertRevision, LibraryTypeOK
  <2>3. job' \in [Writers -> Job]
    <3>1. \A place \in {"failed", "done"} : [job[w] EXCEPT !.at = place] \in Job
      BY DEF LibraryTypeOK, Job
    <3> QED BY <1>6, <3>1 DEF InsertRevision, LibraryTypeOK
  <2> QED BY <2>1, <2>2, <2>3 DEF LibraryTypeOK
<1>7. ASSUME NEW i \in Ids, DeleteRule(i) PROVE LibraryTypeOK'
  BY <1>7 DEF DeleteRule, LibraryTypeOK, Rule
<1>8. ASSUME NEW s \in Sets, NEW sel \in Selections, SetSelection(s, sel) PROVE LibraryTypeOK'
  BY <1>8 DEF SetSelection, LibraryTypeOK, RuleSet, AllSelections
<1>9. ASSUME NEW s \in Sets, NEW i \in Ids, NEW named \in Ids, Exclude(s, i, named) PROVE LibraryTypeOK'
  <2>1. PICK granted \in BOOLEAN, orphans \in BOOLEAN :
          ruling' = [asked |-> TRUE, granted |-> granted, orphans |-> orphans]
    BY <1>9, LibraryAssumption DEF Exclude
  <2>2. ruling' \in [asked : BOOLEAN, granted : BOOLEAN, orphans : BOOLEAN]
    BY <2>1
  <2>3. PICK gone \in SUBSET Ids : sets' = [sets EXCEPT ![s].excluded = gone]
    BY <1>9 DEF Exclude, LibraryTypeOK, RuleSet
  <2>4. [sets[s] EXCEPT !.excluded = gone] \in RuleSet
    BY DEF LibraryTypeOK, RuleSet
  <2>5. sets' \in [Sets -> RuleSet]
    BY <2>3, <2>4 DEF LibraryTypeOK
  <2> QED BY <1>9, <2>2, <2>5 DEF Exclude, LibraryTypeOK
<1>10. ASSUME NEW s \in Sets, NEW f \in Freezers, BeginFreeze(f, s) PROVE LibraryTypeOK'
  BY <1>10 DEF BeginFreeze, LibraryTypeOK, Freezing, RuleSet
<1>11. ASSUME NEW f \in Freezers, ResolveAndCompile(f) PROVE LibraryTypeOK'
  <2>1. PICK place \in {"compiled", "refused"}, pins \in SUBSET Pins :
          freeze' = [freeze EXCEPT ![f].at = place, ![f].pins = pins]
    BY <1>11, ResolvedArePins DEF ResolveAndCompile
  <2>2. [freeze[f] EXCEPT !.at = place, !.pins = pins] \in Freezing
    BY DEF LibraryTypeOK, Freezing
  <2>3. freeze' \in [Freezers -> Freezing]
    BY <2>1, <2>2 DEF LibraryTypeOK
  <2> QED BY <1>11, <2>3 DEF ResolveAndCompile, LibraryTypeOK
<1>12. ASSUME NEW f \in Freezers, PutBlob(f) PROVE LibraryTypeOK'
  <2>1. Blob(freeze[f].pins) \in Blobs
    BY <1>12, BlobType DEF PutBlob, FreezesAreSound, FreezeIsSound, Sound, LibraryTypeOK, Freezing
  <2> QED BY <1>12, <2>1 DEF PutBlob, LibraryTypeOK, Freezing
<1>13. ASSUME NEW f \in Freezers, RecordFreeze(f) PROVE LibraryTypeOK'
  <2>1. Blob(freeze[f].pins) \in Blobs /\ freeze[f].pins \in SUBSET Pins
    BY <1>13, BlobType DEF RecordFreeze, FreezesAreSound, FreezeIsSound, Sound, LibraryTypeOK, Freezing
  <2>2. sets' \in [Sets -> RuleSet]
    <3>1. CASE freeze[f].set \in Sets
      <4>1. [sets[freeze[f].set] EXCEPT !.frozen = TRUE, !.blob = Blob(freeze[f].pins),
                                        !.members = freeze[f].pins] \in RuleSet
        <5>1. sets[freeze[f].set] \in RuleSet
          BY <3>1 DEF LibraryTypeOK
        <5> QED BY <2>1, <5>1 DEF RuleSet
      <4> QED BY <1>13, <4>1 DEF RecordFreeze, LibraryTypeOK
    <3> QED BY <1>13, <3>1 DEF RecordFreeze, FreezesAreSound, FreezeIsSound
  <2>3. freeze' \in [Freezers -> Freezing]
    BY <1>13 DEF RecordFreeze, LibraryTypeOK, Freezing
  <2> QED BY <1>13, <2>2, <2>3 DEF RecordFreeze, LibraryTypeOK
<1>14. CASE Restart
  <2>1. \A f \in Freezers : freeze[f] \in Freezing /\ [freeze[f] EXCEPT !.at = "cutOff"] \in Freezing
    BY DEF LibraryTypeOK, Freezing
  <2>2. \A w \in Writers : job[w] \in Job /\ [job[w] EXCEPT !.at = "cutOff"] \in Job
    BY DEF LibraryTypeOK, Job
  <2>3. freeze' \in [Freezers -> Freezing] /\ job' \in [Writers -> Job]
    BY <1>14, <2>1, <2>2 DEF Restart
  <2> QED BY <1>14, <2>3 DEF Restart, LibraryTypeOK
<1>15. CASE UNCHANGED vars
  BY <1>15 DEF vars, LibraryTypeOK
<1> QED BY <1>1, <1>2, <1>3, <1>4, <1>5, <1>6, <1>7, <1>8, <1>9, <1>10,
           <1>11, <1>12, <1>13, <1>14, <1>15 DEF Next

-----------------------------------------------------------------------------
(* What the steps keep.                                                     *)

\* "SoftDeleteRule", AddRevision: a rule that is there keeps its name and every revision
\* it has, whatever is done to it.
RevisionsStay ==
  \A i \in Ids : rules[i].name # "" =>
    /\ rules'[i].name = rules[i].name
    /\ \A n \in DOMAIN rules[i].revs : n \in DOMAIN rules'[i].revs /\ rules'[i].revs[n] = rules[i].revs[n]

\* What appending to a list of revisions keeps.
LEMMA AppendGrows ==
  ASSUME NEW s \in Seq(AllTexts), NEW e
  PROVE  /\ Append(s, e) # <<>>
         /\ \A n \in DOMAIN s : n \in DOMAIN Append(s, e) /\ Append(s, e)[n] = s[n]
<1>1. Len(s) \in Nat /\ DOMAIN s = 1..Len(s)
  OBVIOUS
<1>2. Len(Append(s, e)) = Len(s) + 1 /\ DOMAIN Append(s, e) = 1..Len(s) + 1
  OBVIOUS
<1>3. \A n \in 1..Len(s) : Append(s, e)[n] = s[n]
  OBVIOUS
<1>4. \A n \in 1..Len(s) : n \in 1..Len(s) + 1
  BY <1>1
<1>5. Append(s, e) # <<>>
  BY <1>1, <1>2
<1> QED BY <1>1, <1>2, <1>3, <1>4, <1>5

LEMMA RulesStep == ASSUME LibraryInv, [Next]_vars PROVE RevisionsStay /\ RulesHaveTexts'
<1> USE DEF LibraryInv
<1>1. ASSUME NEW w \in Writers, CreateRule(w) PROVE RevisionsStay /\ RulesHaveTexts'
  <2>1. CASE UNCHANGED rules
    BY <2>1 DEF RevisionsStay, RulesHaveTexts
  <2>2. ASSUME NEW i \in Ids, rules[i].name = "", NEW layer \in Editable,
               rules' = [rules EXCEPT ![i] = [name |-> job[w].text.name, layer |-> layer,
                                              deleted |-> FALSE, revs |-> <<job[w].text>>]]
        PROVE  RevisionsStay /\ RulesHaveTexts'
    <3>1. rules'[i].revs = <<job[w].text>> /\ \A j \in Ids : j # i => rules'[j] = rules[j]
      BY <2>2 DEF LibraryTypeOK
    <3>2. <<job[w].text>> # <<>>
      OBVIOUS
    <3> QED BY <2>2, <3>1, <3>2 DEF RevisionsStay, RulesHaveTexts
  <2> QED BY <1>1, <2>1, <2>2 DEF CreateRule
<1>2. ASSUME NEW w \in Writers, InsertRevision(w) PROVE RevisionsStay /\ RulesHaveTexts'
  <2>1. CASE UNCHANGED rules
    BY <2>1 DEF RevisionsStay, RulesHaveTexts
  <2>2. CASE rules' = [rules EXCEPT ![job[w].id].revs = Append(@, job[w].text)]
    <3>1. PICK i \in Ids : i = job[w].id
      BY <1>2 DEF InsertRevision, EditsInOrder, EditInOrder, InLock
    <3>2. rules[i].revs \in Seq(AllTexts) /\ rules[i] \in Rule
      BY DEF LibraryTypeOK, Rule
    <3>3. /\ rules'[i].name = rules[i].name /\ rules'[i].revs = Append(rules[i].revs, job[w].text)
          /\ \A j \in Ids : j # i => rules'[j] = rules[j]
      BY <2>2, <3>1, <3>2 DEF LibraryTypeOK, Rule
    <3>4. /\ rules'[i].revs # <<>>
          /\ \A n \in DOMAIN rules[i].revs : n \in DOMAIN rules'[i].revs /\ rules'[i].revs[n] = rules[i].revs[n]
      <4>1. PICK s : s = rules[i].revs
        OBVIOUS
      <4>2. PICK e : e = job[w].text
        OBVIOUS
      <4>3. s \in Seq(AllTexts)
        BY <3>2, <4>1
      <4>4. /\ Append(s, e) # <<>>
            /\ \A n \in DOMAIN s : n \in DOMAIN Append(s, e) /\ Append(s, e)[n] = s[n]
        BY <4>3, AppendGrows
      <4>5. rules'[i].revs = Append(s, e)
        BY <3>3, <4>1, <4>2
      <4> QED BY <4>1, <4>4, <4>5
    <3> QED BY <3>3, <3>4 DEF RevisionsStay, RulesHaveTexts
  <2> QED BY <1>2, <2>1, <2>2 DEF InsertRevision
<1>3. ASSUME NEW i \in Ids, DeleteRule(i) PROVE RevisionsStay /\ RulesHaveTexts'
  <2>1. \A j \in Ids : rules'[j].name = rules[j].name /\ rules'[j].revs = rules[j].revs
    BY <1>3 DEF DeleteRule, LibraryTypeOK, Rule
  <2> QED BY <2>1 DEF RevisionsStay, RulesHaveTexts
<1>4. CASE UNCHANGED rules
  BY <1>4 DEF RevisionsStay, RulesHaveTexts
<1>5. \/ UNCHANGED rules
      \/ \E w \in Writers : CreateRule(w) \/ InsertRevision(w)
      \/ \E i \in Ids : DeleteRule(i)
  BY DEF Next, vars, BeginCreate, BeginEdit, LockRule, NumberRevision, SetSelection, Exclude,
         BeginFreeze, ResolveAndCompile, PutBlob, RecordFreeze, Restart
<1> QED BY <1>1, <1>2, <1>3, <1>4, <1>5

\* A selection of pins that is sound stays so, and compiles to the same blob.
LEMMA SoundStays ==
  ASSUME RevisionsStay, NEW pins \in SUBSET Pins, Sound(pins)
  PROVE  Sound(pins)' /\ Blob(pins)' = Blob(pins)
<1>1. \A p \in pins : TextOf(p)' = TextOf(p)
  BY DEF RevisionsStay, Sound, Pinned, TextOf, Pins
<1>2. Pinned(pins)'
  BY DEF RevisionsStay, Sound, Pinned, Pins
<1>3. TextsOf(pins)' = TextsOf(pins)
  BY <1>1 DEF TextsOf
<1>4. Compiles(TextsOf(pins))'
  BY <1>3 DEF Sound, Compiles
<1>5. Blob(pins)' = Blob(pins)
  BY <1>1 DEF Blob
<1> QED BY <1>2, <1>4, <1>5 DEF Sound

-----------------------------------------------------------------------------
(* Edits.                                                                   *)

\* The number after the last is free, and is that of what is appended.
LEMMA NextIsFree ==
  ASSUME NEW S, NEW s \in Seq(S), NEW e \in S, NEW n, n = Len(s) + 1
  PROVE  n \notin DOMAIN s /\ n \in DOMAIN Append(s, e) /\ Append(s, e)[n] = e
BY AppendProperties, LenProperties

\* An edit the step does not touch stays in order.
LEMMA EditStays ==
  ASSUME LibraryInv, RevisionsStay, NEW v \in Writers, job'[v] = job[v],
         InLock(v) => rules'[job[v].id].revs = rules[job[v].id].revs
  PROVE  EditInOrder(v)'
<1>1. EditInOrder(v)
  BY DEF LibraryInv, EditsInOrder
<1>2. job[v].op = "edit" => rules'[job[v].id].name = rules[job[v].id].name
  BY <1>1 DEF EditInOrder, RevisionsStay
<1>3. job[v].op = "edit" /\ job[v].at = "done" =>
        /\ job[v].number \in DOMAIN rules'[job[v].id].revs
        /\ rules'[job[v].id].revs[job[v].number] = job[v].text
  BY <1>1 DEF EditInOrder, RevisionsStay
<1> QED BY <1>1, <1>2, <1>3 DEF EditInOrder, InLock

\* AddRevision: the lock is taken by one edit of a rule at a time, and what is inserted
\* under it has the number that was read under it.
LEMMA EditsStep == ASSUME LibraryInv, [Next]_vars PROVE EditsInOrder'
<1> USE DEF LibraryInv
<1>0. RevisionsStay
  BY RulesStep
<1>1. ASSUME NEW w \in Writers, BeginCreate(w) PROVE EditsInOrder'
  <2>1. /\ job'[w].op = "create" /\ job'[w].at \in {"checked", "refused"}
        /\ \A v \in Writers : v # w => job'[v] = job[v]
        /\ UNCHANGED rules
    BY <1>1 DEF BeginCreate, LibraryTypeOK
  <2>2. EditInOrder(w)'
    BY <2>1 DEF EditInOrder, InLock
  <2>3. \A v \in Writers : v # w => EditInOrder(v)'
    BY <1>0, <2>1, EditStays
  <2> QED BY <2>1, <2>2, <2>3 DEF EditsInOrder, InLock
<1>2. ASSUME NEW w \in Writers, BeginEdit(w) PROVE EditsInOrder'
  <2>1. /\ job'[w].op = "edit" /\ job'[w].at \in {"checked", "refused"}
        /\ job'[w].id \in Ids /\ rules[job'[w].id].name # ""
        /\ \A v \in Writers : v # w => job'[v] = job[v]
        /\ UNCHANGED rules
    <3>1. PICK text \in Texts, i \in Ids, place \in {"checked", "refused"} :
            /\ rules[i].name # ""
            /\ job' = [job EXCEPT ![w] = [at |-> place, op |-> "edit", id |-> i, text |-> text, number |-> 0]]
      BY <1>2 DEF BeginEdit
    <3> QED BY <1>2, <3>1 DEF BeginEdit, LibraryTypeOK
  <2>2. EditInOrder(w)'
    BY <2>1 DEF EditInOrder, InLock
  <2>3. \A v \in Writers : v # w => EditInOrder(v)'
    BY <1>0, <2>1, EditStays
  <2> QED BY <2>1, <2>2, <2>3 DEF EditsInOrder, InLock
<1>3. ASSUME NEW w \in Writers, CreateRule(w) PROVE EditsInOrder'
  <2>1. /\ job[w].op = "create" /\ job'[w].op = "create" /\ job'[w].at \in {"failed", "done"}
        /\ \A v \in Writers : v # w => job'[v] = job[v]
    <3>1. \/ job' = [job EXCEPT ![w].at = "failed"]
          \/ \E i \in Ids : job' = [job EXCEPT ![w].at = "done", ![w].id = i, ![w].number = 1]
      BY <1>3 DEF CreateRule
    <3>2. job[w].op = "create" /\ job[w] \in Job /\ job \in [Writers -> Job]
      BY <1>3 DEF CreateRule, LibraryTypeOK
    <3>3. CASE job' = [job EXCEPT ![w].at = "failed"]
      BY <3>2, <3>3 DEF Job
    <3>4. ASSUME NEW i \in Ids, job' = [job EXCEPT ![w].at = "done", ![w].id = i, ![w].number = 1]
          PROVE  <2>1!:
      <4>1. job' = [job EXCEPT ![w] = [job[w] EXCEPT !.at = "done", !.id = i, !.number = 1]]
        BY <3>2, <3>4
      <4> QED BY <3>2, <4>1 DEF Job
    <3> QED BY <3>1, <3>3, <3>4
  <2>2. EditInOrder(w)'
    BY <2>1 DEF EditInOrder, InLock
  <2>3. \A i \in Ids : rules[i].name # "" => rules'[i] = rules[i]
    BY <1>3 DEF CreateRule, LibraryTypeOK
  <2>4. \A v \in Writers : v # w => EditInOrder(v)'
    BY <1>0, <2>1, <2>3, EditStays DEF EditsInOrder, EditInOrder
  <2> QED BY <2>1, <2>2, <2>4 DEF EditsInOrder, InLock
<1>4. ASSUME NEW w \in Writers, LockRule(w) PROVE EditsInOrder'
  <2>1. /\ job'[w].op = "edit" /\ job'[w].at = "locked" /\ job'[w].id = job[w].id
        /\ job[w].op = "edit" /\ \A v \in Writers : v # w => job'[v] = job[v]
        /\ \A v \in Writers : job[v].id = job[w].id => ~InLock(v)
        /\ UNCHANGED rules
    BY <1>4 DEF LockRule, LibraryTypeOK, Job, InLock
  <2>2. EditInOrder(w)'
    BY <2>1 DEF EditsInOrder, EditInOrder, InLock
  <2>3. \A v \in Writers : v # w => EditInOrder(v)'
    BY <1>0, <2>1, EditStays
  <2> QED BY <2>1, <2>2, <2>3 DEF EditsInOrder, InLock
<1>5. ASSUME NEW w \in Writers, NumberRevision(w) PROVE EditsInOrder'
  <2>1. /\ job'[w].op = job[w].op /\ job'[w].at = "numbered" /\ job'[w].id = job[w].id
        /\ job'[w].number = Len(rules[job[w].id].revs) + 1 /\ InLock(w)
        /\ \A v \in Writers : v # w => job'[v] = job[v]
        /\ UNCHANGED rules
    BY <1>5 DEF NumberRevision, LibraryTypeOK, Job, InLock
  <2>2. EditInOrder(w)'
    BY <2>1 DEF EditsInOrder, EditInOrder, InLock
  <2>3. \A v \in Writers : v # w => EditInOrder(v)'
    BY <1>0, <2>1, EditStays
  <2> QED BY <2>1, <2>2, <2>3 DEF EditsInOrder, InLock
<1>6. ASSUME NEW w \in Writers, InsertRevision(w) PROVE EditsInOrder'
  <2>1. PICK i \in Ids : i = job[w].id
    BY <1>6 DEF InsertRevision, EditsInOrder, EditInOrder, InLock
  <2>2. /\ job[w].op = "edit" /\ InLock(w) /\ rules[i].name # ""
        /\ job[w].number = Len(rules[i].revs) + 1
    BY <1>6, <2>1 DEF InsertRevision, EditsInOrder, EditInOrder, InLock
  <2>3. rules[i] \in Rule /\ rules[i].revs \in Seq(AllTexts) /\ job[w].text \in AllTexts
    BY DEF LibraryTypeOK, Rule, Job
  <2>4. /\ job[w].number \notin DOMAIN rules[i].revs
        /\ job[w].number \in DOMAIN Append(rules[i].revs, job[w].text)
        /\ Append(rules[i].revs, job[w].text)[job[w].number] = job[w].text
    <3>1. PICK s \in Seq(AllTexts), e \in AllTexts : s = rules[i].revs /\ e = job[w].text
      BY <2>3
    <3> DEFINE n == job[w].number
    <3>2. n = Len(s) + 1
      BY <2>2, <3>1
    <3>3. n \notin DOMAIN s /\ n \in DOMAIN Append(s, e) /\ Append(s, e)[n] = e
      BY <3>2, NextIsFree
    <3> QED BY <3>1, <3>3
  <2>5. /\ job' = [job EXCEPT ![w].at = "done"]
        /\ rules' = [rules EXCEPT ![i].revs = Append(@, job[w].text)]
    BY <1>6, <2>1, <2>4 DEF InsertRevision
  <2>6. /\ job'[w].op = job[w].op /\ job'[w].at = "done" /\ job'[w].id = i
        /\ job'[w].number = job[w].number /\ job'[w].text = job[w].text
        /\ \A v \in Writers : v # w => job'[v] = job[v]
    BY <2>1, <2>5 DEF LibraryTypeOK, Job
  <2>7. /\ rules'[i].name = rules[i].name /\ rules'[i].revs = Append(rules[i].revs, job[w].text)
        /\ \A j \in Ids : j # i => rules'[j] = rules[j]
    BY <2>3, <2>5 DEF LibraryTypeOK, Rule
  <2>8. job[w].number \in DOMAIN rules'[i].revs /\ rules'[i].revs[job[w].number] = job[w].text
    BY <2>4, <2>7
  <2>9. EditInOrder(w)'
    BY <2>1, <2>2, <2>6, <2>7, <2>8 DEF EditInOrder, InLock
  <2>10. \A v \in Writers : v # w => EditInOrder(v)'
    <3> SUFFICES ASSUME NEW v \in Writers, v # w PROVE EditInOrder(v)'
      OBVIOUS
    <3>1. InLock(v) => job[v].id \in Ids /\ job[v].id # i
      BY <2>1, <2>2 DEF EditsInOrder, EditInOrder
    <3>2. InLock(v) => rules'[job[v].id].revs = rules[job[v].id].revs
      BY <2>7, <3>1
    <3> QED BY <1>0, <2>6, <3>2, EditStays
  <2> QED BY <2>6, <2>9, <2>10 DEF EditsInOrder, InLock
<1>7. ASSUME NEW i \in Ids, DeleteRule(i) PROVE EditsInOrder'
  <2>1. UNCHANGED job /\ \A j \in Ids : rules'[j].revs = rules[j].revs
    BY <1>7 DEF DeleteRule, LibraryTypeOK, Rule
  <2>2. \A v \in Writers : EditInOrder(v)'
    BY <1>0, <2>1, EditStays DEF EditsInOrder, EditInOrder
  <2> QED BY <2>1, <2>2 DEF EditsInOrder, InLock
<1>8. CASE Restart
  <2>1. /\ UNCHANGED rules
        /\ \A v \in Writers : /\ job'[v].op = job[v].op /\ job'[v].id = job[v].id
                              /\ job'[v].number = job[v].number /\ job'[v].text = job[v].text
                              /\ job'[v].at = job[v].at \/ job'[v].at = "cutOff"
    BY <1>8 DEF Restart, LibraryTypeOK, Job
  <2>2. ASSUME NEW v \in Writers PROVE EditInOrder(v)'
    BY ZenonT(60), <2>1 DEF EditsInOrder, EditInOrder, InLock
  <2> QED BY <2>1, <2>2 DEF EditsInOrder, InLock
<1>9. CASE UNCHANGED <<rules, job>>
  BY <1>9 DEF EditsInOrder, EditInOrder, InLock
<1>10. \/ \E w \in Writers : \/ BeginCreate(w) \/ BeginEdit(w) \/ CreateRule(w)
                             \/ LockRule(w) \/ NumberRevision(w) \/ InsertRevision(w)
       \/ \E i \in Ids : DeleteRule(i)
       \/ Restart
       \/ UNCHANGED <<rules, job>>
  BY DEF Next, vars, SetSelection, Exclude, BeginFreeze, ResolveAndCompile, PutBlob, RecordFreeze
<1> QED BY <1>1, <1>2, <1>3, <1>4, <1>5, <1>6, <1>7, <1>8, <1>9, <1>10

-----------------------------------------------------------------------------
(* Freezes.                                                                 *)

\* Service.Freeze: what is resolved is pinned when it is resolved.
LEMMA ResolvedArePinned ==
  ASSUME LibraryTypeOK, RulesHaveTexts, NEW sel, NEW excluded
  PROVE  Pinned(Resolve(sel, excluded))
<1> SUFFICES ASSUME NEW i \in Ids, Present(i)
             PROVE  rules[i].name # "" /\ Len(rules[i].revs) \in DOMAIN rules[i].revs
  <2> SUFFICES ASSUME NEW p \in Resolve(sel, excluded) PROVE rules[p[1]].name # "" /\ p[2] \in DOMAIN rules[p[1]].revs
    BY DEF Pinned
  <2>1. PICK i \in Ids : Present(i) /\ p = <<i, Len(rules[i].revs)>>
    BY DEF Resolve
  <2> QED BY <2>1
<1>1. rules[i].revs \in Seq(AllTexts) /\ rules[i].revs # <<>>
  BY DEF LibraryTypeOK, Rule, RulesHaveTexts, Present
<1>2. PICK s \in Seq(AllTexts) : s = rules[i].revs /\ s # <<>>
  BY <1>1
<1>3. Len(s) \in DOMAIN s
  BY <1>2
<1> QED BY <1>2, <1>3 DEF Present

\* What a step leaves of a freeze and of a set stays sound.
LEMMA FreezeStays ==
  ASSUME LibraryInv, RevisionsStay, blobs \subseteq blobs', NEW f \in Freezers, freeze'[f] = freeze[f]
  PROVE  FreezeIsSound(f)'
<1>1. freeze[f].pins \in SUBSET Pins
  BY DEF LibraryInv, LibraryTypeOK, Freezing
<1>2. PICK pins \in SUBSET Pins : pins = freeze[f].pins
  BY <1>1
<1>3. Sound(pins) => Sound(pins)' /\ Blob(pins)' = Blob(pins)
  BY SoundStays
<1>4. FreezeIsSound(f)
  BY DEF LibraryInv, FreezesAreSound
<1>5. Sound(freeze[f].pins) => Sound(freeze[f].pins)' /\ Blob(freeze[f].pins)' = Blob(freeze[f].pins)
  BY <1>2, <1>3
<1> QED BY <1>4, <1>5 DEF FreezeIsSound

LEMMA FreezesStep == ASSUME LibraryInv, [Next]_vars PROVE FreezesAreSound'
<1> USE DEF LibraryInv
<1>0. RevisionsStay /\ blobs \subseteq blobs'
  BY RulesStep DEF Next, vars, BeginCreate, BeginEdit, CreateRule, LockRule, NumberRevision, InsertRevision,
                   DeleteRule, SetSelection, Exclude, BeginFreeze, ResolveAndCompile, PutBlob, RecordFreeze, Restart
<1>1. ASSUME NEW s \in Sets, NEW f \in Freezers, BeginFreeze(f, s) PROVE FreezesAreSound'
  <2>1. /\ freeze'[f].at = "selected" /\ freeze'[f].set = s
        /\ \A g \in Freezers : g # f => freeze'[g] = freeze[g]
    BY <1>1 DEF BeginFreeze, LibraryTypeOK
  <2>2. FreezeIsSound(f)'
    BY <2>1 DEF FreezeIsSound
  <2>3. \A g \in Freezers : g # f => FreezeIsSound(g)'
    BY <1>0, <2>1, FreezeStays
  <2> QED BY <2>2, <2>3 DEF FreezesAreSound
<1>2. ASSUME NEW f \in Freezers, ResolveAndCompile(f) PROVE FreezesAreSound'
  <2>0. PICK pins \in SUBSET Pins : pins = Resolve(freeze[f].selection, sets[freeze[f].set].excluded)
    BY ResolvedArePins
  <2>1. PICK place : /\ place \in {"compiled", "refused"}
                     /\ place = "compiled" => pins # {} /\ Compiles(TextsOf(pins))
                     /\ freeze' = [freeze EXCEPT ![f].at = place, ![f].pins = pins]
    BY <1>2, <2>0 DEF ResolveAndCompile
  <2>2. freeze' = [freeze EXCEPT ![f] = [freeze[f] EXCEPT !.at = place, !.pins = pins]]
    BY <2>1 DEF LibraryTypeOK
  <2>3. /\ freeze'[f].at = place /\ freeze'[f].set = freeze[f].set /\ freeze'[f].pins = pins
        /\ \A g \in Freezers : g # f => freeze'[g] = freeze[g]
    BY <2>2 DEF LibraryTypeOK, Freezing
  <2>4. freeze[f].set \in Sets
    BY <1>2 DEF ResolveAndCompile, FreezesAreSound, FreezeIsSound
  <2>5. Pinned(pins)
    BY <2>0, ResolvedArePinned
  <2>6. place = "compiled" => Sound(pins)'
    BY <1>0, <2>1, <2>5, SoundStays DEF Sound
  <2>7. FreezeIsSound(f)'
    BY <2>1, <2>3, <2>4, <2>6 DEF FreezeIsSound
  <2>8. \A g \in Freezers : g # f => FreezeIsSound(g)'
    BY <1>0, <2>3, FreezeStays
  <2> QED BY <2>7, <2>8 DEF FreezesAreSound
<1>3. ASSUME NEW f \in Freezers, PutBlob(f) PROVE FreezesAreSound'
  <2>1. /\ freeze'[f].at = "stored" /\ freeze'[f].set = freeze[f].set /\ freeze'[f].pins = freeze[f].pins
        /\ \A g \in Freezers : g # f => freeze'[g] = freeze[g]
        /\ Blob(freeze[f].pins) \in blobs'
    BY <1>3 DEF PutBlob, LibraryTypeOK, Freezing
  <2>2. PICK pins \in SUBSET Pins : pins = freeze[f].pins
    BY DEF LibraryTypeOK, Freezing
  <2>3. freeze[f].set \in Sets /\ Sound(pins)
    BY <1>3, <2>2 DEF PutBlob, FreezesAreSound, FreezeIsSound
  <2>4. Sound(pins)' /\ Blob(pins)' = Blob(pins)
    BY <1>0, <2>3, SoundStays
  <2>5. FreezeIsSound(f)'
    BY <2>1, <2>2, <2>3, <2>4 DEF FreezeIsSound
  <2>6. \A g \in Freezers : g # f => FreezeIsSound(g)'
    BY <1>0, <2>1, FreezeStays
  <2> QED BY <2>5, <2>6 DEF FreezesAreSound
<1>4. ASSUME NEW f \in Freezers, RecordFreeze(f) PROVE FreezesAreSound'
  <2>1. /\ freeze'[f].at \in {"refused", "done"}
        /\ \A g \in Freezers : g # f => freeze'[g] = freeze[g]
    BY <1>4 DEF RecordFreeze, LibraryTypeOK, Freezing
  <2>2. FreezeIsSound(f)'
    BY <2>1 DEF FreezeIsSound
  <2>3. \A g \in Freezers : g # f => FreezeIsSound(g)'
    BY <1>0, <2>1, FreezeStays
  <2> QED BY <2>2, <2>3 DEF FreezesAreSound
<1>5. CASE Restart
  <2>1. \A f \in Freezers : freeze'[f] = freeze[f] \/ freeze'[f].at = "cutOff"
    BY <1>5 DEF Restart, LibraryTypeOK, Freezing
  <2>2. \A f \in Freezers : FreezeIsSound(f)'
    BY <1>0, <2>1, FreezeStays DEF FreezeIsSound
  <2> QED BY <2>2 DEF FreezesAreSound
<1>6. CASE UNCHANGED freeze
  <2>1. \A f \in Freezers : FreezeIsSound(f)'
    BY <1>0, <1>6, FreezeStays
  <2> QED BY <2>1 DEF FreezesAreSound
<1>7. \/ \E s \in Sets, f \in Freezers : BeginFreeze(f, s)
      \/ \E f \in Freezers : ResolveAndCompile(f) \/ PutBlob(f) \/ RecordFreeze(f)
      \/ Restart
      \/ UNCHANGED freeze
  BY DEF Next, vars, BeginCreate, BeginEdit, CreateRule, LockRule, NumberRevision, InsertRevision,
         DeleteRule, SetSelection, Exclude
<1> QED BY <1>1, <1>2, <1>3, <1>4, <1>5, <1>6, <1>7

\* A set that is frozen keeps everything but its exclusions.
Kept(s) == /\ sets'[s].selection = sets[s].selection /\ sets'[s].frozen = sets[s].frozen
           /\ sets'[s].blob = sets[s].blob /\ sets'[s].members = sets[s].members

LEMMA FrozenStays == ASSUME LibraryInv, [Next]_vars, NEW s \in Sets, sets[s].frozen PROVE Kept(s)
<1> USE DEF LibraryInv
<1>1. ASSUME NEW t \in Sets, NEW sel \in Selections, SetSelection(t, sel) PROVE Kept(s)
  BY <1>1 DEF SetSelection, LibraryTypeOK, RuleSet, Kept
<1>2. ASSUME NEW t \in Sets, NEW i \in Ids, NEW named \in Ids, Exclude(t, i, named) PROVE Kept(s)
  <2>1. PICK excluded : sets' = [sets EXCEPT ![t].excluded = excluded]
    BY <1>2 DEF Exclude
  <2> QED BY <2>1 DEF LibraryTypeOK, RuleSet, Kept
<1>3. ASSUME NEW f \in Freezers, RecordFreeze(f) PROVE Kept(s)
  <2>1. CASE UNCHANGED sets
    BY <2>1 DEF Kept
  <2>2. ASSUME NEW t, ~sets[t].frozen, NEW blob, NEW members,
               sets' = [sets EXCEPT ![t].frozen = TRUE, ![t].blob = blob, ![t].members = members]
        PROVE  Kept(s)
    BY <2>2 DEF LibraryTypeOK, RuleSet, Kept
  <2>3. \/ UNCHANGED sets
        \/ /\ ~sets[freeze[f].set].frozen
           /\ sets' = [sets EXCEPT ![freeze[f].set].frozen = TRUE, ![freeze[f].set].blob = Blob(freeze[f].pins),
                                   ![freeze[f].set].members = freeze[f].pins]
    BY <1>3 DEF RecordFreeze
  <2> QED BY <2>1, <2>2, <2>3
<1>4. CASE UNCHANGED sets
  BY <1>4 DEF Kept
<1>5. \/ \E t \in Sets, sel \in Selections : SetSelection(t, sel)
      \/ \E t \in Sets, i, named \in Ids : Exclude(t, i, named)
      \/ \E f \in Freezers : RecordFreeze(f)
      \/ UNCHANGED sets
  BY DEF Next, vars, BeginCreate, BeginEdit, CreateRule, LockRule, NumberRevision, InsertRevision,
         DeleteRule, BeginFreeze, ResolveAndCompile, PutBlob, Restart
<1> QED BY <1>1, <1>2, <1>3, <1>4, <1>5

LEMMA FrozenStep == ASSUME LibraryInv, [Next]_vars PROVE FrozenAreSound'
<1> USE DEF LibraryInv
<1>0. RevisionsStay /\ blobs \subseteq blobs'
  BY RulesStep DEF Next, vars, BeginCreate, BeginEdit, CreateRule, LockRule, NumberRevision, InsertRevision,
                   DeleteRule, SetSelection, Exclude, BeginFreeze, ResolveAndCompile, PutBlob, RecordFreeze, Restart
<1> SUFFICES ASSUME NEW s \in Sets, sets'[s].frozen
             PROVE  FrozenIsSound(s)'
  BY DEF FrozenAreSound
<1>1. CASE sets[s].frozen
  <2>1. PICK pins \in SUBSET Pins : pins = sets[s].members
    BY DEF LibraryTypeOK, RuleSet
  <2>2. Sound(pins) /\ sets[s].blob = Blob(pins) /\ sets[s].blob \in blobs
    BY <1>1, <2>1 DEF FrozenAreSound, FrozenIsSound
  <2>3. Sound(pins)' /\ Blob(pins)' = Blob(pins)
    BY <1>0, <2>2, SoundStays
  <2>4. Kept(s)
    BY <1>1, FrozenStays
  <2> QED BY <1>0, <2>1, <2>2, <2>3, <2>4 DEF Kept, FrozenIsSound
<1>2. CASE ~sets[s].frozen
  <2>1. PICK f \in Freezers : RecordFreeze(f) /\ freeze[f].set = s /\ ~UNCHANGED sets
    <3>1. \A t \in Sets, sel \in Selections : SetSelection(t, sel) => sets'[s].frozen = sets[s].frozen
      BY DEF SetSelection, LibraryTypeOK, RuleSet
    <3>2. ASSUME NEW t \in Sets, NEW i \in Ids, NEW named \in Ids, Exclude(t, i, named)
          PROVE  sets'[s].frozen = sets[s].frozen
      <4>1. PICK excluded : sets' = [sets EXCEPT ![t].excluded = excluded]
        BY <3>2 DEF Exclude
      <4> QED BY <4>1 DEF LibraryTypeOK, RuleSet
    <3>3. ASSUME NEW f \in Freezers, RecordFreeze(f), freeze[f].set # s PROVE sets'[s] = sets[s]
      BY <3>3 DEF RecordFreeze, LibraryTypeOK
    <3>4. \/ UNCHANGED sets
          \/ \E t \in Sets, sel \in Selections : SetSelection(t, sel)
          \/ \E t \in Sets, i, named \in Ids : Exclude(t, i, named)
          \/ \E f \in Freezers : RecordFreeze(f)
      BY DEF Next, vars, BeginCreate, BeginEdit, CreateRule, LockRule, NumberRevision, InsertRevision,
             DeleteRule, BeginFreeze, ResolveAndCompile, PutBlob, Restart
    <3> QED BY <1>2, <3>1, <3>2, <3>3, <3>4
  <2>2. PICK pins \in SUBSET Pins : pins = freeze[f].pins
    BY DEF LibraryTypeOK, Freezing
  <2>3. Sound(pins) /\ Blob(pins) \in blobs
    BY <2>1, <2>2 DEF RecordFreeze, FreezesAreSound, FreezeIsSound
  <2>4. sets'[s].members = pins /\ sets'[s].blob = Blob(pins)
    <3>1. sets' = [sets EXCEPT ![s].frozen = TRUE, ![s].blob = Blob(pins), ![s].members = pins]
      BY <2>1, <2>2 DEF RecordFreeze
    <3>2. sets[s] \in RuleSet /\ sets \in [Sets -> RuleSet]
      BY DEF LibraryTypeOK
    <3> QED BY <3>1, <3>2 DEF RuleSet
  <2>5. Sound(pins)' /\ Blob(pins)' = Blob(pins)
    BY <1>0, <2>3, SoundStays
  <2> QED BY <1>0, <2>3, <2>4, <2>5 DEF FrozenIsSound
<1>3. sets[s].frozen \in BOOLEAN
  BY DEF LibraryTypeOK, RuleSet
<1> QED BY <1>1, <1>2

-----------------------------------------------------------------------------
(* Theorems.                                                                *)

LEMMA LibraryStarts == Init => LibraryInv
<1> SUFFICES ASSUME Init PROVE LibraryInv
  OBVIOUS
<1>1. RulesHaveTexts
  <2> SUFFICES ASSUME NEW i \in Ids, rules[i].name # "" PROVE rules[i].revs # <<>>
    BY DEF RulesHaveTexts
  <2>1. i \in DOMAIN Library
    BY DEF Init, Unused
  <2>2. rules[i].revs = <<Library[i].text>>
    BY <2>1 DEF Init
  <2>3. \A text : <<text>> # <<>>
    OBVIOUS
  <2> QED BY <2>2, <2>3
<1>2. EditsInOrder /\ FreezesAreSound /\ FrozenAreSound
  BY DEF Init, EditsInOrder, EditInOrder, InLock, FreezesAreSound, FreezeIsSound, FrozenAreSound
<1> QED BY <1>1, <1>2, InitType DEF LibraryInv

\* Every step of every request, and a restart between any two, keeps the invariant.
THEOREM LibraryKeepsInv == Spec => []LibraryInv
<1>1. LibraryInv /\ [Next]_vars => LibraryInv'
  <2> SUFFICES ASSUME LibraryInv, [Next]_vars PROVE LibraryInv'
    OBVIOUS
  <2>1. LibraryTypeOK' /\ RulesHaveTexts' /\ EditsInOrder' /\ FreezesAreSound' /\ FrozenAreSound'
    BY TypeStep, RulesStep, EditsStep, FreezesStep, FrozenStep
  <2> QED BY <2>1 DEF LibraryInv
<1> QED BY LibraryStarts, <1>1, PTL DEF Spec

\* SoftDeleteRule, Service.Freeze: whatever is edited or deleted later, a frozen set's
\* blob is there and is what its revisions compile to.
THEOREM FrozenCanBeRebuilt == Spec => []FrozenIsReconstructible
<1>1. LibraryInv => FrozenIsReconstructible
  BY DEF LibraryInv, FrozenAreSound, FrozenIsSound, Sound, FrozenIsReconstructible
<1> QED BY LibraryKeepsInv, <1>1, PTL

\* AddRevision: no edit that passed its check is refused or lost.
THEOREM NoEditIsLost == Spec => []EditsAreKept
<1>1. LibraryInv => EditsAreKept
  BY DEF LibraryInv, EditsInOrder, EditInOrder, EditsAreKept
<1> QED BY LibraryKeepsInv, <1>1, PTL

\* SetSelection, store.Freeze: two freezes that both passed the check, or a selection
\* that arrives late, never change a set that is frozen.
THEOREM FrozenSetsAreImmutable == Spec => FrozenNeverChanges
<1>1. LibraryInv /\ [Next]_vars =>
        [\A s \in Sets : sets[s].frozen => sets'[s] = [sets[s] EXCEPT !.excluded = sets'[s].excluded]]_vars
  <2> SUFFICES ASSUME LibraryInv, [Next]_vars, NEW s \in Sets, sets[s].frozen
               PROVE  sets'[s] = [sets[s] EXCEPT !.excluded = sets'[s].excluded]
    OBVIOUS
  <2>1. Kept(s)
    BY FrozenStays
  <2>2. sets[s] \in RuleSet /\ sets'[s] \in RuleSet
    BY TypeStep DEF LibraryInv, LibraryTypeOK
  <2> QED BY <2>1, <2>2 DEF Kept, RuleSet
<1> QED BY LibraryKeepsInv, <1>1, PTL DEF Spec, FrozenNeverChanges
-----------------------------------------------------------------------------
(* Agent builds.                                                            *)

\* A row added leaves the rows there are.
Extends(t, s) == DOMAIN s \subseteq DOMAIN t /\ \A i \in DOMAIN s : t[i] = s[i]
IsRows(s) == s \in Seq(SeqRange(s))

LEMMA RowAdded ==
  ASSUME NEW s, IsRows(s), NEW row
  PROVE  /\ IsRows(Append(s, row)) /\ Extends(Append(s, row), s)
         /\ DOMAIN Append(s, row) = DOMAIN s \cup {Len(s) + 1}
         /\ Len(s) + 1 \notin DOMAIN s /\ Append(s, row)[Len(s) + 1] = row
<1> DEFINE S == SeqRange(s) \cup {row}
           t == Append(s, row)
<1>1. s \in Seq(S) /\ row \in S
  BY SeqMonotonic DEF IsRows
<1>2. PICK n \in Nat : n = Len(s)
  BY <1>1, LenProperties
<1>3. /\ DOMAIN s = 1 .. n /\ t \in Seq(S) /\ DOMAIN t = 1 .. n + 1
      /\ t[n + 1] = row /\ \A i \in 1 .. n : t[i] = s[i]
  <2>1. t \in Seq(S) /\ Len(t) = n + 1 /\ t[n + 1] = row /\ \A i \in 1 .. n : t[i] = s[i]
    BY <1>1, <1>2, AppendProperties
  <2> QED BY <1>1, <1>2, <2>1, LenProperties
<1>4. S = SeqRange(t)
  <2>1. SeqRange(s) \subseteq SeqRange(t) /\ row \in SeqRange(t)
    BY <1>3 DEF SeqRange
  <2>2. SeqRange(t) \subseteq S
    BY <1>3 DEF SeqRange
  <2> QED BY <2>1, <2>2
<1> QED BY <1>2, <1>3, <1>4 DEF IsRows, Extends

-----------------------------------------------------------------------------
(* The inductive invariant.                                                 *)

\* What is under way has been verified, and what is not left is stored.
PublishIsSound(p) ==
  publish[p].at = "verified" =>
    LET folder == Folders[publish[p].folder]
    IN  /\ publish[p].folder \in DOMAIN Folders /\ Verifies(folder)
        /\ \A path \in DOMAIN folder.manifest \ publish[p].left : <<"file", folder.files[path]>> \in held

PublishingIsSound ==
  /\ IsRows(releases)
  /\ publish = [p \in Publishers |-> publish[p]]
  /\ \A p \in Publishers :
       /\ publish[p] = [at |-> publish[p].at, folder |-> publish[p].folder, version |-> publish[p].version,
                         target |-> publish[p].target, left |-> publish[p].left]
       /\ PublishIsSound(p)
  /\ ReleaseIsWhole

\* The rules a build of `set` may carry: those it was frozen with, unless altered.
RulesOf(set, carried) ==
  IF set = NoSet THEN carried[1] = "none"
  ELSE /\ set \in Sets /\ sets[set].frozen
       /\ carried[1] = "rules" /\ carried[2] # {}
       /\ carried = RuleKey(set) \/ RuleKey(set) \in altered

\* An archive that can run what its agent.json says.
SelfContained(archive, release, set) ==
  LET doc == Declared(releases[release].files)
      views == archive.config.views
  IN  /\ release \in DOMAIN releases
      /\ views # {} /\ views \subseteq DOMAIN doc.views
      /\ DOMAIN archive.files = Selected(doc, views)
      /\ \A path \in DOMAIN archive.files : archive.files[path] = releases[release].files[path]
      /\ NeedsRules(doc, views) <=> set # NoSet
      /\ archive.config.rules = archive.rules /\ RulesOf(set, archive.rules)

\* What a request has read so far still holds, whatever others did meanwhile.
IsRequest(q) ==
  q = [at |-> q.at, asked |-> q.asked, release |-> q.release, second |-> q.second, count |-> q.count,
       rules |-> q.rules, archive |-> q.archive, row |-> q.row]
RequestIsSound(q) ==
  /\ IsRequest(q)
  /\ q.at \in {"releaseRead", "setRead", "counted"} => q.asked.set \in Sets /\ q.asked.set # NoSet
  /\ q.at \in {"setRead", "counted"} => sets[q.asked.set].frozen
  /\ q.at \in {"releaseRead", "setRead", "counted", "read"} => q.release \in DOMAIN releases
  /\ q.at = "read" => RulesOf(q.asked.set, q.rules)
  /\ q.at \in {"built", "stored"} => SelfContained(q.archive, q.release, q.asked.set)
  /\ q.at \in {"stored", "created"} => ArchiveKey(q.archive) \in held
  /\ q.at = "created" => q.row \in DOMAIN builds /\ builds[q.row].archive = q.archive

RowIsSound(i) == /\ SelfContained(builds[i].archive, builds[i].release, builds[i].set)
                 /\ ArchiveKey(builds[i].archive) \in held

BuildingIsSound ==
  /\ request = [b \in Builders |-> request[b]]
  /\ \A b \in Builders : RequestIsSound(request[b])
  /\ IsRows(builds)
  /\ \A i \in DOMAIN builds : RowIsSound(i)
  /\ \A i, j \in DOMAIN builds : builds[i].id = builds[j].id => i = j

ConsoleInv == LibraryInv /\ PublishingIsSound /\ BuildingIsSound

-----------------------------------------------------------------------------
(* What no step takes back.                                                 *)

\* Rows are only added, blobs only stored or altered, frozen sets stay.
NothingTakenBack ==
  /\ Extends(releases', releases) /\ Extends(builds', builds)
  /\ held \subseteq held' /\ altered \subseteq altered'
  /\ \A s \in Sets : sets[s].frozen => sets'[s].frozen /\ sets'[s].blob = sets[s].blob

LEMMA LibrarySteps == ConsoleNext => [Next]_vars
<1>1. LibraryStep => Next
  BY DEF LibraryStep, Next
<1>2. Restart => Next
  BY DEF Next
<1> QED BY <1>1, <1>2 DEF ConsoleNext

LEMMA NothingIsTakenBack ==
  ASSUME ConsoleInv, [ConsoleNext]_<<vars, buildVars>>
  PROVE  NothingTakenBack
<1>1. \A s \in Sets : sets[s].frozen => sets'[s].frozen /\ sets'[s].blob = sets[s].blob
  <2>1. [Next]_vars
    BY LibrarySteps
  <2> QED BY <2>1, FrozenStays DEF ConsoleInv, Kept
<1>2. Extends(releases', releases)
  <2>1. CASE UNCHANGED releases
    BY <2>1 DEF Extends
  <2>2. ASSUME NEW row, releases' = Append(releases, row) PROVE Extends(releases', releases)
    BY <2>2, RowAdded DEF ConsoleInv, PublishingIsSound
  <2> QED BY <2>1, <2>2 DEF ConsoleNext, buildVars, BuildStep, BuildCutOff, Publish, StoreFile, RecordRelease,
             PublishDies, Fault, BeginBuild, ReadSet, CountRules, FetchRules, Assemble, PutArchive, RecordBuild
<1>3. Extends(builds', builds)
  <2>1. CASE UNCHANGED builds
    BY <2>1 DEF Extends
  <2>2. ASSUME NEW row, builds' = Append(builds, row) PROVE Extends(builds', builds)
    BY <2>2, RowAdded DEF ConsoleInv, BuildingIsSound
  <2> QED BY <2>1, <2>2 DEF ConsoleNext, buildVars, BuildStep, BuildCutOff, Publish, StoreFile, RecordRelease,
             PublishDies, Fault, BeginBuild, ReadSet, CountRules, FetchRules, Assemble, PutArchive, RecordBuild
<1>4. held \subseteq held' /\ altered \subseteq altered'
  BY DEF ConsoleNext, buildVars, BuildStep, BuildCutOff, Publish, StoreFile, RecordRelease,
         PublishDies, Fault, BeginBuild, ReadSet, CountRules, FetchRules, Assemble, PutArchive, RecordBuild
<1> QED BY <1>1, <1>2, <1>3, <1>4 DEF NothingTakenBack

LEMMA RulesStay ==
  ASSUME NothingTakenBack, NEW set, NEW carried, RulesOf(set, carried)
  PROVE  RulesOf(set, carried)'
BY DEF NothingTakenBack, RulesOf, RuleKey

LEMMA SelfContainedStays ==
  ASSUME NothingTakenBack, NEW archive, NEW release, NEW set, SelfContained(archive, release, set)
  PROVE  SelfContained(archive, release, set)'
<1>1. release \in DOMAIN releases' /\ releases'[release] = releases[release]
  BY DEF NothingTakenBack, Extends, SelfContained
<1>2. RulesOf(set, archive.rules)'
  BY RulesStay DEF SelfContained
<1> QED BY <1>1, <1>2 DEF SelfContained, Declared

LEMMA RowStays ==
  ASSUME NothingTakenBack, NEW i \in DOMAIN builds, RowIsSound(i)
  PROVE  RowIsSound(i)'
<1>1. builds'[i] = builds[i]
  BY DEF NothingTakenBack, Extends
<1>2. PICK archive, release, set : archive = builds[i].archive /\ release = builds[i].release /\ set = builds[i].set
  OBVIOUS
<1>3. SelfContained(archive, release, set)'
  BY <1>2, SelfContainedStays DEF RowIsSound
<1>4. ArchiveKey(archive) \in held'
  BY <1>2 DEF RowIsSound, NothingTakenBack
<1> QED BY <1>1, <1>2, <1>3, <1>4 DEF RowIsSound

LEMMA RequestStays ==
  ASSUME NothingTakenBack, NEW q, RequestIsSound(q)
  PROVE  RequestIsSound(q)'
<1>1. q.at \in {"built", "stored"} => SelfContained(q.archive, q.release, q.asked.set)'
  BY SelfContainedStays DEF RequestIsSound
<1>2. q.at = "read" => RulesOf(q.asked.set, q.rules)'
  BY RulesStay DEF RequestIsSound
<1>3. q.at \in {"setRead", "counted"} => sets'[q.asked.set].frozen
  BY DEF RequestIsSound, NothingTakenBack
<1> QED BY <1>1, <1>2, <1>3 DEF RequestIsSound, NothingTakenBack, Extends

-----------------------------------------------------------------------------
(* Publishing.                                                              *)

LEMMA PublishStays ==
  ASSUME held \subseteq held', NEW p \in Publishers, PublishIsSound(p), publish'[p] = publish[p]
  PROVE  PublishIsSound(p)'
BY DEF PublishIsSound

LEMMA ReleasesStayWhole ==
  ASSUME ReleaseIsWhole, held \subseteq held', releases' = releases
  PROVE  ReleaseIsWhole'
BY DEF ReleaseIsWhole

\* runPublish: nothing is recorded before all of it was verified and stored.
LEMMA PublishingStep ==
  ASSUME ConsoleInv, [ConsoleNext]_<<vars, buildVars>>
  PROVE  PublishingIsSound'
<1> USE DEF ConsoleInv, PublishingIsSound
<1>0. held \subseteq held'
  BY NothingIsTakenBack DEF NothingTakenBack
<1> DEFINE Shape(q) == q = [at |-> q.at, folder |-> q.folder, version |-> q.version, target |-> q.target, left |-> q.left]
\* A publisher goes on as q, and nothing is recorded.
<1>1. ASSUME NEW p \in Publishers, NEW q, publish' = [publish EXCEPT ![p] = q], UNCHANGED releases,
             Shape(q), q.at = "verified" =>
               /\ q.folder \in DOMAIN Folders /\ Verifies(Folders[q.folder])
               /\ \A path \in DOMAIN Folders[q.folder].manifest \ q.left :
                    <<"file", Folders[q.folder].files[path]>> \in held'
      PROVE  PublishingIsSound'
  <2>1. publish' = [r \in Publishers |-> publish'[r]] /\ publish'[p] = q
    BY <1>1
  <2>2. \A r \in Publishers : r # p => publish'[r] = publish[r]
    BY <1>1
  <2>3. PublishIsSound(p)'
    BY <1>1, <2>1 DEF PublishIsSound
  <2>4. \A r \in Publishers : r # p => PublishIsSound(r)'
    BY <1>0, <2>2, PublishStays
  <2>5. ReleaseIsWhole' /\ IsRows(releases)'
    BY <1>0, <1>1, ReleasesStayWhole
  <2>6. \A r \in Publishers : Shape(publish'[r])
    BY <1>1, <2>1, <2>2
  <2> QED BY <2>1, <2>3, <2>4, <2>5, <2>6
<1>2. Shape(NoPublish) /\ NoPublish.at = "idle"
  BY DEF NoPublish
<1>3. ASSUME NEW p \in Publishers, Publish(p) PROVE PublishingIsSound'
  <2>1. PICK name \in DOMAIN Folders, version \in Versions, target \in Targets :
          publish' = [publish EXCEPT ![p] =
            IF Verifies(Folders[name])
            THEN [at |-> "verified", folder |-> name, version |-> version, target |-> target,
                  left |-> DOMAIN Folders[name].manifest]
            ELSE NoPublish]
    BY <1>3 DEF Publish
  <2>2. CASE Verifies(Folders[name])
    <3> DEFINE q == [at |-> "verified", folder |-> name, version |-> version, target |-> target,
                     left |-> DOMAIN Folders[name].manifest]
    <3>1. publish' = [publish EXCEPT ![p] = q] /\ UNCHANGED releases
      BY <1>3, <2>1, <2>2 DEF Publish
    <3>2. Shape(q) /\ q.folder = name /\ q.left = DOMAIN Folders[name].manifest
      OBVIOUS
    <3> HIDE DEF q, Shape
    <3> QED BY <1>1, <2>2, <3>1, <3>2
  <2>3. CASE ~Verifies(Folders[name])
    <3>1. publish' = [publish EXCEPT ![p] = NoPublish] /\ UNCHANGED releases
      BY <1>3, <2>1, <2>3 DEF Publish
    <3> QED BY <1>1, <1>2, <3>1
  <2> QED BY <2>2, <2>3
<1>4. ASSUME NEW p \in Publishers, StoreFile(p) PROVE PublishingIsSound'
  <2>1. PICK path \in publish[p].left :
          /\ held' = held \cup {<<"file", Folders[publish[p].folder].files[path]>>}
          /\ publish' = [publish EXCEPT ![p].left = @ \ {path}]
    BY <1>4 DEF StoreFile
  <2> DEFINE q == [publish[p] EXCEPT !.left = @ \ {path}]
  <2>2. /\ Shape(q) /\ q.at = publish[p].at /\ q.folder = publish[p].folder
        /\ q.left = publish[p].left \ {path}
    <3>1. publish[p] = [at |-> publish[p].at, folder |-> publish[p].folder, version |-> publish[p].version,
                        target |-> publish[p].target, left |-> publish[p].left]
      OBVIOUS
    <3>2. PICK x : /\ x = publish[p]
                   /\ x = [at |-> x.at, folder |-> x.folder, version |-> x.version, target |-> x.target, left |-> x.left]
      BY <3>1
    <3> QED BY <3>2
  <2>3. publish' = [publish EXCEPT ![p] = q] /\ UNCHANGED releases
    BY <1>4, <2>1 DEF StoreFile
  <2>4. PublishIsSound(p) /\ publish[p].at = "verified"
    BY <1>4 DEF StoreFile
  <2>5. \A other \in DOMAIN Folders[q.folder].manifest \ q.left : <<"file", Folders[q.folder].files[other]>> \in held'
    BY <2>1, <2>2, <2>4 DEF PublishIsSound
  <2>6. q.folder \in DOMAIN Folders /\ Verifies(Folders[q.folder])
    BY <2>2, <2>4 DEF PublishIsSound
  <2> HIDE DEF q, Shape
  <2> QED BY <1>1, <2>2, <2>3, <2>5, <2>6
<1>5. ASSUME NEW p \in Publishers, RecordRelease(p) PROVE PublishingIsSound'
  <2>1. CASE UNCHANGED releases
    <3>1. publish' = [publish EXCEPT ![p] = NoPublish]
      BY <1>5 DEF RecordRelease
    <3> QED BY <1>1, <1>2, <2>1, <3>1
  <2>2. CASE ~UNCHANGED releases
    <3>1. PICK row, f : /\ f = Folders[publish[p].folder] /\ row.files = f.files
                        /\ releases' = Append(releases, row)
                        /\ publish' = [publish EXCEPT ![p] = NoPublish]
      BY <1>5, <2>2 DEF RecordRelease
    <3>2. publish[p].folder \in DOMAIN Folders /\ Verifies(f) /\ publish[p].left = {}
      BY <1>5, <3>1 DEF RecordRelease, PublishIsSound
    <3>3. \A path \in DOMAIN f.manifest : <<"file", f.files[path]>> \in held
      BY <1>5, <3>1, <3>2 DEF RecordRelease, PublishIsSound
    <3>4. f.manifest = f.files
      <4>1. /\ f.manifest = [path \in DOMAIN f.manifest |-> f.manifest[path]]
            /\ f.files = [path \in DOMAIN f.files |-> f.files[path]]
        BY <3>1, <3>2, BuildAssumption
      <4>2. DOMAIN f.manifest = DOMAIN f.files /\ \A path \in DOMAIN f.manifest : f.files[path] = f.manifest[path]
        BY <3>2 DEF Verifies
      <4> QED BY <4>1, <4>2, Zenon
    <3>5. ReleaseIsWhole'
      <4> SUFFICES ASSUME NEW i \in DOMAIN releases'
                   PROVE  /\ \A path \in DOMAIN releases'[i].files : <<"file", releases'[i].files[path]>> \in held'
                          /\ \E name \in DOMAIN Folders : /\ Folders[name].manifest = Folders[name].files
                                                          /\ releases'[i].files = Folders[name].files
        BY DEF ReleaseIsWhole
      <4>0. /\ \A j \in DOMAIN releases : releases'[j] = releases[j]
            /\ i \in DOMAIN releases \/ releases'[i] = row
        <5>1. IsRows(releases)
          OBVIOUS
        <5>2. /\ Extends(releases', releases) /\ DOMAIN releases' = DOMAIN releases \cup {Len(releases) + 1}
              /\ releases'[Len(releases) + 1] = row
          BY <3>1, <5>1, RowAdded
        <5> QED BY <5>2 DEF Extends
      <4>1. CASE i \in DOMAIN releases
        BY <1>0, <4>0, <4>1 DEF ReleaseIsWhole
      <4>2. CASE releases'[i] = row
        BY <1>0, <3>1, <3>2, <3>3, <3>4, <4>2
      <4> QED BY <4>0, <4>1, <4>2
    <3>6. publish' = [r \in Publishers |-> publish'[r]] /\ publish'[p] = NoPublish
      BY <3>1
    <3>7. \A r \in Publishers : r # p => publish'[r] = publish[r]
      BY <3>1
    <3>8. PublishIsSound(p)'
      BY <1>2, <3>6 DEF PublishIsSound
    <3>9. \A r \in Publishers : r # p => PublishIsSound(r)'
      BY <1>0, <3>7, PublishStays
    <3>10. \A r \in Publishers : Shape(publish'[r])
      BY <1>2, <3>6, <3>7
    <3>11. IsRows(releases)'
      BY <3>1, RowAdded
    <3> QED BY <3>5, <3>6, <3>8, <3>9, <3>10, <3>11
  <2> QED BY <2>1, <2>2
<1>6. ASSUME NEW p \in Publishers, PublishDies(p) PROVE PublishingIsSound'
  <2>1. publish' = [publish EXCEPT ![p] = NoPublish] /\ UNCHANGED releases
    BY <1>6 DEF PublishDies
  <2> QED BY <1>1, <1>2, <2>1
<1>7. CASE UNCHANGED <<releases, publish>>
  <2>1. ReleaseIsWhole'
    BY <1>0, <1>7, ReleasesStayWhole
  <2>2. \A p \in Publishers : PublishIsSound(p)'
    BY <1>0, <1>7, PublishStays
  <2> QED BY <1>7, <2>1, <2>2
<1>8. \/ \E p \in Publishers : Publish(p) \/ StoreFile(p) \/ RecordRelease(p) \/ PublishDies(p)
      \/ UNCHANGED <<releases, publish>>
  BY DEF ConsoleNext, buildVars, BuildStep, BuildCutOff, Fault, BeginBuild, ReadSet, CountRules, FetchRules,
         Assemble, PutArchive, RecordBuild
<1> QED BY <1>3, <1>4, <1>5, <1>6, <1>7, <1>8

-----------------------------------------------------------------------------
(* Building.                                                                *)

LEMMA RefusedIsSound == RequestIsSound(NoRequest("refused")) /\ RequestIsSound(NoRequest("refused"))'
BY DEF RequestIsSound, IsRequest, NoRequest

\* One request goes on as q, and nothing is recorded.
LEMMA RequestGoesOn ==
  ASSUME BuildingIsSound, NothingTakenBack, NEW b \in Builders, NEW q, RequestIsSound(q)',
         request' = [request EXCEPT ![b] = q], UNCHANGED builds
  PROVE  BuildingIsSound'
<1>1. request' = [c \in Builders |-> request'[c]] /\ request'[b] = q
  BY DEF BuildingIsSound
<1>2. \A c \in Builders : c # b => request'[c] = request[c]
  BY DEF BuildingIsSound
<1>3. ASSUME NEW c \in Builders, c # b PROVE RequestIsSound(request[c])'
  <2>1. PICK r : r = request[c] /\ RequestIsSound(r)
    BY DEF BuildingIsSound
  <2>2. RequestIsSound(r)'
    BY <2>1, RequestStays
  <2> QED BY <1>2, <1>3, <2>1, <2>2
<1>4. \A i \in DOMAIN builds : RowIsSound(i)'
  BY RowStays DEF BuildingIsSound
<1> QED BY <1>1, <1>3, <1>4 DEF BuildingIsSound

\* agentgen.Build: what it assembles can run what its agent.json says.
LEMMA AssembledIsSelfContained ==
  ASSUME NEW q, q.release \in DOMAIN releases, RulesOf(q.asked.set, q.rules),
         NEW doc, doc = Declared(releases[q.release].files),
         NEW views, Resolves(doc, views), RulesFit(q, doc, views), Stages(releases[q.release].files, doc, views)
  PROVE  SelfContained(Assembled(q, doc, views), q.release, q.asked.set)
<1> DEFINE archive == Assembled(q, doc, views)
<1>1. /\ archive.files = [path \in Selected(doc, views) |-> releases[q.release].files[path]]
      /\ archive.rules = q.rules /\ archive.config = Identity(q, doc, views)
  <2>1. \A path \in Selected(doc, views) : Stored(releases[q.release].files, path) = releases[q.release].files[path]
    BY DEF Stages, Holds, Stored
  <2>2. archive.files = [path \in Selected(doc, views) |-> Stored(releases[q.release].files, path)]
    BY DEF Assembled
  <2> QED BY <2>1, <2>2 DEF Assembled
<1>2. archive.config.views = views /\ archive.config.rules = q.rules
  BY <1>1 DEF Identity
<1>3. NeedsRules(doc, views) <=> q.asked.set # NoSet
  BY DEF RulesFit, RulesOf
<1> HIDE DEF archive
<1>4. /\ DOMAIN archive.files = Selected(doc, views)
      /\ \A path \in DOMAIN archive.files : archive.files[path] = releases[q.release].files[path]
  BY <1>1
<1>5. RulesOf(q.asked.set, archive.rules) /\ archive.config.rules = archive.rules
  BY <1>1, <1>2
<1>6. SelfContained(archive, q.release, q.asked.set)
  BY <1>2, <1>3, <1>4, <1>5 DEF SelfContained, Resolves
<1> QED BY <1>6 DEF archive

LEMMA BuildingStep ==
  ASSUME ConsoleInv, [ConsoleNext]_<<vars, buildVars>>
  PROVE  BuildingIsSound'
<1> USE DEF ConsoleInv
<1>0. NothingTakenBack
  BY NothingIsTakenBack
<1>1. ASSUME NEW b \in Builders, BeginBuild(b) PROVE BuildingIsSound'
  <2>1. PICK asked \in Asked, second \in Seconds, release \in 1 .. Len(releases) + 1 :
          request' = [request EXCEPT ![b] =
            IF release \notin DOMAIN releases THEN NoRequest("refused")
            ELSE [NoRequest(IF asked.set = NoSet THEN "read" ELSE "releaseRead") EXCEPT
                    !.asked = asked, !.second = second, !.release = release]]
    BY <1>1 DEF BeginBuild
  <2>2. UNCHANGED builds
    BY <1>1 DEF BeginBuild
  <2>3. CASE release \notin DOMAIN releases
    <3>1. request' = [request EXCEPT ![b] = NoRequest("refused")]
      BY <2>1, <2>3
    <3> QED BY <1>0, <2>2, <3>1, RefusedIsSound, RequestGoesOn
  <2>4. CASE release \in DOMAIN releases
    <3>1. PICK place, q : /\ place = IF asked.set = NoSet THEN "read" ELSE "releaseRead"
                          /\ q = [NoRequest(place) EXCEPT !.asked = asked, !.second = second, !.release = release]
      OBVIOUS
    <3>2. /\ IsRequest(q) /\ q.at = place /\ q.asked = asked /\ q.release = release /\ q.rules = <<"none", {}>>
      BY <3>1 DEF IsRequest, NoRequest
    <3>3. RequestIsSound(q)
      <4>1. RulesOf(NoSet, <<"none", {}>>)
        BY DEF RulesOf
      <4>2. asked.set \in Sets \cup {NoSet}
        BY BuildAssumption
      <4>3. place = "read" \/ place = "releaseRead"
        BY <3>1
      <4>4. place = "read" => RulesOf(q.asked.set, q.rules)
        BY <3>1, <3>2, <4>1
      <4>5. place = "releaseRead" => asked.set \in Sets /\ asked.set # NoSet
        BY <3>1, <4>2
      <4> QED BY <2>4, <3>2, <4>3, <4>4, <4>5 DEF RequestIsSound
    <3>4. request' = [request EXCEPT ![b] = q]
      BY <2>1, <2>4, <3>1
    <3>5. RequestIsSound(q)'
      BY <1>0, <3>3, RequestStays
    <3> QED BY <1>0, <2>2, <3>4, <3>5, RequestGoesOn
  <2> QED BY <2>3, <2>4
<1>2. ASSUME NEW b \in Builders, ReadSet(b) PROVE BuildingIsSound'
  <2>1. PICK q : q = request[b] /\ RequestIsSound(q) /\ q.at = "releaseRead"
    BY <1>2 DEF ReadSet, BuildingIsSound
  <2>2. CASE sets[q.asked.set].frozen
    <3>1. PICK r : r = [q EXCEPT !.at = "setRead"]
      OBVIOUS
    <3>2. IsRequest(r) /\ r.at = "setRead" /\ r.asked = q.asked /\ r.release = q.release
      BY <2>1, <3>1 DEF RequestIsSound, IsRequest
    <3>3. RequestIsSound(r)
      BY <2>1, <2>2, <3>2 DEF RequestIsSound
    <3>4. request' = [request EXCEPT ![b] = r] /\ UNCHANGED builds
      BY <1>2, <2>1, <2>2, <3>1 DEF ReadSet, BuildingIsSound
    <3> QED BY <1>0, <3>3, <3>4, RequestStays, RequestGoesOn
  <2>3. CASE ~sets[q.asked.set].frozen
    <3>1. request' = [request EXCEPT ![b] = NoRequest("refused")] /\ UNCHANGED builds
      BY <1>2, <2>1, <2>3 DEF ReadSet, BuildingIsSound
    <3> QED BY <1>0, <3>1, RefusedIsSound, RequestGoesOn
  <2> QED BY <2>2, <2>3
<1>3. ASSUME NEW b \in Builders, CountRules(b) PROVE BuildingIsSound'
  <2>1. PICK q : q = request[b] /\ RequestIsSound(q) /\ q.at = "setRead"
    BY <1>3 DEF CountRules, BuildingIsSound
  <2>2. PICK count, r : /\ r = [q EXCEPT !.at = "counted", !.count = count]
                        /\ request' = [request EXCEPT ![b].at = "counted", ![b].count = count]
    BY <1>3 DEF CountRules
  <2>3. IsRequest(r) /\ r.at = "counted" /\ r.asked = q.asked /\ r.release = q.release
    BY <2>1, <2>2 DEF RequestIsSound, IsRequest
  <2>4. RequestIsSound(r)
    BY <2>1, <2>3 DEF RequestIsSound
  <2>5. request' = [request EXCEPT ![b] = r] /\ UNCHANGED builds
    BY <1>3, <2>1, <2>2 DEF CountRules, BuildingIsSound
  <2> QED BY <1>0, <2>4, <2>5, RequestStays, RequestGoesOn
<1>4. ASSUME NEW b \in Builders, FetchRules(b) PROVE BuildingIsSound'
  <2>1. PICK q : q = request[b] /\ RequestIsSound(q) /\ q.at = "counted"
    BY <1>4 DEF FetchRules, BuildingIsSound
  <2>2. PICK key, got : /\ key = RuleKey(q.asked.set)
                        /\ got = <<"rules", IF Intact(key) THEN key[2] ELSE {<<0, Altered>>}>>
    OBVIOUS
  <2>3. CASE CanGet(key)
    <3>1. PICK r : r = [q EXCEPT !.at = "read", !.rules = got]
      OBVIOUS
    <3>2. IsRequest(r) /\ r.at = "read" /\ r.asked = q.asked /\ r.release = q.release /\ r.rules = got
      BY <2>1, <3>1 DEF RequestIsSound, IsRequest
    <3>3. RulesOf(q.asked.set, got)
      <4>1. PICK s \in Sets : s = q.asked.set /\ s # NoSet /\ sets[s].frozen
        BY <2>1 DEF RequestIsSound
      <4>2. sets[s].blob # {}
        <5>1. sets[s].members # {} /\ sets[s].blob = Blob(sets[s].members)
          BY <4>1 DEF LibraryInv, FrozenAreSound, FrozenIsSound, Sound
        <5> QED BY <5>1 DEF Blob
      <4>3. key = <<"rules", sets[s].blob>>
        BY <2>2, <4>1 DEF RuleKey
      <4>4. CASE Intact(key)
        BY <2>2, <4>1, <4>2, <4>3, <4>4 DEF RulesOf, RuleKey
      <4>5. CASE ~Intact(key)
        BY <2>2, <4>1, <4>3, <4>5 DEF RulesOf, RuleKey, Intact
      <4> QED BY <4>4, <4>5
    <3>4. RequestIsSound(r)
      BY <2>1, <3>2, <3>3 DEF RequestIsSound
    <3>5. request' = [request EXCEPT ![b] = r] /\ UNCHANGED builds
      BY <1>4, <2>1, <2>2, <2>3, <3>1 DEF FetchRules, BuildingIsSound
    <3> QED BY <1>0, <3>4, <3>5, RequestStays, RequestGoesOn
  <2>4. CASE ~CanGet(key)
    <3>1. request' = [request EXCEPT ![b] = NoRequest("refused")] /\ UNCHANGED builds
      BY <1>4, <2>1, <2>2, <2>4 DEF FetchRules, BuildingIsSound
    <3> QED BY <1>0, <3>1, RefusedIsSound, RequestGoesOn
  <2> QED BY <2>3, <2>4
<1>5. ASSUME NEW b \in Builders, Assemble(b) PROVE BuildingIsSound'
  <2>1. PICK q : q = request[b] /\ RequestIsSound(q) /\ q.at = "read"
    BY <1>5 DEF Assemble, BuildingIsSound
  <2>2. PICK doc, views : doc = Declared(releases[q.release].files) /\ views = SeqRange(q.asked.views)
    OBVIOUS
  <2>3. UNCHANGED builds
    BY <1>5 DEF Assemble
  <2>4. \/ /\ Resolves(doc, views) /\ RulesFit(q, doc, views) /\ Stages(releases[q.release].files, doc, views)
           /\ request' = [request EXCEPT ![b] = [q EXCEPT !.at = "built", !.archive = Assembled(q, doc, views)]]
        \/ request' = [request EXCEPT ![b] = NoRequest("refused")]
    BY <1>5, <2>1, <2>2 DEF Assemble, BuildingIsSound
  <2>5. ASSUME Resolves(doc, views), RulesFit(q, doc, views), Stages(releases[q.release].files, doc, views),
               NEW r, r = [q EXCEPT !.at = "built", !.archive = Assembled(q, doc, views)],
               request' = [request EXCEPT ![b] = r]
        PROVE  BuildingIsSound'
    <3>1. /\ IsRequest(r) /\ r.at = "built" /\ r.asked = q.asked /\ r.release = q.release
          /\ r.archive = Assembled(q, doc, views)
      BY <2>1, <2>5 DEF RequestIsSound, IsRequest
    <3>2. SelfContained(Assembled(q, doc, views), q.release, q.asked.set)
      BY <2>1, <2>2, <2>5, AssembledIsSelfContained DEF RequestIsSound
    <3>3. RequestIsSound(r)
      BY <3>1, <3>2 DEF RequestIsSound
    <3> QED BY <1>0, <2>3, <2>5, <3>3, RequestStays, RequestGoesOn
  <2>6. CASE request' = [request EXCEPT ![b] = NoRequest("refused")]
    BY <1>0, <2>3, <2>6, RefusedIsSound, RequestGoesOn
  <2> QED BY <2>4, <2>5, <2>6
<1>6. ASSUME NEW b \in Builders, PutArchive(b) PROVE BuildingIsSound'
  <2>1. PICK q : q = request[b] /\ RequestIsSound(q) /\ q.at = "built"
    BY <1>6 DEF PutArchive, BuildingIsSound
  <2>2. PICK r : r = [q EXCEPT !.at = "stored"]
    OBVIOUS
  <2>3. /\ IsRequest(r) /\ r.at = "stored" /\ r.asked = q.asked /\ r.release = q.release /\ r.archive = q.archive
    BY <2>1, <2>2 DEF RequestIsSound, IsRequest
  <2>4. ArchiveKey(r.archive) \in held' /\ UNCHANGED builds
    BY <1>6, <2>1, <2>3 DEF PutArchive
  <2>5. SelfContained(r.archive, r.release, r.asked.set)'
    BY <1>0, <2>1, <2>3, SelfContainedStays DEF RequestIsSound
  <2>6. RequestIsSound(r)'
    BY <2>3, <2>4, <2>5 DEF RequestIsSound
  <2>7. request' = [request EXCEPT ![b] = r]
    BY <1>6, <2>1, <2>2 DEF PutArchive, BuildingIsSound
  <2> QED BY <1>0, <2>4, <2>6, <2>7, RequestGoesOn
<1>7. ASSUME NEW b \in Builders, RecordBuild(b) PROVE BuildingIsSound'
  <2>1. PICK q : q = request[b] /\ RequestIsSound(q) /\ q.at = "stored"
    BY <1>7 DEF RecordBuild, BuildingIsSound
  <2>2. PICK id : id = Truncated(q.archive.config)
    OBVIOUS
  <2>3. ASSUME NEW i \in DOMAIN builds, UNCHANGED builds,
               request' = IF builds[i].archive = q.archive
                          THEN [request EXCEPT ![b].at = "created", ![b].row = i]
                          ELSE [request EXCEPT ![b] = NoRequest("refused")]
        PROVE  BuildingIsSound'
    <3>1. CASE builds[i].archive = q.archive
      <4>1. PICK r : r = [q EXCEPT !.at = "created", !.row = i]
        OBVIOUS
      <4>2. IsRequest(r) /\ r.at = "created" /\ r.archive = q.archive /\ r.row = i
        BY <2>1, <4>1 DEF RequestIsSound, IsRequest
      <4>3. RequestIsSound(r)
        BY <2>1, <3>1, <4>2 DEF RequestIsSound
      <4>4. request' = [request EXCEPT ![b] = r]
        BY <2>1, <2>3, <3>1, <4>1 DEF BuildingIsSound
      <4> QED BY <1>0, <2>3, <4>3, <4>4, RequestStays, RequestGoesOn
    <3>2. CASE builds[i].archive # q.archive
      BY <1>0, <2>3, <3>2, RefusedIsSound, RequestGoesOn
    <3> QED BY <3>1, <3>2
  <2>4. ASSUME \A i \in DOMAIN builds : builds[i].id # id,
               NEW row, row = [id |-> id, release |-> q.release, set |-> q.asked.set, archive |-> q.archive],
               builds' = Append(builds, row),
               request' = [request EXCEPT ![b].at = "created", ![b].row = Len(builds) + 1]
        PROVE  BuildingIsSound'
    <3>1. PICK n, r : n = Len(builds) + 1 /\ r = [q EXCEPT !.at = "created", !.row = n]
      OBVIOUS
    <3>2. /\ IsRows(builds)' /\ \A i \in DOMAIN builds : builds'[i] = builds[i]
          /\ DOMAIN builds' = DOMAIN builds \cup {n} /\ n \notin DOMAIN builds /\ builds'[n] = row
      <4>1. IsRows(builds)
        BY DEF BuildingIsSound
      <4> QED BY <2>4, <3>1, <4>1, RowAdded DEF Extends
    <3>3. IsRequest(r) /\ r.at = "created" /\ r.archive = q.archive /\ r.row = n
      BY <2>1, <3>1 DEF RequestIsSound, IsRequest
    <3>4. row.id = id /\ row.release = q.release /\ row.set = q.asked.set /\ row.archive = q.archive
      BY <2>4
    <3>5. ArchiveKey(q.archive) \in held'
      BY <1>0, <2>1 DEF RequestIsSound, NothingTakenBack
    <3>6. RequestIsSound(r)'
      BY <3>2, <3>3, <3>4, <3>5 DEF RequestIsSound
    <3>7. SelfContained(q.archive, q.release, q.asked.set)'
      BY <1>0, <2>1, SelfContainedStays DEF RequestIsSound
    <3>8. RowIsSound(n)'
      BY <3>2, <3>4, <3>5, <3>7 DEF RowIsSound
    <3>9. \A i \in DOMAIN builds : RowIsSound(i)'
      BY <1>0, RowStays DEF BuildingIsSound
    <3>10. \A i, j \in DOMAIN builds' : builds'[i].id = builds'[j].id => i = j
      BY <2>4, <3>2, <3>4 DEF BuildingIsSound
    <3>11. request' = [c \in Builders |-> request'[c]] /\ request'[b] = r
      BY <2>1, <2>4, <3>1 DEF BuildingIsSound
    <3>12. ASSUME NEW c \in Builders, c # b PROVE RequestIsSound(request[c])'
      <4>1. PICK t : t = request[c] /\ RequestIsSound(t)
        BY DEF BuildingIsSound
      <4>2. RequestIsSound(t)' /\ request'[c] = t
        BY <1>0, <2>4, <3>12, <4>1, RequestStays DEF BuildingIsSound
      <4> QED BY <4>2
    <3>13. \A c \in Builders : RequestIsSound(request[c])'
      BY <3>6, <3>11, <3>12
    <3>14. \A i \in DOMAIN builds' : RowIsSound(i)'
      BY <3>2, <3>8, <3>9
    <3> QED BY <3>2, <3>10, <3>11, <3>13, <3>14 DEF BuildingIsSound
  <2> QED BY <1>7, <2>1, <2>2, <2>3, <2>4 DEF RecordBuild
<1>8. CASE BuildCutOff
  <2>1. UNCHANGED builds /\ request' = [c \in Builders |-> request'[c]]
    BY <1>8 DEF BuildCutOff
  <2>2. ASSUME NEW c \in Builders PROVE RequestIsSound(request[c])'
    <3>1. PICK q : q = request[c] /\ RequestIsSound(q)
      BY DEF BuildingIsSound
    <3>2. request'[c] = q \/ request'[c] = NoRequest("refused")
      BY <1>8, <3>1 DEF BuildCutOff
    <3>3. RequestIsSound(q)'
      BY <1>0, <3>1, RequestStays
    <3> QED BY <3>2, <3>3, RefusedIsSound
  <2>3. \A i \in DOMAIN builds : RowIsSound(i)'
    BY <1>0, RowStays DEF BuildingIsSound
  <2> QED BY <2>1, <2>2, <2>3 DEF BuildingIsSound
<1>9. CASE UNCHANGED <<request, builds>>
  <2>1. ASSUME NEW c \in Builders PROVE RequestIsSound(request[c])'
    <3>1. PICK q : q = request[c] /\ RequestIsSound(q)
      BY DEF BuildingIsSound
    <3> QED BY <1>0, <1>9, <3>1, RequestStays
  <2>2. \A i \in DOMAIN builds : RowIsSound(i)'
    BY <1>0, RowStays DEF BuildingIsSound
  <2> QED BY <1>9, <2>1, <2>2 DEF BuildingIsSound
<1>10. \/ \E b \in Builders : \/ BeginBuild(b) \/ ReadSet(b) \/ CountRules(b) \/ FetchRules(b)
                              \/ Assemble(b) \/ PutArchive(b) \/ RecordBuild(b)
       \/ BuildCutOff
       \/ UNCHANGED <<request, builds>>
  BY DEF ConsoleNext, buildVars, BuildStep, Publish, StoreFile, RecordRelease, PublishDies, Fault
<1> QED BY <1>1, <1>2, <1>3, <1>4, <1>5, <1>6, <1>7, <1>8, <1>9, <1>10

-----------------------------------------------------------------------------
(* Theorems.                                                                *)

LEMMA ConsoleStarts == ConsoleInit => ConsoleInv
<1> SUFFICES ASSUME ConsoleInit PROVE ConsoleInv
  OBVIOUS
<1>1. LibraryInv
  BY LibraryStarts DEF ConsoleInit
<1>2. IsRows(<<>>) /\ DOMAIN <<>> = {}
  BY EmptySeq DEF IsRows, SeqRange
<1>3. PublishingIsSound
  BY <1>2 DEF ConsoleInit, BuildInit, PublishingIsSound, PublishIsSound, NoPublish, ReleaseIsWhole
<1>4. BuildingIsSound
  BY <1>2 DEF ConsoleInit, BuildInit, BuildingIsSound, RequestIsSound, IsRequest, NoRequest
<1> QED BY <1>1, <1>3, <1>4 DEF ConsoleInv

LEMMA ConsoleStep == ConsoleInv /\ [ConsoleNext]_<<vars, buildVars>> => ConsoleInv'
<1> SUFFICES ASSUME ConsoleInv, [ConsoleNext]_<<vars, buildVars>> PROVE ConsoleInv'
  OBVIOUS
<1>1. LibraryInv'
  <2>1. LibraryInv /\ [Next]_vars
    BY LibrarySteps DEF ConsoleInv
  <2> QED BY <2>1, TypeStep, RulesStep, EditsStep, FreezesStep, FrozenStep DEF LibraryInv
<1> QED BY <1>1, PublishingStep, BuildingStep DEF ConsoleInv

\* Publishing, building, freezing and deleting side by side, with blobs lost and
\* altered and the console stopped between any two steps, keep the invariant.
THEOREM ConsoleKeepsInv == ConsoleSpec => []ConsoleInv
BY ConsoleStarts, ConsoleStep, PTL DEF ConsoleSpec

\* runPublish: however publishing is interrupted or raced, a recorded release is a
\* folder all of which was verified and stored.
THEOREM ReleasesAreWhole == ConsoleSpec => []ReleaseIsWhole
<1>1. ConsoleInv => ReleaseIsWhole
  BY DEF ConsoleInv, PublishingIsSound
<1> QED BY ConsoleKeepsInv, <1>1, PTL

LEMMA SelectedAreTheFiles ==
  ASSUME NEW doc, NEW views
  PROVE  Selected(doc, views) = doc.always \cup (UNION {doc.views[v].binaries : v \in views})
                                  \cup (UNION {doc.views[v].data : v \in {v \in views : ~doc.views[v].rules}})
<1>1. ASSUME NEW path PROVE path \in Selected(doc, views) <=>
        \/ path \in doc.always
        \/ \E v \in views : path \in doc.views[v].binaries \/ (~doc.views[v].rules /\ path \in doc.views[v].data)
  BY DEF Selected
<1>2. PICK binaries, data :
        /\ binaries = UNION {doc.views[v].binaries : v \in views}
        /\ data = UNION {doc.views[v].data : v \in {v \in views : ~doc.views[v].rules}}
  OBVIOUS
<1>3. \A path : path \in binaries <=> \E v \in views : path \in doc.views[v].binaries
  BY <1>2
<1>4. \A path : path \in data <=> \E v \in views : ~doc.views[v].rules /\ path \in doc.views[v].data
  BY <1>2
<1>5. Selected(doc, views) = doc.always \cup binaries \cup data
  BY <1>1, <1>3, <1>4
<1> QED BY <1>2, <1>5

\* agentgen.Build: an agent holds every program and rule its agent.json says, as they
\* were published and frozen.
THEOREM AgentsAreSelfContained == ConsoleSpec => []AgentIsSelfContained
<1>1. ConsoleInv => AgentIsSelfContained
  <2> SUFFICES ASSUME ConsoleInv, NEW i \in DOMAIN builds,
                      NEW archive, archive = builds[i].archive,
                      NEW doc, doc = Declared(releases[builds[i].release].files),
                      NEW views, views = archive.config.views
               PROVE  /\ views # {} /\ views \subseteq DOMAIN doc.views
                      /\ DOMAIN archive.files = doc.always \cup (UNION {doc.views[v].binaries : v \in views})
                            \cup (UNION {doc.views[v].data : v \in {v \in views : ~doc.views[v].rules}})
                      /\ \A path \in DOMAIN archive.files : archive.files[path] = releases[builds[i].release].files[path]
                      /\ NeedsRules(doc, views) <=> builds[i].set # NoSet
                      /\ builds[i].set # NoSet =>
                           /\ archive.rules[2] # {} /\ archive.config.rules = archive.rules
                           /\ archive.rules = RuleKey(builds[i].set) \/ RuleKey(builds[i].set) \in altered
    BY DEF AgentIsSelfContained
  <2>1. SelfContained(archive, builds[i].release, builds[i].set)
    BY DEF ConsoleInv, BuildingIsSound, RowIsSound
  <2> QED BY <2>1, SelectedAreTheFiles DEF SelfContained, RulesOf
<1> QED BY ConsoleKeepsInv, <1>1, PTL

\* RecordBuild: the analyst who was answered was given the record of the archive that
\* was built for them, also when a shortened id collides or two ask at once.
THEOREM AnswersAreTheRecord == ConsoleSpec => []AnswerIsTheRecord
<1>1. ConsoleInv => AnswerIsTheRecord
  <2> SUFFICES ASSUME ConsoleInv PROVE AnswerIsTheRecord
    OBVIOUS
  <2>1. \A b \in Builders : request[b].at = "created" =>
          /\ builds[request[b].row].archive = request[b].archive
          /\ ArchiveKey(request[b].archive) \in held
    BY DEF ConsoleInv, BuildingIsSound, RequestIsSound
  <2>2. \A i, j \in DOMAIN builds : builds[i].id = builds[j].id => i = j
    BY DEF ConsoleInv, BuildingIsSound
  <2>3. \A i \in DOMAIN builds : Download(i) = "asBuilt" \/ ArchiveKey(builds[i].archive) \in lost \cup altered
    BY DEF ConsoleInv, BuildingIsSound, RowIsSound, Download, CanGet, Intact, Keys
  <2> QED BY <2>1, <2>2, <2>3 DEF AnswerIsTheRecord
<1> QED BY ConsoleKeepsInv, <1>1, PTL

-----------------------------------------------------------------------------
\* Triage: the contents of all the scans, the judgements there can be, and the pages.
ContentKeys == UNION {KeysOf(ScanFindings[scan]) : scan \in DOMAIN ScanFindings}
Judgement == [key : ContentKeys, verdict : ValidVerdicts, case : {CaseOf[scan] : scan \in DOMAIN ScanFindings}, at : Nat]
GroupsOf == {<<>>} \cup {Groups(ScanFindings[scan]) : scan \in DOMAIN ScanFindings}
Page == [at : {"idle", "grouped", "shown"}, scan : {"none"} \cup DOMAIN ScanFindings,
         groups : GroupsOf, priors : Seq(Seq(Nat)), seen : Nat]

TriageTypeOK == /\ decisions \in Seq(Judgement) /\ clock \in Nat
                /\ page \in [Analysts -> Page]

\* A page that was asked for has the groups of its scan; no later judgement is missing from
\* what was seen then.
PageAsked(a) == page[a].at # "idle" =>
  /\ page[a].scan \in DOMAIN ScanFindings /\ page[a].groups = Groups(ScanFindings[page[a].scan])
  /\ page[a].seen <= Len(decisions)

\* What is shown of a content: the judgements about it, all those that were seen, the
\* latest first.
Told(table, prior, key, seen) ==
  /\ \A k \in DOMAIN prior : prior[k] \in DOMAIN table /\ table[prior[k]].key = key
  /\ \A i \in 1 .. seen : table[i].key = key => \E k \in DOMAIN prior : prior[k] = i
  /\ \A k, l \in DOMAIN prior : k < l => table[prior[k]].at >= table[prior[l]].at
Shown(a) == page[a].at = "shown" =>
  /\ DOMAIN page[a].priors = DOMAIN page[a].groups
  /\ \A g \in DOMAIN page[a].groups : Told(decisions, page[a].priors[g], page[a].groups[g].key, page[a].seen)

TriageInv == TriageTypeOK /\ (\A a \in Analysts : PageAsked(a)) /\ (\A a \in Analysts : Shown(a))

\* The groups of a scan's findings: each finding in one, under its content's key and no
\* worse than its group; no group worse than the one before it.
Grouped(rows, groups) ==
  /\ \E n \in Nat : DOMAIN groups = 1 .. n
  /\ \A i \in DOMAIN rows : \E g \in DOMAIN groups :
       i \in groups[g].findings /\ \A h \in DOMAIN groups \ {g} : i \notin groups[h].findings
  /\ \A g \in DOMAIN groups :
       /\ groups[g].key \in KeysOf(rows)
       /\ \A i \in groups[g].findings : rows[i].key = groups[g].key /\ RankOf(rows[i].tier) <= RankOf(groups[g].tier)
       /\ g > 1 => RankOf(groups[g].tier) <= RankOf(groups[g - 1].tier)

LEMMA RanksAreNumbers == \A tier : RankOf(tier) \in Nat
<1> TAKE tier
<1>1. CASE tier \in DOMAIN TierRank
  BY <1>1 DEF RankOf, TierRank
<1>2. CASE tier \notin DOMAIN TierRank
  BY <1>2 DEF RankOf
<1> QED BY <1>1, <1>2

LEMMA NothingIsClean == RankOf("") = 0
BY DEF RankOf, TierRank

\* A group's first finding is one of its findings, and it is at least as bad as each.
LEMMA GroupsAreTrue ==
  ASSUME NEW scan \in DOMAIN ScanFindings, NEW key \in KeysOf(ScanFindings[scan])
  PROVE  LET rows == ScanFindings[scan]
         IN  /\ FirstOf(rows, key) \in Mine(rows, key) /\ FirstOf(rows, key) \in Nat
             /\ \A i \in Mine(rows, key) : RankOf(rows[i].tier) <= RankOf(WorstTier(rows, key))
             /\ WorstScore(rows, key) \in Int
             /\ Cardinality({<<rows[i].host, rows[i].path>> : i \in Mine(rows, key)}) \in Nat
<1> DEFINE rows == ScanFindings[scan]
           M == Mine(rows, key)
<1>1. Len(rows) \in Nat /\ DOMAIN rows = 1 .. Len(rows) /\ \A i \in DOMAIN rows : rows[i].score \in Int
  BY ScansAssumption
<1>2. M \in SUBSET Nat /\ M \in SUBSET (1 .. Len(rows)) /\ M # {}
  BY <1>1 DEF Mine, KeysOf
<1>3. IsFiniteSet(M)
  <2>1. IsFiniteSet(1 .. Len(rows))
    BY <1>1, FS_Interval
  <2> HIDE DEF M, rows
  <2> QED BY <1>2, <2>1, FS_Subset
<1>4. FirstOf(rows, key) \in M
  <2>1. \E i \in M : \A j \in M : i <= j
    BY <1>2, LeastNumber
  <2> QED BY <2>1 DEF FirstOf
<1>5. \A i \in M : RankOf(rows[i].tier) <= RankOf(WorstTier(rows, key))
  <2> DEFINE rank == [i \in M |-> RankOf(rows[i].tier)]
             T == {rank[i] : i \in M}
             W == Worst(rows, key)
             first == CHOOSE i \in W : \A j \in W : i <= j
  <2>1. T \in SUBSET Int /\ T # {} /\ \A i \in M : rank[i] \in Nat
    BY <1>2, RanksAreNumbers
  <2>2. IsFiniteSet(T)
    <3>1. rank \in [M -> T] /\ \A t \in T : \E s \in M : rank[s] = t
      OBVIOUS
    <3> HIDE DEF rank, T, M
    <3> QED BY <1>3, <3>1, Onto
  <2>3. PICK t \in T : \A n \in T : n <= t
    <3> HIDE DEF T
    <3> QED BY <2>1, <2>2, HighestNumber
  <2>4. W # {} /\ W \in SUBSET M /\ \A i \in W : \A j \in M : RankOf(rows[j].tier) <= RankOf(rows[i].tier)
    BY <2>3 DEF Worst
  <2>5. W \in SUBSET Nat
    BY <1>2, <2>4
  <2>6. \E i \in W : \A j \in W : i <= j
    <3> HIDE DEF W
    <3> QED BY <2>4, <2>5, LeastNumber
  <2>7. first \in W
    <3> HIDE DEF W
    <3> QED BY <2>6
  <2>8. WorstTier(rows, key) = IF RankOf(rows[first].tier) = 0 THEN "" ELSE rows[first].tier
    BY DEF WorstTier
  <2>9. RankOf(WorstTier(rows, key)) = RankOf(rows[first].tier)
    <3> HIDE DEF first, rows
    <3> QED BY <2>8, NothingIsClean
  <2> QED BY <2>4, <2>7, <2>9
<1>6. WorstScore(rows, key) \in Int
  <2> DEFINE scores == [i \in M |-> rows[i].score]
             T == {scores[i] : i \in M}
             U == T \cup {0}
  <2>1. T \in SUBSET Int /\ U \in SUBSET Int /\ U # {}
    BY <1>1, <1>2
  <2>2. IsFiniteSet(T)
    <3>1. scores \in [M -> T] /\ \A t \in T : \E s \in M : scores[s] = t
      OBVIOUS
    <3> HIDE DEF scores, T, M
    <3> QED BY <1>3, <3>1, Onto
  <2>3. IsFiniteSet(U)
    <3> HIDE DEF T
    <3> QED BY <2>2, FS_AddElement
  <2>4. PICK m \in U : \A n \in U : n <= m
    <3> HIDE DEF U
    <3> QED BY <2>1, <2>3, HighestNumber
  <2>5. U = {0} \cup {rows[i].score : i \in M}
    OBVIOUS
  <2>6. m >= 0 /\ \A i \in M : rows[i].score <= m
    BY <2>1, <2>4
  <2>7. \E s \in {0} \cup {rows[i].score : i \in M} : s >= 0 /\ \A i \in M : rows[i].score <= s
    <3> HIDE DEF M
    <3> QED BY <2>5, <2>6
  <2>8. WorstScore(rows, key) \in {0} \cup {rows[i].score : i \in M}
    <3> HIDE DEF rows, M
    <3> QED BY <2>7 DEF WorstScore, M
  <2> QED BY <1>1, <1>2, <2>8
<1>7. Cardinality({<<rows[i].host, rows[i].path>> : i \in M}) \in Nat
  <2> DEFINE where == [i \in M |-> <<rows[i].host, rows[i].path>>]
             T == {<<rows[i].host, rows[i].path>> : i \in M}
  <2>1. where \in [M -> T] /\ \A t \in T : \E s \in M : where[s] = t
    OBVIOUS
  <2>2. IsFiniteSet(T)
    <3> HIDE DEF where, T, M
    <3> QED BY <1>3, <2>1, Onto
  <2> QED BY <2>2, FS_CardinalityType
<1>8. FirstOf(rows, key) \in Nat
  BY <1>2, <1>4
<1> QED BY <1>4, <1>5, <1>6, <1>7, <1>8

LEMMA GroupsHold ==
  ASSUME NEW scan \in DOMAIN ScanFindings
  PROVE  Grouped(ScanFindings[scan], Groups(ScanFindings[scan]))
<1> DEFINE rows == ScanFindings[scan]
           S == {GroupOf(rows, key) : key \in KeysOf(rows)}
           R == {gh \in S \X S : Before(gh[1], gh[2])}
           n == Cardinality(S)
           groups == Groups(rows)
<1>1. Len(rows) \in Nat /\ DOMAIN rows = 1 .. Len(rows)
  BY ScansAssumption
<1>2. IsFiniteSet(S) /\ n \in Nat
  <2> DEFINE of == [i \in DOMAIN rows |-> GroupOf(rows, rows[i].key)]
  <2>1. of \in [DOMAIN rows -> S] /\ \A g \in S : \E i \in DOMAIN rows : of[i] = g
    BY DEF KeysOf
  <2>2. IsFiniteSet(DOMAIN rows)
    <3>1. 1 \in Int /\ Len(rows) \in Int /\ DOMAIN rows = 1 .. Len(rows)
      BY <1>1
    <3> HIDE DEF rows
    <3> QED BY <3>1, FS_Interval
  <2>3. IsFiniteSet(S)
    <3> HIDE DEF S, of, rows
    <3> QED BY <2>1, <2>2, Onto
  <2> QED BY <2>3, FS_CardinalityType
<1>3. \A g \in S : /\ g.key \in KeysOf(rows) /\ g.findings = Mine(rows, g.key) /\ g = GroupOf(rows, g.key)
                   /\ g.first \in g.findings /\ g.first \in Nat /\ g.score \in Int /\ g.locations \in Nat
                   /\ RankOf(g.tier) \in Nat
                   /\ \A i \in g.findings : RankOf(rows[i].tier) <= RankOf(g.tier)
  <2> TAKE g \in S
  <2>1. PICK key \in KeysOf(rows) : g = GroupOf(rows, key)
    OBVIOUS
  <2>2. /\ g.key = key /\ g.findings = Mine(rows, key) /\ g.first = FirstOf(rows, key) /\ g.tier = WorstTier(rows, key)
        /\ g.score = WorstScore(rows, key)
        /\ g.locations = Cardinality({<<rows[i].host, rows[i].path>> : i \in Mine(rows, key)})
    BY <2>1 DEF GroupOf
  <2>3. RankOf(g.tier) \in Nat
    BY RanksAreNumbers
  <2>4. /\ FirstOf(rows, key) \in Mine(rows, key) /\ FirstOf(rows, key) \in Nat
        /\ \A i \in Mine(rows, key) : RankOf(rows[i].tier) <= RankOf(WorstTier(rows, key))
        /\ WorstScore(rows, key) \in Int
        /\ Cardinality({<<rows[i].host, rows[i].path>> : i \in Mine(rows, key)}) \in Nat
    BY GroupsAreTrue
  <2> HIDE DEF rows
  <2> QED BY <2>1, <2>2, <2>3, <2>4
<1>4. \A g, h \in S : g.first = h.first => g = h
  <2> TAKE g, h \in S
  <2> SUFFICES ASSUME g.first = h.first PROVE g = h
    OBVIOUS
  <2>1. g.first \in Mine(rows, g.key) /\ g.first \in Mine(rows, h.key)
    BY <1>3
  <2>2. g.key = h.key
    BY <2>1 DEF Mine
  <2> QED BY <1>3, <2>2
<1> HIDE DEF S
<1>5. Decides(R, S)
  <2>1. \A g \in S : <<g, g>> \notin R
    BY <1>3 DEF Before
  <2>2. ASSUME NEW g \in S, NEW h \in S, NEW k \in S, <<g, h>> \in R, <<h, k>> \in R
        PROVE  <<g, k>> \in R
    <3>1. Before(g, h) /\ Before(h, k)
      BY <2>2
    <3>2. Before(g, k)
      BY <1>3, <3>1 DEF Before
    <3> QED BY <3>2
  <2>3. ASSUME NEW g \in S, NEW h \in S
        PROVE  g = h \/ <<g, h>> \in R \/ <<h, g>> \in R
    <3>1. g.first = h.first \/ Before(g, h) \/ Before(h, g)
      BY <1>3 DEF Before
    <3> QED BY <1>4, <3>1
  <2> QED BY <2>1, <2>2, <2>3 DEF Decides
<1>6. groups = CountedOff(R, S)
  <2>1. \A x \in S : {y \in S : Before(y, x)} = {y \in S : <<y, x>> \in R}
    OBVIOUS
  <2>2. groups = [i \in 1 .. n |-> CHOOSE x \in S : Cardinality({y \in S : Before(y, x)}) = i - 1]
    BY DEF Groups, InOrderOf, S
  <2>3. \A i \in 1 .. n : (CHOOSE x \in S : Cardinality({y \in S : Before(y, x)}) = i - 1)
                            = CHOOSE x \in S : Cardinality({y \in S : <<y, x>> \in R}) = i - 1
    <3> HIDE DEF R
    <3> QED BY <2>1
  <2> QED BY <2>2, <2>3 DEF CountedOff
<1>7. /\ groups \in [1 .. n -> S]
      /\ \A x \in S : \E i \in 1 .. n : groups[i] = x
      /\ \A i, j \in 1 .. n : i < j => <<groups[i], groups[j]>> \in R
  <2> HIDE DEF R, groups
  <2> QED BY <1>2, <1>5, <1>6, Ranked
<1>8. DOMAIN groups = 1 .. n /\ \A g \in 1 .. n : groups[g] \in S
  BY <1>7
<1>9. \A i, j \in 1 .. n : i < j => Before(groups[i], groups[j])
  BY <1>7
<1> HIDE DEF groups, R, n
<1>10. \A i, j \in 1 .. n : i # j => groups[i].key # groups[j].key
  <2>1. \A g \in S : ~Before(g, g)
    BY <1>3 DEF Before
  <2>2. ASSUME NEW i \in 1 .. n, NEW j \in 1 .. n, i < j
        PROVE  groups[i].key # groups[j].key
    <3>1. groups[i] # groups[j]
      BY <1>8, <1>9, <2>1, <2>2
    <3> QED BY <1>3, <1>8, <3>1
  <2> QED BY <1>2, <2>2
<1>11. ASSUME NEW i \in DOMAIN rows
       PROVE  \E g \in DOMAIN groups :
                i \in groups[g].findings /\ \A h \in DOMAIN groups \ {g} : i \notin groups[h].findings
  <2>1. GroupOf(rows, rows[i].key) \in S
    BY DEF S, KeysOf
  <2>2. PICK g \in 1 .. n : groups[g] = GroupOf(rows, rows[i].key)
    BY <1>7, <2>1
  <2>3. i \in groups[g].findings /\ groups[g].key = rows[i].key
    BY <2>2 DEF GroupOf, Mine
  <2>4. ASSUME NEW h \in 1 .. n, h # g
        PROVE  i \notin groups[h].findings
    <3>1. groups[h].findings = Mine(rows, groups[h].key) /\ groups[h].key # rows[i].key
      BY <1>3, <1>8, <1>10, <2>3, <2>4
    <3> QED BY <3>1 DEF Mine
  <2> QED BY <1>8, <2>3, <2>4
<1>12. ASSUME NEW g \in DOMAIN groups
       PROVE  /\ groups[g].key \in KeysOf(rows)
              /\ \A i \in groups[g].findings :
                   rows[i].key = groups[g].key /\ RankOf(rows[i].tier) <= RankOf(groups[g].tier)
              /\ g > 1 => RankOf(groups[g].tier) <= RankOf(groups[g - 1].tier)
  <2>1. groups[g] \in S
    BY <1>8
  <2>2. \A i \in groups[g].findings : rows[i].key = groups[g].key
    BY <1>3, <2>1 DEF Mine
  <2>3. g > 1 => RankOf(groups[g].tier) <= RankOf(groups[g - 1].tier)
    <3> SUFFICES ASSUME g > 1 PROVE RankOf(groups[g].tier) <= RankOf(groups[g - 1].tier)
      OBVIOUS
    <3>1. g \in 1 .. n /\ g - 1 \in 1 .. n /\ g - 1 < g
      BY <1>2, <1>8
    <3>2. Before(groups[g - 1], groups[g]) /\ groups[g - 1] \in S
      BY <1>8, <1>9, <3>1
    <3>3. RankOf(groups[g].tier) \in Nat /\ RankOf(groups[g - 1].tier) \in Nat
      BY RanksAreNumbers
    <3> QED BY <3>2, <3>3 DEF Before
  <2> QED BY <1>3, <2>1, <2>2, <2>3
<1>13. \E k \in Nat : DOMAIN groups = 1 .. k
  BY <1>2, <1>8
<1> HIDE DEF rows
<1>14. Grouped(rows, groups)
  BY <1>11, <1>12, <1>13 DEF Grouped
<1> QED BY <1>14 DEF rows, groups

LEMMA DecisionsHold ==
  ASSUME TriageTypeOK, NEW key
  PROVE  DecisionsFor(key) \in Seq(Nat) /\ Told(decisions, DecisionsFor(key), key, Len(decisions))
<1> DEFINE S == {i \in DOMAIN decisions : decisions[i].key = key}
           R == {ij \in S \X S : Newer(ij[1], ij[2])}
           n == Cardinality(S)
           prior == DecisionsFor(key)
<1>1. Len(decisions) \in Nat /\ DOMAIN decisions = 1 .. Len(decisions) /\ \A i \in DOMAIN decisions : decisions[i].at \in Nat
  <2>1. decisions \in Seq(Judgement)
    BY DEF TriageTypeOK
  <2>2. Len(decisions) \in Nat /\ DOMAIN decisions = 1 .. Len(decisions) /\ \A i \in DOMAIN decisions : decisions[i] \in Judgement
    BY <2>1
  <2> QED BY <2>2 DEF Judgement
<1>2. IsFiniteSet(S) /\ n \in Nat /\ S \in SUBSET Nat
  <2>1. IsFiniteSet(1 .. Len(decisions))
    <3>1. 1 \in Int /\ Len(decisions) \in Int
      BY <1>1
    <3> QED BY <3>1, FS_Interval
  <2>2. S \in SUBSET (1 .. Len(decisions)) /\ S \in SUBSET Nat
    BY <1>1
  <2>3. IsFiniteSet(S)
    <3> HIDE DEF S
    <3> QED BY <2>1, <2>2, FS_Subset
  <2> QED BY <2>2, <2>3, FS_CardinalityType
<1>3. \A i \in S : i \in DOMAIN decisions /\ decisions[i].key = key /\ decisions[i].at \in Nat
  BY <1>1
<1>4. \A i \in DOMAIN decisions : decisions[i].key = key => i \in S
  OBVIOUS
<1>5. prior = CountedOff(R, S)
  <2>1. prior = [i \in 1 .. n |-> CHOOSE x \in S : Cardinality({y \in S : Newer(y, x)}) = i - 1]
    BY DEF DecisionsFor, InOrderOf
  <2> HIDE DEF S
  <2>2. \A x \in S : {y \in S : Newer(y, x)} = {y \in S : <<y, x>> \in R}
    OBVIOUS
  <2>3. \A i \in 1 .. n : (CHOOSE x \in S : Cardinality({y \in S : Newer(y, x)}) = i - 1)
                            = CHOOSE x \in S : Cardinality({y \in S : <<y, x>> \in R}) = i - 1
    <3> HIDE DEF R
    <3> QED BY <2>2
  <2> QED BY <2>1, <2>3 DEF CountedOff
<1> HIDE DEF S
<1>6. Decides(R, S)
  <2>1. \A i \in S : <<i, i>> \notin R
    BY <1>2, <1>3 DEF Newer
  <2>2. ASSUME NEW i \in S, NEW j \in S, NEW k \in S, <<i, j>> \in R, <<j, k>> \in R
        PROVE  <<i, k>> \in R
    <3>1. Newer(i, j) /\ Newer(j, k)
      BY <2>2
    <3>2. Newer(i, k)
      <4>1. /\ i \in Nat /\ j \in Nat /\ k \in Nat
            /\ decisions[i].at \in Nat /\ decisions[j].at \in Nat /\ decisions[k].at \in Nat
        BY <1>2, <1>3
      <4> QED BY <3>1, <4>1 DEF Newer
    <3> QED BY <3>2
  <2>3. ASSUME NEW i \in S, NEW j \in S
        PROVE  i = j \/ <<i, j>> \in R \/ <<j, i>> \in R
    <3>1. i = j \/ Newer(i, j) \/ Newer(j, i)
      <4>1. i \in Nat /\ j \in Nat /\ decisions[i].at \in Nat /\ decisions[j].at \in Nat
        BY <1>2, <1>3
      <4> QED BY <4>1 DEF Newer
    <3> QED BY <3>1
  <2> QED BY <2>1, <2>2, <2>3 DEF Decides
<1>7. /\ prior \in [1 .. n -> S]
      /\ \A x \in S : \E i \in 1 .. n : prior[i] = x
      /\ \A i, j \in 1 .. n : i < j => <<prior[i], prior[j]>> \in R
  <2> HIDE DEF R, prior
  <2>1. IsFiniteSet(S)
    BY <1>2
  <2> QED BY <1>5, <1>6, <2>1, Ranked DEF n
<1>8. \A i, j \in 1 .. n : i < j => Newer(prior[i], prior[j])
  BY <1>7
<1> HIDE DEF R, prior, n
<1>9. prior \in Seq(Nat)
  <2>1. prior \in [1 .. n -> Nat]
    BY <1>2, <1>7
  <2> QED BY <1>2, <2>1, SeqDef
<1>10. DOMAIN prior = 1 .. n /\ \A k \in 1 .. n : prior[k] \in S
  BY <1>7
<1>11. \A k \in DOMAIN prior : prior[k] \in DOMAIN decisions /\ decisions[prior[k]].key = key
  BY <1>3, <1>10
<1>12. \A i \in 1 .. Len(decisions) : decisions[i].key = key => \E k \in DOMAIN prior : prior[k] = i
  BY <1>1, <1>4, <1>7, <1>10
<1>13. \A k, l \in DOMAIN prior : k < l => decisions[prior[k]].at >= decisions[prior[l]].at
  <2> TAKE k, l \in DOMAIN prior
  <2>1. decisions[prior[k]].at \in Nat /\ decisions[prior[l]].at \in Nat
    BY <1>3, <1>10
  <2>2. k < l => Newer(prior[k], prior[l])
    BY <1>8, <1>10
  <2> QED BY <2>1, <2>2 DEF Newer
<1> QED BY <1>9, <1>11, <1>12, <1>13 DEF Told, prior

LEMMA TriageBegins == TriageInit => TriageInv
<1> SUFFICES ASSUME TriageInit PROVE TriageInv
  OBVIOUS
<1>1. \A a \in Analysts : page[a] = Blank
  BY DEF TriageInit
<1>2. <<>> \in Seq(Judgement) /\ <<>> \in Seq(Seq(Nat)) /\ <<>> \in GroupsOf
  BY DEF GroupsOf
<1>3. Blank \in Page
  BY <1>2 DEF Blank, Page
<1>4. TriageTypeOK
  BY <1>2, <1>3 DEF TriageInit, TriageTypeOK
<1>5. \A a \in Analysts : page[a].at = "idle"
  BY <1>1 DEF Blank
<1> QED BY <1>4, <1>5 DEF TriageInv, PageAsked, Shown

\* What was shown stays so when a judgement is added.
LEMMA StaysTold ==
  ASSUME NEW table \in Seq(Judgement), NEW d \in Judgement,
         NEW prior, NEW key, NEW seen \in Nat, seen <= Len(table), Told(table, prior, key, seen)
  PROVE  Told(Append(table, d), prior, key, seen)
<1> DEFINE longer == Append(table, d)
<1>1. Len(table) \in Nat /\ DOMAIN table = 1 .. Len(table)
  OBVIOUS
<1>2. DOMAIN longer = 1 .. Len(table) + 1 /\ \A i \in DOMAIN table : longer[i] = table[i]
  OBVIOUS
<1> HIDE DEF longer
<1>3. 1 .. seen \in SUBSET DOMAIN table /\ DOMAIN table \in SUBSET DOMAIN longer
  BY <1>1, <1>2
<1>4. \A k \in DOMAIN prior : prior[k] \in DOMAIN table /\ longer[prior[k]] = table[prior[k]]
  BY <1>2 DEF Told
<1>5. \A k \in DOMAIN prior : prior[k] \in DOMAIN longer /\ longer[prior[k]].key = key
  BY <1>3, <1>4 DEF Told
<1>6. \A i \in 1 .. seen : longer[i].key = key => \E k \in DOMAIN prior : prior[k] = i
  BY <1>2, <1>3 DEF Told
<1>7. \A k, l \in DOMAIN prior : k < l => longer[prior[k]].at >= longer[prior[l]].at
  BY <1>4 DEF Told
<1> QED BY <1>5, <1>6, <1>7 DEF Told, longer

LEMMA OpenKeeps ==
  ASSUME TriageInv, NEW a \in Analysts, NEW scan \in DOMAIN ScanFindings, Open(a, scan)
  PROVE  TriageInv'
<1> DEFINE opened == [at |-> "grouped", scan |-> scan, groups |-> Groups(ScanFindings[scan]),
                      priors |-> <<>>, seen |-> Len(decisions)]
<1>1. page' = [page EXCEPT ![a] = opened] /\ decisions' = decisions /\ clock' = clock
  BY DEF Open
<1>2. page'[a] = opened /\ \A b \in Analysts : b # a => page'[b] = page[b]
  BY <1>1 DEF TriageInv, TriageTypeOK
<1>3. Len(decisions) \in Nat
  BY DEF TriageInv, TriageTypeOK
<1>4. opened \in Page
  <2>1. <<>> \in Seq(Seq(Nat)) /\ Groups(ScanFindings[scan]) \in GroupsOf
    BY DEF GroupsOf
  <2> QED BY <1>3, <2>1 DEF Page
<1>5. TriageTypeOK'
  BY <1>1, <1>4 DEF TriageInv, TriageTypeOK
<1>6. \A b \in Analysts : PageAsked(b)'
  BY <1>1, <1>2, <1>3 DEF TriageInv, PageAsked
<1>7. \A b \in Analysts : Shown(b)'
  <2> TAKE b \in Analysts
  <2>1. CASE b = a
    BY <1>2, <2>1 DEF Shown
  <2>2. CASE b # a
    <3>1. Shown(b) /\ page'[b] = page[b] /\ decisions' = decisions
      BY <1>1, <1>2, <2>2 DEF TriageInv
    <3> QED BY <3>1 DEF Shown
  <2> QED BY <2>1, <2>2
<1> QED BY <1>5, <1>6, <1>7 DEF TriageInv

LEMMA ShowKeeps ==
  ASSUME TriageInv, NEW a \in Analysts, Show(a)
  PROVE  TriageInv'
<1> DEFINE groups == page[a].groups
           priors == [g \in DOMAIN groups |-> DecisionsFor(groups[g].key)]
<1>1. page' = [page EXCEPT ![a].at = "shown", ![a].priors = priors] /\ decisions' = decisions /\ clock' = clock
  BY DEF Show
<1>2. page[a] \in Page /\ page[a].at = "grouped"
  BY DEF TriageInv, TriageTypeOK, Show
<1>3. /\ page'[a].at = "shown" /\ page'[a].priors = priors /\ page'[a].groups = groups
      /\ page'[a].scan = page[a].scan /\ page'[a].seen = page[a].seen
  BY <1>1, <1>2 DEF TriageInv, TriageTypeOK, Page
<1>4. \A b \in Analysts : b # a => page'[b] = page[b]
  BY <1>1 DEF TriageInv, TriageTypeOK
<1>5. page[a].scan \in DOMAIN ScanFindings /\ groups = Groups(ScanFindings[page[a].scan]) /\ page[a].seen <= Len(decisions)
  BY <1>2 DEF TriageInv, PageAsked
<1>6. TriageTypeOK
  BY DEF TriageInv
<1>7. priors \in Seq(Seq(Nat))
  <2>1. PICK n \in Nat : DOMAIN groups = 1 .. n
    BY <1>5, GroupsHold DEF Grouped
  <2>2. priors \in [1 .. n -> Seq(Nat)]
    BY <1>6, <2>1, DecisionsHold
  <2> HIDE DEF priors
  <2> QED BY <2>2, SeqDef
<1>8. TriageTypeOK'
  BY <1>1, <1>2, <1>7 DEF TriageInv, TriageTypeOK, Page
<1>9. \A b \in Analysts : PageAsked(b)'
  BY <1>1, <1>3, <1>4, <1>5 DEF TriageInv, PageAsked
<1>10. \A g \in DOMAIN groups : Told(decisions, priors[g], groups[g].key, page[a].seen)
  <2> TAKE g \in DOMAIN groups
  <2>1. Told(decisions, priors[g], groups[g].key, Len(decisions))
    BY <1>6, DecisionsHold
  <2>2. 1 .. page[a].seen \in SUBSET (1 .. Len(decisions))
    BY <1>2, <1>5, <1>6 DEF TriageTypeOK, Page
  <2> QED BY <2>1, <2>2 DEF Told
<1> HIDE DEF priors, groups
<1>11. Shown(a)'
  <2>1. DOMAIN priors = DOMAIN groups
    BY DEF priors
  <2>2. \A g \in DOMAIN groups : Told(decisions', priors[g], groups[g].key, page[a].seen)
    BY <1>1, <1>3, <1>10 DEF Told
  <2> QED BY <1>3, <2>1, <2>2 DEF Shown
<1>12. \A b \in Analysts : b # a => Shown(b)'
  <2> TAKE b \in Analysts
  <2> SUFFICES ASSUME b # a PROVE Shown(b)'
    OBVIOUS
  <2>1. Shown(b) /\ page'[b] = page[b] /\ decisions' = decisions
    BY <1>1, <1>4 DEF TriageInv
  <2> QED BY <2>1 DEF Shown
<1> QED BY <1>8, <1>9, <1>11, <1>12 DEF TriageInv

LEMMA RecordDecisionKeeps ==
  ASSUME TriageInv, NEW a \in Analysts, NEW verdict \in Verdicts, RecordDecision(a, verdict)
  PROVE  TriageInv'
<1>1. TriageTypeOK /\ page[a].at = "shown"
  BY DEF TriageInv, RecordDecision
<1>2. PICK g \in DOMAIN page[a].groups :
        decisions' = Append(decisions, [key |-> page[a].groups[g].key, verdict |-> verdict,
                                        case |-> CaseOf[page[a].scan], at |-> clock])
  BY DEF RecordDecision
<1> DEFINE d == [key |-> page[a].groups[g].key, verdict |-> verdict, case |-> CaseOf[page[a].scan], at |-> clock]
<1>3. page' = [page EXCEPT ![a] = Blank] /\ clock' = clock
  BY DEF RecordDecision
<1>4. d \in Judgement
  <2>1. page[a].scan \in DOMAIN ScanFindings /\ page[a].groups = Groups(ScanFindings[page[a].scan])
    BY <1>1 DEF TriageInv, PageAsked
  <2>2. page[a].groups[g].key \in ContentKeys
    BY <1>2, <2>1, GroupsHold DEF Grouped, ContentKeys
  <2>3. verdict \in ValidVerdicts /\ clock \in Nat
    BY <1>1 DEF RecordDecision, TriageTypeOK
  <2> QED BY <2>1, <2>2, <2>3 DEF Judgement
<1>5. page'[a] = Blank /\ \A b \in Analysts : b # a => page'[b] = page[b]
  BY <1>1, <1>3 DEF TriageTypeOK
<1> HIDE DEF d
<1>6. decisions' = Append(decisions, d)
  BY <1>2 DEF d
<1>7. TriageTypeOK'
  <2>1. Blank \in Page
    <3>1. <<>> \in Seq(Seq(Nat)) /\ <<>> \in GroupsOf
      BY DEF GroupsOf
    <3> QED BY <3>1 DEF Blank, Page
  <2>2. decisions' \in Seq(Judgement)
    BY <1>1, <1>4, <1>6 DEF TriageTypeOK
  <2> QED BY <1>1, <1>3, <2>1, <2>2 DEF TriageTypeOK
<1>8. Len(decisions') = Len(decisions) + 1 /\ Len(decisions) \in Nat
  BY <1>1, <1>6 DEF TriageTypeOK
<1>9. PageAsked(a)' /\ Shown(a)'
  BY <1>5 DEF PageAsked, Shown, Blank
<1>10. ASSUME NEW b \in Analysts, b # a
       PROVE  PageAsked(b)' /\ Shown(b)'
  <2>1. page'[b] = page[b] /\ PageAsked(b) /\ Shown(b) /\ page[b].seen \in Nat
    BY <1>1, <1>5, <1>10 DEF TriageInv, TriageTypeOK, Page
  <2>2. PageAsked(b)'
    BY <1>8, <2>1 DEF PageAsked
  <2>3. Shown(b)'
    <3> SUFFICES ASSUME page[b].at = "shown"
                 PROVE  /\ DOMAIN page[b].priors = DOMAIN page[b].groups
                        /\ \A h \in DOMAIN page[b].groups :
                             Told(decisions', page[b].priors[h], page[b].groups[h].key, page[b].seen)
      BY <2>1 DEF Shown
    <3>1. page[b].seen <= Len(decisions) /\ decisions \in Seq(Judgement)
      BY <1>1, <2>1 DEF PageAsked, TriageTypeOK
    <3>2. ASSUME NEW h \in DOMAIN page[b].groups
          PROVE  Told(decisions', page[b].priors[h], page[b].groups[h].key, page[b].seen)
      <4>1. Told(decisions, page[b].priors[h], page[b].groups[h].key, page[b].seen)
        BY <2>1 DEF Shown
      <4> QED BY <1>4, <1>6, <2>1, <3>1, <4>1, StaysTold
    <3> QED BY <2>1, <3>2 DEF Shown
  <2> QED BY <2>2, <2>3
<1> QED BY <1>7, <1>9, <1>10 DEF TriageInv

LEMMA TriageAdvances == TriageInv /\ [TriageNext]_triageVars => TriageInv'
<1> SUFFICES ASSUME TriageInv, [TriageNext]_triageVars PROVE TriageInv'
  OBVIOUS
<1>1. ASSUME NEW a \in Analysts, NEW scan \in DOMAIN ScanFindings, Open(a, scan) PROVE TriageInv'
  BY <1>1, OpenKeeps
<1>2. ASSUME NEW a \in Analysts, Show(a) PROVE TriageInv'
  BY <1>2, ShowKeeps
<1>3. ASSUME NEW a \in Analysts, NEW verdict \in Verdicts, RecordDecision(a, verdict) PROVE TriageInv'
  BY <1>3, RecordDecisionKeeps
<1>4. CASE Tick
  <2>1. clock' = clock + 1 /\ decisions' = decisions /\ page' = page
    BY <1>4 DEF Tick
  <2> QED BY <2>1 DEF TriageInv, TriageTypeOK, PageAsked, Shown, Told
<1>5. CASE UNCHANGED triageVars
  BY <1>5 DEF triageVars, TriageInv, TriageTypeOK, PageAsked, Shown, Told
<1> QED BY <1>1, <1>2, <1>3, <1>4, <1>5 DEF TriageNext

\* When pages are asked for, shown and judged in any order, by any number of analysts,
\* each page keeps what it was asked for.
THEOREM TriageKeepsAccount == TriageSpec => []TriageInv
BY TriageBegins, TriageAdvances, PTL DEF TriageSpec

LEMMA WholePages == TriageInv => PageIsWhole
<1> SUFFICES ASSUME TriageInv, NEW a \in Analysts, page[a].at = "shown"
             PROVE  LET rows == ScanFindings[page[a].scan]
                        groups == page[a].groups
                        priors == page[a].priors
                    IN  /\ \A i \in DOMAIN rows : \E g \in DOMAIN groups :
                             i \in groups[g].findings /\ \A h \in DOMAIN groups \ {g} : i \notin groups[h].findings
                        /\ \A g \in DOMAIN groups :
                             /\ \A i \in groups[g].findings : /\ rows[i].key = groups[g].key
                                                              /\ RankOf(rows[i].tier) <= RankOf(groups[g].tier)
                             /\ g > 1 => RankOf(groups[g].tier) <= RankOf(groups[g - 1].tier)
                             /\ \A i \in 1 .. page[a].seen :
                                  decisions[i].key = groups[g].key => \E k \in DOMAIN priors[g] : priors[g][k] = i
                             /\ \A k \in DOMAIN priors[g] : decisions[priors[g][k]].key = groups[g].key
                             /\ \A k, l \in DOMAIN priors[g] : k < l => decisions[priors[g][k]].at >= decisions[priors[g][l]].at
  BY DEF PageIsWhole
<1>1. Grouped(ScanFindings[page[a].scan], page[a].groups)
  BY GroupsHold DEF TriageInv, PageAsked
<1>2. \A g \in DOMAIN page[a].groups : Told(decisions, page[a].priors[g], page[a].groups[g].key, page[a].seen)
  BY DEF TriageInv, Shown
<1> QED BY <1>1, <1>2 DEF Grouped, Told

\* DecisionsFor: an analyst who judges a finding is shown every judgement of its content
\* that there was, the latest first, under the one group that the finding is in.
THEOREM PagesAreWhole == TriageSpec => []PageIsWhole
BY TriageKeepsAccount, WholePages, PTL
=============================================================================
