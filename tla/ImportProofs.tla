---------------------------- MODULE ImportProofs ----------------------------
(***************************************************************************)
(* Imports keep the archive's promise, answer for every folder, and tell    *)
(* the truth about a report's integrity, for any number of scans, hosts and *)
(* importers, whichever of them die and at whatever moment.                 *)
(***************************************************************************)
EXTENDS Import, TLAPS

Answers == {"nothing", "imported", "already", "failed"}
Manifest == [state : {"none", "torn", "whole"}, names : Contents]
Reading == [content : Contents, integrity : Integrities \cup {"none"}]
Readable == Contents \ {"none", "torn"}

FolderTypeOK ==
  /\ stage \in [Scans -> Stages]
  /\ hashed \in [Scans -> Contents]
  /\ report \in [Folders -> Contents]
  /\ manifest \in [Folders -> Manifest]

ImportTypeOK ==
  /\ at \in [Importers -> Places]
  /\ listed \in [Importers -> SUBSET Folders]
  /\ dir \in [Importers -> Folders \cup {NoFolder}]
  /\ read \in [Importers -> Reading]
  /\ tx \in [Importers -> SUBSET Rows]
  /\ store \in [Runs -> [folder : Folders \cup {NoFolder}, content : Contents,
                        integrity : Integrities \cup {"none"}, rows : SUBSET Rows]]
  /\ told \in [Importers -> [Folders -> Answers]]

-----------------------------------------------------------------------------
(* The inductive invariant.                                                 *)

\* A folder that one scan has to itself holds what that scan has written so far, and
\* a manifest that is whole names the scan's own report.
Written(s) ==
  LET d == FolderOf(s)
  IN  /\ report[d] \in {"none", "torn", s, "edited"}
      /\ stage[s] = "fillReport" => report[d] = "torn"
      /\ stage[s] = "hash" => report[d] = s
      /\ stage[s] \in {"cutManifest", "fillManifest"} => hashed[s] = s
      /\ manifest[d].state = "whole" => manifest[d].names = s

FoldersAreTheirScans == FolderTypeOK /\ \A s \in Scans : Alone(s) => Written(s)

\* What may be said of the report that was read from folder d.
IsTrueOf(d, content, integrity) ==
  \A s \in Scans : FolderOf(s) = d /\ Alone(s) =>
    /\ content \in {s, "edited"}
    /\ integrity = "altered" => content = "edited"
    /\ integrity = "verified" => content = s

InHand == {"read", "manifest", "lookUp", "insert", "rows", "commit", "lookAgain"}

\* What an importer knows of the folder in hand is still true, and a claim it has
\* made on a run is of one that is not stored.
HandIsSound(i) ==
  /\ at[i] \in InHand => dir[i] \in Folders /\ told[i][dir[i]] = "nothing" /\ report[dir[i]] # "none"
  /\ at[i] \in InHand \ {"read"} =>
       read[i].content \in Readable /\ IsTrueOf(dir[i], read[i].content, read[i].integrity)
  /\ at[i] \in InHand \ {"read", "manifest"} => read[i].integrity \in Integrities
  /\ at[i] \in {"case", "createCase", "list", "next", "read", "manifest"} => read[i].integrity = "none"
  /\ tx[i] = CASE at[i] = "rows" -> {"scan"} [] at[i] = "commit" -> Rows [] OTHER -> {}
  /\ tx[i] # {} => ~Stored(Run(i))
  /\ \A d \in listed[i] : report[d] # "none"
  /\ at[i] = "done" => \A d \in listed[i] : told[i][d] # "nothing"

ClaimsAreExclusive == \A i, j \in Importers : i # j /\ tx[i] # {} /\ tx[j] # {} => Run(i) # Run(j)

\* What is stored is whole and true.
StoreIsSound ==
  \A r \in Runs : Stored(r) =>
    /\ store[r].rows = Rows /\ store[r].folder \in Folders
    /\ store[r].content \in Readable /\ store[r].integrity \in Integrities
    /\ IsTrueOf(store[r].folder, store[r].content, store[r].integrity)

ImportInv == /\ FoldersAreTheirScans /\ ImportTypeOK
             /\ \A i \in Importers : HandIsSound(i)
             /\ ClaimsAreExclusive /\ StoreIsSound

-----------------------------------------------------------------------------
(* The folders.                                                             *)

LEMMA FoldersStart == FolderInit => FoldersAreTheirScans
<1> SUFFICES ASSUME FolderInit PROVE FoldersAreTheirScans
  OBVIOUS
<1>1. \A d \in Folders : WrittenIn(d) \in Contents
  BY ScansAssumption DEF WrittenIn, EarlierIn, Contents
<1>2. FolderTypeOK
  <2>1. hashed \in [Scans -> Contents] /\ stage \in [Scans -> Stages]
    BY DEF FolderInit, Contents, Stages
  <2>2. report \in [Folders -> Contents] /\ manifest \in [Folders -> Manifest]
    BY <1>1 DEF FolderInit, Manifest
  <2> QED BY <2>1, <2>2 DEF FolderTypeOK
<1>3. ASSUME NEW s \in Scans, Alone(s) PROVE Written(s)
  <2>1. PICK d \in Folders : d = FolderOf(s)
    BY DEF Folders
  <2>2. CASE s \in Earlier
    <3>1. WrittenIn(d) = s
      <4>1. EarlierIn(d) = {s}
        BY <2>1, <2>2, ScansAssumption DEF EarlierIn
      <4> QED BY <4>1 DEF WrittenIn
    <3>2. /\ stage[s] = "done" /\ hashed[s] = s /\ report[d] = s
          /\ manifest[d].names = s
      BY <2>2, <3>1 DEF FolderInit
    <3> QED BY <2>1, <3>2 DEF Written
  <2>3. CASE s \notin Earlier
    <3>1. EarlierIn(d) = {}
      BY <1>3, <2>1, <2>3, ScansAssumption DEF EarlierIn, Alone
    <3>2. stage[s] = "idle" /\ report[d] = "none" /\ manifest[d].state = "none"
      BY <2>3, <3>1 DEF FolderInit, WrittenIn
    <3> QED BY <2>1, <3>2 DEF Written
  <2> QED BY <2>2, <2>3
<1> QED BY <1>2, <1>3 DEF FoldersAreTheirScans

\* What another folder's scan does leaves this one alone.
LEMMA WrittenStays ==
  ASSUME NEW s \in Scans, Written(s), stage'[s] = stage[s], hashed'[s] = hashed[s],
         report'[FolderOf(s)] = report[FolderOf(s)], manifest'[FolderOf(s)] = manifest[FolderOf(s)]
  PROVE  Written(s)'
BY DEF Written, FolderOf

\* output.Write, of a scan that may die between any two of its steps.
LEMMA FoldersStep ==
  ASSUME FoldersAreTheirScans, FolderNext
  PROVE  FoldersAreTheirScans' /\ \A d \in Folders : report[d] # "none" => report'[d] # "none"
<1> USE DEF FoldersAreTheirScans
<1> DEFINE Kept == \A d \in Folders : report[d] # "none" => report'[d] # "none"
<1>1. \A s \in Scans : FolderOf(s) \in Folders
  BY DEF Folders
<1>2. ASSUME NEW s \in Scans, Alone(s), NEW t \in Scans, t # s PROVE FolderOf(t) # FolderOf(s)
  BY <1>2 DEF Alone
\* A step of scan s, of its own state and its own folder.
<1>3. ASSUME NEW s \in Scans, FolderTypeOK', Alone(s) => Written(s)',
             \A t \in Scans \ {s} : stage'[t] = stage[t] /\ hashed'[t] = hashed[t],
             \A d \in Folders \ {FolderOf(s)} : report'[d] = report[d] /\ manifest'[d] = manifest[d],
             report[FolderOf(s)] # "none" => report'[FolderOf(s)] # "none"
      PROVE  FoldersAreTheirScans' /\ Kept
  <2>1. \A t \in Scans \ {s} : Alone(t) => Written(t)'
    BY <1>1, <1>2, <1>3, WrittenStays DEF Alone
  <2> QED BY <1>3, <2>1 DEF Alone, FolderOf
<1>4. ASSUME NEW s \in Scans, ScanStep(s) \/ Die(s) PROVE FoldersAreTheirScans' /\ Kept
  <2>1. PICK d \in Folders : d = FolderOf(s)
    BY <1>1
  <2>2. s \in Contents /\ s \notin {"none", "torn", "edited"}
    BY ScansAssumption DEF Contents
  <2>3. CASE PrepareRunDir(s) \/ CleanupScratch(s)
    <3>1. FolderTypeOK' /\ stage'[s] \in {"probe", "cutReport"}
      BY <2>3 DEF PrepareRunDir, CleanupScratch, Step, FolderTypeOK, Stages
    <3>2. Written(s) => Written(s)'
      BY <2>3, <3>1 DEF PrepareRunDir, CleanupScratch, Step, Written, FolderOf
    <3> QED BY <1>3, <2>3, <3>1, <3>2 DEF PrepareRunDir, CleanupScratch, Step, FolderTypeOK
  <2>4. CASE CutReport(s)
    <3>1. report' = [report EXCEPT ![d] = "torn"] /\ stage' = [stage EXCEPT ![s] = "fillReport"]
      BY <2>1, <2>4 DEF CutReport, Step
    <3>2. FolderTypeOK'
      BY <2>4, <3>1 DEF CutReport, FolderTypeOK, Contents, Stages
    <3>3. Alone(s) => Written(s)'
      BY <2>1, <2>4, <3>1 DEF CutReport, FolderTypeOK, Written, FolderOf
    <3> QED BY <1>3, <2>1, <2>4, <3>1, <3>2, <3>3 DEF CutReport, FolderTypeOK
  <2>5. CASE FillReport(s)
    <3>1. PICK c \in {s, "torn"} :
            /\ report[d] = "torn" => c = s
            /\ report' = [report EXCEPT ![d] = c] /\ stage' = [stage EXCEPT ![s] = "hash"]
      BY <2>1, <2>5 DEF FillReport, Step
    <3>2. FolderTypeOK'
      BY <2>2, <2>5, <3>1 DEF FillReport, FolderTypeOK, Contents, Stages
    <3>3. Alone(s) => Written(s)'
      <4>1. Alone(s) => report[d] = "torn"
        BY <2>1, <2>5 DEF FillReport, Step, Written
      <4> QED BY <2>1, <2>5, <3>1, <4>1 DEF FillReport, FolderTypeOK, Written, FolderOf
    <3> QED BY <1>3, <2>1, <2>2, <2>5, <3>1, <3>2, <3>3 DEF FillReport, FolderTypeOK
  <2>6. CASE HashReport(s)
    <3>1. hashed' = [hashed EXCEPT ![s] = report[d]] /\ stage' = [stage EXCEPT ![s] = "cutManifest"]
      BY <2>1, <2>6 DEF HashReport, Step
    <3>2. FolderTypeOK'
      BY <2>1, <2>6, <3>1 DEF HashReport, FolderTypeOK, Stages
    <3>3. Alone(s) => Written(s)'
      <4>1. Alone(s) => report[d] = s
        BY <2>1, <2>6 DEF HashReport, Step, Written
      <4> QED BY <2>1, <2>6, <3>1, <4>1 DEF HashReport, FolderTypeOK, Written, FolderOf
    <3> QED BY <1>3, <2>1, <2>6, <3>1, <3>2, <3>3 DEF HashReport, FolderTypeOK
  <2>7. CASE CutManifest(s)
    <3>1. PICK m : m = [state |-> "torn", names |-> "none"] /\ m \in Manifest
      <4>1. \A state \in {"none", "torn", "whole"}, names \in Contents : [state |-> state, names |-> names] \in Manifest
        BY DEF Manifest
      <4>2. "none" \in Contents
        BY DEF Contents
      <4> QED BY <4>1, <4>2
    <3>2. manifest' = [manifest EXCEPT ![d] = m] /\ stage' = [stage EXCEPT ![s] = "fillManifest"]
      BY <2>1, <2>7, <3>1 DEF CutManifest, Step
    <3>3. FolderTypeOK'
      BY <2>7, <3>1, <3>2 DEF CutManifest, FolderTypeOK, Stages
    <3>4. Alone(s) => Written(s)'
      <4>1. Alone(s) => hashed[s] = s
        BY <2>7 DEF CutManifest, Step, Written
      <4> QED BY <2>1, <2>7, <3>1, <3>2, <4>1 DEF CutManifest, FolderTypeOK, Written, FolderOf
    <3> QED BY <1>3, <2>1, <2>7, <3>2, <3>3, <3>4 DEF CutManifest, FolderTypeOK
  <2>8. CASE FillManifest(s)
    <3>1. PICK m : m = [state |-> "whole", names |-> hashed[s]] /\ m \in Manifest
      <4>1. \A state \in {"none", "torn", "whole"}, names \in Contents : [state |-> state, names |-> names] \in Manifest
        BY DEF Manifest
      <4>2. hashed[s] \in Contents
        BY DEF FolderTypeOK
      <4> QED BY <4>1, <4>2
    <3>2. manifest' = [manifest EXCEPT ![d] = m] /\ stage' = [stage EXCEPT ![s] = "done"]
      BY <2>1, <2>8, <3>1 DEF FillManifest, Step
    <3>3. FolderTypeOK'
      BY <2>8, <3>1, <3>2 DEF FillManifest, FolderTypeOK, Stages
    <3>4. Alone(s) => Written(s)'
      <4>1. Alone(s) => hashed[s] = s
        BY <2>8 DEF FillManifest, Step, Written
      <4> QED BY <2>1, <2>8, <3>1, <3>2, <4>1 DEF FillManifest, FolderTypeOK, Written, FolderOf
    <3> QED BY <1>3, <2>1, <2>8, <3>2, <3>3, <3>4 DEF FillManifest, FolderTypeOK
  <2>9. CASE Die(s)
    <3>1. FolderTypeOK' /\ stage'[s] = "dead"
      BY <2>9 DEF Die, FolderTypeOK, Stages
    <3>2. Written(s) => Written(s)'
      BY <2>9, <3>1 DEF Die, Written, FolderOf
    <3> QED BY <1>3, <2>9, <3>1, <3>2 DEF Die, FolderTypeOK
  <2> QED BY <1>4, <2>3, <2>4, <2>5, <2>6, <2>7, <2>8, <2>9 DEF ScanStep
<1>5. ASSUME NEW d \in Folders, Edit(d) PROVE FoldersAreTheirScans' /\ Kept
  <2>1. report' = [report EXCEPT ![d] = "edited"] /\ UNCHANGED <<stage, hashed, manifest>>
    BY <1>5 DEF Edit
  <2>2. FolderTypeOK'
    BY <2>1 DEF FolderTypeOK, Contents
  <2>3. ASSUME NEW s \in Scans, Alone(s) PROVE Written(s)'
    <3>1. CASE FolderOf(s) = d
      <4>1. report'[d] = "edited" /\ stage[s] \in {"done", "dead"}
        BY <1>5, <2>1, <3>1 DEF Edit, FolderTypeOK
      <4> QED BY <2>1, <2>3, <3>1, <4>1 DEF Written, FolderOf
    <3>2. CASE FolderOf(s) # d
      BY <1>1, <2>1, <2>3, <3>2, WrittenStays DEF FolderTypeOK
    <3> QED BY <3>1, <3>2
  <2>4. Kept
    BY <2>1 DEF FolderTypeOK
  <2> QED BY <2>2, <2>3, <2>4 DEF Alone, FolderOf
<1> QED BY <1>4, <1>5 DEF FolderNext

-----------------------------------------------------------------------------
(* The importers.                                                           *)

Untouched(j) == /\ at'[j] = at[j] /\ listed'[j] = listed[j] /\ dir'[j] = dir[j]
                /\ read'[j] = read[j] /\ tx'[j] = tx[j] /\ told'[j] = told[j]

\* The types of what belongs to the importers.
HandsTypeOK ==
  /\ at \in [Importers -> Places]
  /\ listed \in [Importers -> SUBSET Folders]
  /\ dir \in [Importers -> Folders \cup {NoFolder}]
  /\ read \in [Importers -> Reading]
  /\ tx \in [Importers -> SUBSET Rows]
  /\ told \in [Importers -> [Folders -> Answers]]

LEMMA HandStays ==
  ASSUME NEW j \in Importers, HandIsSound(j), Untouched(j), listed \in [Importers -> SUBSET Folders],
         \A d \in Folders : report[d] # "none" => report'[d] # "none",
         tx[j] # {} => store'[Run(j)] = store[Run(j)]
  PROVE  HandIsSound(j)'
<1>1. at[j] \in InHand => report'[dir[j]] # "none"
  BY DEF HandIsSound
<1>2. \A d \in listed[j] : report'[d] # "none"
  BY DEF HandIsSound
<1>3. tx[j] # {} => ~Stored(Run(j))'
  BY DEF HandIsSound, Untouched, Run, Stored
<1> QED BY <1>1, <1>2, <1>3 DEF HandIsSound, Untouched, Run

\* A step of importer i that does not commit.
LEMMA OneMoves ==
  ASSUME ImportInv, NEW i \in Importers, HandsTypeOK', UNCHANGED <<folderVars, store>>,
         \A j \in Importers \ {i} : Untouched(j), HandIsSound(i)',
         tx'[i] # {} => dir'[i] = dir[i] /\ (tx[i] # {} \/ ~Claimed(Run(i)))
  PROVE  ImportInv'
<1>1. \A j \in Importers \ {i} : HandIsSound(j)'
  BY HandStays DEF ImportInv, ImportTypeOK, folderVars
<1>2. ClaimsAreExclusive'
  BY DEF ImportInv, ClaimsAreExclusive, Untouched, Run, Claimed
<1>3. StoreIsSound'
  BY DEF ImportInv, StoreIsSound, Stored, folderVars
<1>4. FoldersAreTheirScans'
  BY DEF ImportInv, FoldersAreTheirScans, FolderTypeOK, Written, FolderOf, folderVars, Alone
<1>5. ImportTypeOK'
  BY DEF ImportInv, ImportTypeOK, HandsTypeOK
<1> QED BY <1>1, <1>2, <1>3, <1>4, <1>5 DEF ImportInv

LEMMA AnswerIsSound ==
  ASSUME ImportInv, NEW i \in Importers, at[i] \in InHand, NEW word \in Answers \ {"nothing"},
         Answer(i, word), UNCHANGED <<folderVars, listed>>
  PROVE  /\ HandsTypeOK' /\ \A j \in Importers \ {i} : Untouched(j)
         /\ HandIsSound(i)' /\ tx'[i] = {} /\ told' = [told EXCEPT ![i][dir[i]] = word]
<1>1. /\ at' = [at EXCEPT ![i] = "next"] /\ dir' = [dir EXCEPT ![i] = NoFolder]
      /\ read' = [read EXCEPT ![i] = Unread] /\ tx' = [tx EXCEPT ![i] = {}]
      /\ told' = [told EXCEPT ![i][dir[i]] = word] /\ listed' = listed
  BY DEF Answer, LetGo, Go
<1>2. dir[i] \in Folders
  BY DEF ImportInv, HandIsSound
<1>3. Unread \in Reading
  <2>1. "none" \in Contents
    BY DEF Contents
  <2> QED BY <2>1 DEF Unread, Reading
<1>4. told' = [told EXCEPT ![i] = [told[i] EXCEPT ![dir[i]] = word]] /\ [told[i] EXCEPT ![dir[i]] = word] \in [Folders -> Answers]
  BY <1>1, <1>2 DEF ImportInv, ImportTypeOK
<1>5. HandsTypeOK'
  BY <1>1, <1>3, <1>4 DEF ImportInv, ImportTypeOK, HandsTypeOK, Places
<1>6. \A j \in Importers \ {i} : Untouched(j)
  BY <1>1, <1>4 DEF ImportInv, ImportTypeOK, Untouched
<1>7. at'[i] = "next" /\ tx'[i] = {} /\ read'[i].integrity = "none"
  BY <1>1 DEF ImportInv, ImportTypeOK, Unread
<1>8. HandIsSound(i)'
  BY <1>7 DEF ImportInv, HandIsSound, InHand, folderVars
<1> QED BY <1>1, <1>5, <1>6, <1>7, <1>8

LEMMA StopIsSound ==
  ASSUME ImportInv, NEW i \in Importers, Stop(i), UNCHANGED <<folderVars, listed>>
  PROVE  /\ HandsTypeOK' /\ \A j \in Importers \ {i} : Untouched(j)
         /\ HandIsSound(i)' /\ tx'[i] = {} /\ told' = told
<1>1. /\ at' = [at EXCEPT ![i] = "dead"] /\ dir' = [dir EXCEPT ![i] = NoFolder]
      /\ read' = [read EXCEPT ![i] = Unread] /\ tx' = [tx EXCEPT ![i] = {}]
      /\ told' = told /\ listed' = listed
  BY DEF Stop, LetGo, Go
<1>2. Unread \in Reading
  <2>1. "none" \in Contents
    BY DEF Contents
  <2> QED BY <2>1 DEF Unread, Reading
<1>3. HandsTypeOK'
  BY <1>1, <1>2 DEF ImportInv, ImportTypeOK, HandsTypeOK, Places
<1>4. \A j \in Importers \ {i} : Untouched(j)
  BY <1>1 DEF ImportInv, ImportTypeOK, Untouched
<1>5. at'[i] = "dead" /\ tx'[i] = {}
  BY <1>1 DEF ImportInv, ImportTypeOK
<1>6. HandIsSound(i)'
  BY <1>5 DEF ImportInv, HandIsSound, InHand, folderVars
<1> QED BY <1>1, <1>3, <1>4, <1>5, <1>6

LEMMA Answered ==
  ASSUME ImportInv, NEW i \in Importers, at[i] \in InHand, NEW word \in Answers \ {"nothing"},
         Answer(i, word), UNCHANGED <<folderVars, listed, store>>
  PROVE  ImportInv'
BY AnswerIsSound, OneMoves

-----------------------------------------------------------------------------
(* One action after the other.                                              *)

\* Before a folder is in hand: findOrCreateCase, runFolders, the loop.
LEMMA BetweenFolders ==
  ASSUME ImportInv, NEW i \in Importers,
         FindCase(i) \/ CreateCase(i) \/ ListFolders(i) \/ NextFolder(i)
  PROVE  ImportInv'
<1> USE DEF ImportInv
<1>0. /\ tx[i] = {} /\ UNCHANGED <<folderVars, store, read, tx, told>>
      /\ read[i].integrity = "none" /\ \A d \in listed[i] : report[d] # "none"
  <2>1. at[i] \in {"case", "createCase", "list", "next"} /\ UNCHANGED <<folderVars, store, read, tx, told>>
    BY DEF FindCase, CreateCase, ListFolders, NextFolder
  <2> QED BY <2>1 DEF HandIsSound
<1>1. CASE FindCase(i) \/ CreateCase(i)
  <2>1. PICK place \in {"list", "createCase", "quit"} :
          at' = [at EXCEPT ![i] = place] /\ UNCHANGED <<listed, dir>>
    BY <1>1 DEF FindCase, CreateCase, Go
  <2>2. HandsTypeOK' /\ \A j \in Importers \ {i} : Untouched(j)
    BY <1>0, <2>1 DEF ImportTypeOK, HandsTypeOK, Places, Untouched
  <2>3. at'[i] = place /\ tx'[i] = {}
    BY <1>0, <2>1 DEF ImportTypeOK
  <2>4. HandIsSound(i)'
    BY <1>0, <2>1, <2>3 DEF HandIsSound, InHand, folderVars
  <2> QED BY <1>0, <2>2, <2>3, <2>4, OneMoves
<1>2. CASE ListFolders(i)
  <2>0. PICK found : found = {d \in Folders : report[d] # "none"}
    OBVIOUS
  <2>1. PICK place \in {"quit", "next"} :
          /\ \A d \in found : d \in Folders /\ report[d] # "none"
          /\ at' = [at EXCEPT ![i] = place] /\ listed' = [listed EXCEPT ![i] = found] /\ UNCHANGED dir
    BY <1>2, <2>0 DEF ListFolders, Go
  <2>2. HandsTypeOK' /\ \A j \in Importers \ {i} : Untouched(j)
    BY <1>0, <2>1 DEF ImportTypeOK, HandsTypeOK, Places, Untouched
  <2>3. at'[i] = place /\ tx'[i] = {} /\ listed'[i] = found
    BY <1>0, <2>1 DEF ImportTypeOK
  <2>4. HandIsSound(i)'
    BY <1>0, <2>1, <2>3 DEF HandIsSound, InHand, folderVars
  <2> QED BY <1>0, <2>2, <2>3, <2>4, OneMoves
<1>3. CASE NextFolder(i)
  <2>1. UNCHANGED listed
    BY <1>3 DEF NextFolder
  <2>2. ASSUME NEW d \in Unanswered(i), dir' = [dir EXCEPT ![i] = d], at' = [at EXCEPT ![i] = "read"]
        PROVE  ImportInv'
    <3>1. d \in Folders /\ d \in listed[i] /\ told[i][d] = "nothing"
      BY DEF Unanswered, ImportTypeOK
    <3>2. HandsTypeOK' /\ \A j \in Importers \ {i} : Untouched(j)
      BY <1>0, <2>1, <2>2, <3>1 DEF ImportTypeOK, HandsTypeOK, Places, Untouched
    <3>3. at'[i] = "read" /\ tx'[i] = {} /\ dir'[i] = d
      BY <1>0, <2>2 DEF ImportTypeOK
    <3>4. HandIsSound(i)'
      BY <1>0, <2>1, <3>1, <3>3 DEF HandIsSound, InHand, folderVars
    <3> QED BY <1>0, <3>2, <3>3, <3>4, OneMoves
  <2>3. ASSUME Unanswered(i) = {}, at' = [at EXCEPT ![i] = "done"], UNCHANGED dir
        PROVE  ImportInv'
    <3>1. \A d \in listed[i] : told[i][d] # "nothing"
      BY <2>3 DEF Unanswered
    <3>2. HandsTypeOK' /\ \A j \in Importers \ {i} : Untouched(j)
      BY <1>0, <2>1, <2>3 DEF ImportTypeOK, HandsTypeOK, Places, Untouched
    <3>3. at'[i] = "done" /\ tx'[i] = {}
      BY <1>0, <2>3 DEF ImportTypeOK
    <3>4. HandIsSound(i)'
      BY <1>0, <2>1, <3>1, <3>3 DEF HandIsSound, InHand, folderVars
    <3> QED BY <1>0, <3>2, <3>3, <3>4, OneMoves
  <2> QED BY <1>3, <2>2, <2>3 DEF NextFolder, Go
<1> QED BY <1>1, <1>2, <1>3

\* LoadRunFolder: what is read is what the scan wrote or somebody edited, and the
\* manifest read afterwards, whole or not, tells which.
LEMMA Reads ==
  ASSUME ImportInv, NEW i \in Importers, ReadReport(i) \/ ReadManifest(i)
  PROVE  ImportInv'
<1> USE DEF ImportInv
<1>1. dir[i] \in Folders /\ UNCHANGED <<folderVars, store, listed>> /\ at[i] \in InHand /\ tx[i] = {}
  <2>1. at[i] \in {"read", "manifest"} /\ UNCHANGED <<folderVars, store, listed>>
    BY DEF ReadReport, ReadManifest
  <2> QED BY <2>1 DEF HandIsSound, InHand
<1>2. CASE ReadReport(i)
  <2>1. CASE report[dir[i]] = "torn"
    <3>1. Answer(i, "failed")
      BY <1>2, <2>1 DEF ReadReport
    <3> QED BY <1>1, <3>1, Answered DEF Answers
  <2>2. CASE report[dir[i]] # "torn"
    <3>1. PICK c, r : /\ c = report[dir[i]] /\ r = [read[i] EXCEPT !.content = c]
                      /\ read' = [read EXCEPT ![i] = r] /\ at' = [at EXCEPT ![i] = "manifest"]
                      /\ UNCHANGED <<dir, tx, told>>
      BY <1>2, <2>2 DEF ReadReport, Go
    <3>2. c \in Readable
      BY <1>1, <1>2, <2>2, <3>1 DEF ReadReport, HandIsSound, InHand, FoldersAreTheirScans, FolderTypeOK, Readable
    <3>3. r \in Reading /\ r.content = c /\ r.integrity = read[i].integrity
      <4>1. read[i] \in Reading /\ c \in Contents
        BY <3>2 DEF ImportTypeOK, Readable
      <4> QED BY <3>1, <4>1 DEF Reading
    <3>4. read[i].integrity = "none"
      BY <1>2 DEF ReadReport, HandIsSound
    <3>5. IsTrueOf(dir[i], c, "none")
      <4> SUFFICES ASSUME NEW s \in Scans, FolderOf(s) = dir[i], Alone(s) PROVE c \in {s, "edited"}
        BY DEF IsTrueOf
      <4>1. Written(s)
        BY DEF FoldersAreTheirScans
      <4> QED BY <3>1, <3>2, <4>1 DEF Written, Readable
    <3>6. HandsTypeOK' /\ \A j \in Importers \ {i} : Untouched(j)
      BY <1>1, <3>1, <3>3 DEF ImportTypeOK, HandsTypeOK, Places, Untouched
    <3>7. at'[i] = "manifest" /\ tx'[i] = {} /\ read'[i] = r
      BY <1>1, <3>1 DEF ImportTypeOK
    <3>8. HandIsSound(i)'
      BY <1>1, <3>1, <3>2, <3>3, <3>4, <3>5, <3>7 DEF HandIsSound, InHand, folderVars
    <3> QED BY <1>1, <3>6, <3>7, <3>8, OneMoves
  <2> QED BY <2>1, <2>2
<1>3. CASE ReadManifest(i)
  <2>1. PICK c, m, integrity, r :
          /\ c = read[i].content /\ m = manifest[dir[i]] /\ integrity = IntegrityOf(c, m)
          /\ r = [read[i] EXCEPT !.integrity = integrity]
          /\ read' = [read EXCEPT ![i] = r] /\ at' = [at EXCEPT ![i] = "lookUp"]
          /\ UNCHANGED <<dir, tx, told>>
    BY <1>3 DEF ReadManifest, Go
  <2>2. integrity \in Integrities
    BY <2>1 DEF IntegrityOf, Integrities
  <2>3. r \in Reading /\ r.content = c /\ r.integrity = integrity /\ c \in Readable
    BY <1>3, <2>1, <2>2 DEF ReadManifest, ImportTypeOK, Reading, HandIsSound, InHand
  <2>4. IsTrueOf(dir[i], c, integrity)
    <3> SUFFICES ASSUME NEW s \in Scans, FolderOf(s) = dir[i], Alone(s)
                 PROVE  /\ c \in {s, "edited"}
                        /\ integrity = "altered" => c = "edited"
                        /\ integrity = "verified" => c = s
      BY DEF IsTrueOf
    <3>1. Written(s) /\ c \in {s, "edited"}
      BY <1>3, <2>1 DEF FoldersAreTheirScans, ReadManifest, HandIsSound, InHand, IsTrueOf
    <3>2. m.state = "whole" => m.names = s
      BY <2>1, <3>1 DEF Written
    <3> QED BY <2>1, <3>1, <3>2 DEF IntegrityOf
  <2>5. HandsTypeOK' /\ \A j \in Importers \ {i} : Untouched(j)
    BY <1>1, <2>1, <2>3 DEF ImportTypeOK, HandsTypeOK, Places, Untouched
  <2>6. at'[i] = "lookUp" /\ tx'[i] = {} /\ read'[i] = r
    BY <1>1, <2>1 DEF ImportTypeOK
  <2>7. HandIsSound(i)'
    BY <1>1, <2>1, <2>2, <2>3, <2>4, <2>6 DEF HandIsSound, InHand, folderVars
  <2> QED BY <1>1, <2>5, <2>6, <2>7, OneMoves
<1> QED BY <1>2, <1>3

\* The folder stays in hand, and the importer goes on to place with the rows.
LEMMA GoesOn ==
  ASSUME ImportInv, NEW i \in Importers, at[i] \in {"lookUp", "insert", "rows"},
         UNCHANGED <<folderVars, listed, store, dir, read, told>>,
         NEW place \in {"insert", "lookAgain", "rows", "commit"}, at' = [at EXCEPT ![i] = place],
         NEW claim, tx' = [tx EXCEPT ![i] = claim],
         place = "rows" => claim = {"scan"}, place = "commit" => claim = Rows,
         place \in {"insert", "lookAgain"} => claim = {},
         claim # {} => ~Stored(Run(i)) /\ (tx[i] # {} \/ ~Claimed(Run(i)))
  PROVE  ImportInv'
<1>1. claim \in SUBSET Rows
  BY DEF Rows
<1>2. HandsTypeOK' /\ \A j \in Importers \ {i} : Untouched(j)
  BY <1>1 DEF ImportInv, ImportTypeOK, HandsTypeOK, Places, Untouched
<1>3. at'[i] = place /\ tx'[i] = claim
  BY DEF ImportInv, ImportTypeOK
<1>4. HandIsSound(i)
  BY DEF ImportInv
<1>5. claim # {} => ~Stored(Run(i))'
  BY DEF Stored, Run
<1>6. HandIsSound(i)'
  <2>1. tx'[i] = CASE at'[i] = "rows" -> {"scan"} [] at'[i] = "commit" -> Rows [] OTHER -> {}
    BY <1>3
  <2>2. at'[i] \in InHand \ {"read", "manifest"} /\ at[i] \in InHand \ {"read", "manifest"}
    BY <1>3 DEF InHand
  <2> QED BY <1>3, <1>4, <1>5, <2>1, <2>2 DEF HandIsSound, folderVars
<1> QED BY <1>2, <1>3, <1>6, OneMoves

\* SaveScan up to the commit: a claim is made only on a run that nobody claims and
\* that is not stored.
LEMMA Saves ==
  ASSUME ImportInv, NEW i \in Importers, LookUp(i) \/ Insert(i) \/ LookAgain(i) \/ InsertRows(i)
  PROVE  ImportInv'
<1> USE DEF ImportInv
<1>0. at[i] \in InHand /\ UNCHANGED <<folderVars, listed, store>>
  BY DEF LookUp, Insert, LookAgain, InsertRows, InHand
<1>1. ASSUME NEW word \in Answers \ {"nothing"}, Answer(i, word) PROVE ImportInv'
  BY <1>0, <1>1, Answered
<1>2. {"already", "failed"} \subseteq Answers \ {"nothing"}
  BY DEF Answers
<1>3. CASE LookUp(i)
  <2>1. tx[i] = {}
    BY <1>3 DEF LookUp, HandIsSound
  <2>2. CASE Stored(Run(i))
    BY <1>1, <1>2, <1>3, <2>2 DEF LookUp
  <2>3. CASE ~Stored(Run(i))
    <3>1. tx' = [tx EXCEPT ![i] = {}]
      BY <1>3, <2>1, <2>3 DEF LookUp, ImportTypeOK
    <3> QED BY <1>0, <1>3, <2>3, <3>1, GoesOn DEF LookUp, Go
  <2> QED BY <2>2, <2>3
<1>4. CASE Insert(i)
  <2>1. tx[i] = {}
    BY <1>4 DEF Insert, HandIsSound
  <2>2. CASE Stored(Run(i))
    <3>1. tx' = [tx EXCEPT ![i] = {}]
      BY <1>4, <2>1, <2>2 DEF Insert, ImportTypeOK
    <3>2. at[i] = "insert" /\ at' = [at EXCEPT ![i] = "lookAgain"] /\ UNCHANGED <<dir, read, told>>
      BY <1>4, <2>2 DEF Insert, Go
    <3> QED BY <1>0, <3>1, <3>2, GoesOn
  <2>3. CASE ~Stored(Run(i))
    BY <1>0, <1>4, <2>3, GoesOn DEF Insert, Go
  <2> QED BY <2>2, <2>3
<1>5. CASE LookAgain(i)
  BY <1>1, <1>2, <1>5 DEF LookAgain
<1>6. CASE InsertRows(i)
  <2>1. tx[i] # {} /\ ~Stored(Run(i))
    BY <1>6 DEF InsertRows, HandIsSound
  <2>2. CASE read[i].content \in Repeaters
    BY <1>1, <1>2, <1>6, <2>2 DEF InsertRows
  <2>3. CASE read[i].content \notin Repeaters
    BY <1>0, <1>6, <2>1, <2>3, GoesOn DEF InsertRows, Go
  <2> QED BY <2>2, <2>3
<1> QED BY <1>3, <1>4, <1>5, <1>6

\* The row that a commit adds, of a run that nobody else claims.
LEMMA Commits ==
  ASSUME ImportInv, NEW i \in Importers, Commit(i)
  PROVE  ImportInv'
<1> USE DEF ImportInv
<1>1. PICK r, row :
        /\ r \in Runs /\ r = Run(i) /\ ~Stored(r)
        /\ row = [folder |-> dir[i], content |-> read[i].content, integrity |-> read[i].integrity, rows |-> tx[i]]
        /\ store' = [store EXCEPT ![r] = row]
  <2>1. dir[i] \in Folders /\ ~Stored(Run(i))
    BY DEF Commit, HandIsSound, InHand, Rows
  <2>2. Run(i) \in Runs
    BY <2>1 DEF Run, Runs, Folders, FolderOf
  <2> QED BY <2>1, <2>2 DEF Commit
<1>2. /\ row.folder = dir[i] /\ row.content = read[i].content /\ row.integrity = read[i].integrity
      /\ row.rows = Rows /\ dir[i] \in Folders /\ tx[i] = Rows
      /\ read[i].content \in Readable /\ read[i].integrity \in Integrities
      /\ IsTrueOf(dir[i], read[i].content, read[i].integrity)
  <2>1. at[i] = "commit" /\ HandIsSound(i)
    BY DEF Commit
  <2>2. tx[i] = Rows
    BY <2>1 DEF HandIsSound
  <2> QED BY <1>1, <2>1, <2>2 DEF HandIsSound, InHand
<1>3. at[i] \in InHand /\ UNCHANGED <<folderVars, listed>>
  BY DEF Commit, InHand
<1>4. HandsTypeOK' /\ (\A j \in Importers \ {i} : Untouched(j)) /\ HandIsSound(i)' /\ tx'[i] = {}
  <2>1. {"imported", "failed"} \subseteq Answers \ {"nothing"}
    BY DEF Answers
  <2> QED BY <1>3, <2>1, AnswerIsSound, StopIsSound DEF Commit
<1>5. \A j \in Importers \ {i} : tx[j] # {} => Run(j) # r
  BY <1>1, <1>2 DEF ClaimsAreExclusive, Rows
<1>6. \A j \in Importers \ {i} : tx[j] # {} => store'[Run(j)] = store[Run(j)]
  BY <1>1, <1>5
<1>7. \A j \in Importers \ {i} : HandIsSound(j)'
  BY <1>3, <1>4, <1>6, HandStays DEF ImportTypeOK, folderVars
<1>8. ClaimsAreExclusive'
  BY <1>4 DEF ClaimsAreExclusive, Untouched, Run
<1>9. StoreIsSound'
  <2> SUFFICES ASSUME NEW q \in Runs, Stored(q)'
               PROVE  /\ store'[q].rows = Rows /\ store'[q].folder \in Folders
                      /\ store'[q].content \in Readable /\ store'[q].integrity \in Integrities
                      /\ IsTrueOf(store'[q].folder, store'[q].content, store'[q].integrity)
    BY DEF StoreIsSound, IsTrueOf, Alone, FolderOf
  <2>1. CASE q = r
    <3>1. store'[q] = row
      BY <1>1, <2>1 DEF ImportTypeOK
    <3> QED BY <1>2, <3>1
  <2>2. CASE q # r
    <3>1. store'[q] = store[q]
      BY <1>1, <2>2
    <3> QED BY <3>1 DEF StoreIsSound, Stored
  <2> QED BY <2>1, <2>2
<1>10. FoldersAreTheirScans'
  BY <1>3 DEF FoldersAreTheirScans, FolderTypeOK, Written, FolderOf, folderVars, Alone
<1>11. ImportTypeOK'
  <2>1. row \in [folder : Folders \cup {NoFolder}, content : Contents,
                 integrity : Integrities \cup {"none"}, rows : SUBSET Rows]
    BY <1>1, <1>2 DEF Readable
  <2> QED BY <1>1, <1>4, <2>1 DEF ImportTypeOK, HandsTypeOK
<1> QED BY <1>4, <1>7, <1>8, <1>9, <1>10, <1>11

LEMMA Ends ==
  ASSUME ImportInv, NEW i \in Importers, DbError(i) \/ Crash(i)
  PROVE  ImportInv'
<1>1. CASE DbError(i)
  <2>1. "failed" \in Answers \ {"nothing"} /\ at[i] \in InHand /\ UNCHANGED <<folderVars, listed, store>>
    BY <1>1 DEF DbError, Answers, InHand
  <2> QED BY <1>1, <2>1, Answered DEF DbError
<1>2. CASE Crash(i)
  BY <1>2, StopIsSound, OneMoves DEF Crash
<1> QED BY <1>1, <1>2

-----------------------------------------------------------------------------
(* Theorems.                                                                *)

LEMMA ImportStarts == Init => ImportInv
<1> SUFFICES ASSUME Init PROVE ImportInv
  OBVIOUS
<1>1. FoldersAreTheirScans
  BY FoldersStart DEF Init
<1>2. "none" \in Contents
  BY DEF Contents
<1>3. ImportTypeOK
  <2>1. Unread \in Reading
    BY <1>2 DEF Unread, Reading
  <2>2. Blank \in [folder : Folders \cup {NoFolder}, content : Contents,
                   integrity : Integrities \cup {"none"}, rows : SUBSET Rows]
    <3>1. \A folder \in Folders \cup {NoFolder}, content \in Contents, integrity \in Integrities \cup {"none"},
            saved \in SUBSET Rows : [folder |-> folder, content |-> content, integrity |-> integrity, rows |-> saved]
              \in [folder : Folders \cup {NoFolder}, content : Contents,
                   integrity : Integrities \cup {"none"}, rows : SUBSET Rows]
      OBVIOUS
    <3>2. NoFolder \in Folders \cup {NoFolder} /\ "none" \in Integrities \cup {"none"} /\ {} \in SUBSET Rows
      OBVIOUS
    <3> QED BY <1>2, <3>1, <3>2 DEF Blank
  <2> QED BY <2>1, <2>2 DEF Init, ImportTypeOK, Places, Answers
<1>4. \A i \in Importers : HandIsSound(i)
  BY DEF Init, HandIsSound, InHand, Unread
<1>5. ClaimsAreExclusive /\ StoreIsSound
  BY DEF Init, ClaimsAreExclusive, StoreIsSound, Stored
<1> QED BY <1>1, <1>3, <1>4, <1>5 DEF ImportInv

LEMMA ImportStep == ImportInv /\ [Next]_vars => ImportInv'
<1> SUFFICES ASSUME ImportInv, [Next]_vars PROVE ImportInv'
  OBVIOUS
<1>1. CASE FolderNext /\ UNCHANGED importVars
  <2>1. FoldersAreTheirScans' /\ \A d \in Folders : report[d] # "none" => report'[d] # "none"
    BY <1>1, FoldersStep DEF ImportInv
  <2>2. \A i \in Importers : HandIsSound(i)'
    BY <1>1, <2>1, HandStays DEF ImportInv, ImportTypeOK, importVars, Untouched
  <2>3. ImportTypeOK' /\ ClaimsAreExclusive' /\ StoreIsSound'
    BY <1>1 DEF ImportInv, ImportTypeOK, ClaimsAreExclusive, StoreIsSound, Stored, Run, importVars
  <2> QED BY <2>1, <2>2, <2>3 DEF ImportInv
<1>2. ASSUME NEW i \in Importers, ImporterStep(i) \/ DbError(i) \/ Crash(i) PROVE ImportInv'
  BY <1>2, BetweenFolders, Reads, Saves, Commits, Ends DEF ImporterStep
<1>3. CASE UNCHANGED vars
  <2>1. \A i \in Importers : HandIsSound(i)'
    BY <1>3, HandStays DEF ImportInv, ImportTypeOK, vars, folderVars, importVars, Untouched
  <2>2. ImportTypeOK' /\ ClaimsAreExclusive' /\ StoreIsSound'
    BY <1>3 DEF ImportInv, ImportTypeOK, ClaimsAreExclusive, StoreIsSound, Stored, Run, vars, importVars
  <2>3. FoldersAreTheirScans'
    BY <1>3 DEF ImportInv, FoldersAreTheirScans, FolderTypeOK, Written, FolderOf, vars, folderVars, Alone
  <2> QED BY <2>1, <2>2, <2>3 DEF ImportInv
<1> QED BY <1>1, <1>2, <1>3 DEF Next

\* Scans that write, importers that read, insert, wait, lose their connection or die.
THEOREM ImportKeepsInv == Spec => []ImportInv
BY ImportStarts, ImportStep, PTL DEF Spec

\* runImportReport: whatever fails, an import that ends has answered for every folder.
THEOREM EveryFolderIsAnswered == Spec => []NoFolderIsAbandoned
<1>1. ImportInv => NoFolderIsAbandoned
  BY DEF ImportInv, HandIsSound, NoFolderIsAbandoned
<1> QED BY ImportKeepsInv, <1>1, PTL

\* Load, LoadRunFolder: "altered" and "verified" are true of what is stored.
THEOREM StoredIntegrityIsTrue == Spec => []IntegrityIsTrue
<1>1. ImportInv => IntegrityIsTrue
  BY DEF ImportInv, StoreIsSound, IsTrueOf, IntegrityIsTrue
<1> QED BY ImportKeepsInv, <1>1, PTL

-----------------------------------------------------------------------------
(* The promise (Archive).                                                   *)

\* What the archive holds of a run.
Kept(r) == IF store[r].rows \in {{}, Rows}
           THEN Document(store[r].folder, store[r].content, store[r].integrity)
           ELSE Document(store[r].folder, store[r].content, "part")
Archived == [r \in Runs |-> Kept(r)]
Nothing == Document(NoFolder, "none", "none")
Documents == [folder : Folders, content : Readable, integrity : Integrities]

LEMMA WhatIsKept ==
  ASSUME ImportInv, NEW r \in Runs
  PROVE  /\ Stored(r) => Kept(r) \in Documents /\ Kept(r) # Nothing
         /\ ~Stored(r) => Kept(r) = Nothing
<1>1. CASE Stored(r)
  <2>1. /\ store[r].rows = Rows /\ store[r].folder \in Folders
        /\ store[r].content \in Readable /\ store[r].integrity \in Integrities
    BY <1>1 DEF ImportInv, StoreIsSound
  <2>2. Kept(r) = [folder |-> store[r].folder, content |-> store[r].content, integrity |-> store[r].integrity]
    BY <2>1 DEF Kept, Document
  <2>3. Kept(r) \in Documents
    BY <2>1, <2>2 DEF Documents
  <2>4. Kept(r).folder # Nothing.folder
    BY <2>1, <2>2, FoldersAssumption DEF Nothing, Document
  <2> QED BY <1>1, <2>3, <2>4
<1>2. CASE ~Stored(r)
  <2>1. /\ store[r].rows = {} /\ store[r].folder = NoFolder
        /\ store[r].content = "none" /\ store[r].integrity = "none"
    BY <1>2 DEF Stored, Blank
  <2> QED BY <1>2, <2>1 DEF Kept, Nothing
<1> QED BY <1>1, <1>2

\* SaveScan: an import's answer is a step of the archive, and whatever else happens
\* is not seen there.
LEMMA StepIsArchives ==
  ASSUME ImportInv, ImportInv', [Next]_vars
  PROVE  [Promise!ArchiveNext]_<<Archived, told>>
<1> DEFINE Ours == [Promise!ArchiveNext]_<<Archived, told>>
<1>1. ASSUME UNCHANGED <<store, told>> PROVE Ours
  BY <1>1 DEF Archived, Kept
<1>2. ASSUME NEW i \in Importers, at[i] \in InHand
      PROVE  dir[i] \in Folders /\ told[i][dir[i]] = "nothing" /\ dir[i].run \in Runs
  <2>1. dir[i] \in Folders /\ told[i][dir[i]] = "nothing"
    BY <1>2 DEF ImportInv, HandIsSound
  <2> QED BY <2>1 DEF Runs, Folders, FolderOf
<1>3. ASSUME NEW i \in Importers, at[i] \in InHand, UNCHANGED store, Answer(i, "failed") PROVE Ours
  <2>1. dir[i] \in Folders /\ told[i][dir[i]] = "nothing"
    BY <1>2, <1>3
  <2>2. UNCHANGED Archived
    BY <1>3 DEF Archived, Kept
  <2> QED BY <1>3, <2>1, <2>2 DEF Answer, Promise!ArchiveNext, Promise!Fail, Promise!Tell, Archived, Kept, Document
<1>4. ASSUME NEW i \in Importers, at[i] \in InHand, UNCHANGED store, Stored(Run(i)), Answer(i, "already") PROVE Ours
  <2>1. dir[i] \in Folders /\ told[i][dir[i]] = "nothing" /\ dir[i].run \in Runs
    BY <1>2, <1>4
  <2>2. UNCHANGED Archived
    BY <1>4 DEF Archived, Kept
  <2>3. Archived[dir[i].run] # Nothing
    BY <1>4, <2>1, WhatIsKept DEF Archived, Run
  <2>4. Promise!Refer(i, dir[i])
    BY <1>4, <2>1, <2>2, <2>3 DEF Answer, Promise!Refer, Promise!Tell, Archived, Kept, Document, Nothing
  <2> QED BY <2>1, <2>4 DEF Promise!ArchiveNext
<1>5. ASSUME NEW i \in Importers, Commit(i) PROVE Ours
  <2>1. at[i] \in InHand
    BY <1>5 DEF Commit, InHand
  <2>2. PICK d \in Folders, r \in Runs : d = dir[i] /\ r = d.run /\ told[i][d] = "nothing"
    BY <1>2, <2>1
  <2>3. PICK row : /\ row = [folder |-> d, content |-> read[i].content, integrity |-> read[i].integrity, rows |-> Rows]
                   /\ store' = [store EXCEPT ![r] = row]
    <3>1. at[i] = "commit" /\ HandIsSound(i)
      BY <1>5 DEF Commit, ImportInv
    <3>2. tx[i] = Rows
      BY <3>1 DEF HandIsSound
    <3> QED BY <1>5, <2>2, <3>2 DEF Commit, Run
  <2>4. ~Stored(r)
    <3>1. tx[i] # {} /\ HandIsSound(i)
      BY <1>5 DEF Commit, ImportInv, HandIsSound, Rows
    <3> QED BY <2>2, <3>1 DEF HandIsSound, Run
  <2>5. store'[r] = row /\ \A q \in Runs : q # r => store'[q] = store[q]
    BY <2>3 DEF ImportInv, ImportTypeOK
  <2>6. Archived[r] = Nothing
    BY <2>4, WhatIsKept DEF Archived
  <2>7. Archived'[r] \in Documents
    <3>1. Archived'[r] = [folder |-> d, content |-> read[i].content, integrity |-> read[i].integrity]
      BY <2>3, <2>5 DEF Archived, Kept, Document
    <3>2. read[i].content \in Readable /\ read[i].integrity \in Integrities
      BY <1>5 DEF Commit, ImportInv, HandIsSound, InHand
    <3> QED BY <3>1, <3>2 DEF Documents
  <2>8. Archived' = [Archived EXCEPT ![r] = Archived'[r]]
    <3>1. \A q \in Runs : q # r => Kept(q)' = Kept(q)
      BY <2>5 DEF Kept
    <3> QED BY <3>1 DEF Archived
  <2>9. \/ told' = [told EXCEPT ![i][d] = "imported"]
         \/ told' = [told EXCEPT ![i][d] = "failed"]
         \/ told' = told
    BY <1>5, <2>2 DEF Commit, Answer, Stop
  <2>10. Promise!Keep(i, d)
    BY <2>2, <2>6, <2>7, <2>8, <2>9
       DEF Promise!Keep, Promise!Tell, Archived, Kept, Document, Documents, Readable, Nothing
  <2> QED BY <2>10 DEF Promise!ArchiveNext
<1>6. ASSUME NEW i \in Importers, ImporterStep(i) \/ DbError(i) \/ Crash(i) PROVE Ours
  <2>1. CASE FindCase(i) \/ CreateCase(i) \/ ListFolders(i) \/ NextFolder(i) \/ ReadManifest(i) \/ Insert(i) \/ Crash(i)
    BY <1>1, <2>1 DEF FindCase, CreateCase, ListFolders, NextFolder, ReadManifest, Insert, Crash, Stop
  <2>2. CASE ReadReport(i)
    BY <1>1, <1>3, <2>2 DEF ReadReport, InHand
  <2>3. CASE LookUp(i)
    BY <1>1, <1>4, <2>3 DEF LookUp, InHand
  <2>4. CASE LookAgain(i)
    BY <1>3, <1>4, <2>4 DEF LookAgain, InHand
  <2>5. CASE InsertRows(i)
    BY <1>1, <1>3, <2>5 DEF InsertRows, InHand
  <2>6. CASE Commit(i)
    BY <1>5, <2>6
  <2>7. CASE DbError(i)
    BY <1>3, <2>7 DEF DbError, InHand
  <2> QED BY <1>6, <2>1, <2>2, <2>3, <2>4, <2>5, <2>6, <2>7 DEF ImporterStep
<1>7. CASE UNCHANGED vars \/ (FolderNext /\ UNCHANGED importVars)
  BY <1>1, <1>7 DEF vars, importVars
<1> QED BY <1>6, <1>7 DEF Next

\* A run is stored once, whole, and never again touched, and every answer is true.
THEOREM ImportsKeepThePromise == Spec => ImplementsArchive
<1>1. Init => Promise!ArchiveInit
  <2> SUFFICES ASSUME Init PROVE Promise!ArchiveInit
    OBVIOUS
  <2>1. \A r \in Runs : Kept(r) = Nothing
    BY DEF Init, Kept, Nothing, Document, Blank
  <2> QED BY <2>1 DEF Init, Promise!ArchiveInit, Kept, Nothing, Document
<1>2. ImportInv /\ ImportInv' /\ [Next]_vars => [Promise!ArchiveNext]_<<Archived, told>>
  BY StepIsArchives
<1> QED BY ImportKeepsInv, <1>1, <1>2, PTL DEF Spec, ImplementsArchive, Promise!ArchiveSpec, Archived, Kept
=============================================================================
