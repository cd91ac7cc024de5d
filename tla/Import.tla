------------------------------- MODULE Import -------------------------------
(***************************************************************************)
(* Bulk import of run folders into the console: runImportReport and        *)
(* findOrCreateCase (cmd/console/importreport.go), LoadRunFolder           *)
(* (internal/report), Service.IngestFolder (internal/reports) and          *)
(* PG.SaveScan (internal/store/pg.go), several importers at a time, over   *)
(* the folders that the scans of RunFolder are still writing.              *)
(* PostgreSQL is modelled by what SaveScan relies on: a transaction's rows *)
(* are seen by nobody until it commits, and an INSERT that meets another   *)
(* transaction's uncommitted key waits for it.                             *)
(***************************************************************************)
EXTENDS RunFolder

CONSTANTS Importers,  \* processes importing
          Repeaters   \* scans whose report holds two coverage records of one view

Runs == {Second[s] : s \in Scans}
Rows == {"scan", "coverage", "findings"}
Integrities == {"verified", "unverified", "altered"}
NoFolder == [host |-> "", run |-> ""]
Unread == [content |-> "none", integrity |-> "none"]
Blank == [folder |-> NoFolder, content |-> "none", integrity |-> "none", rows |-> {}]

\* RunDirFor: the name of a run folder is never empty.
ASSUME FoldersAssumption == NoFolder \notin Folders

VARIABLES
  at,      \* per importer: where it is
  case,    \* the case row exists
  listed,  \* per importer: the run folders it found
  dir,     \* per importer: the folder in hand, NoFolder between two
  read,    \* per importer: content of the report.json it read, and the integrity
  tx,      \* per importer: the rows of its open transaction
  store,   \* per run id: the committed scan
  told     \* per importer and folder: the answer printed

importVars == <<at, case, listed, dir, read, tx, store, told>>
vars == <<folderVars, importVars>>

Places == {"case", "createCase", "list", "next", "read", "manifest", "lookUp", "insert", "rows",
           "commit", "lookAgain", "done", "quit", "dead"}

Init ==
  /\ FolderInit
  /\ at = [i \in Importers |-> "case"]
  /\ case = FALSE
  /\ listed = [i \in Importers |-> {}]
  /\ dir = [i \in Importers |-> NoFolder]
  /\ read = [i \in Importers |-> Unread]
  /\ tx = [i \in Importers |-> {}]
  /\ store = [r \in Runs |-> Blank]
  /\ told = [i \in Importers |-> [d \in Folders |-> "nothing"]]

Go(i, place) == at' = [at EXCEPT ![i] = place]
Run(i) == dir[i].run
Claimed(r) == \E j \in Importers : tx[j] # {} /\ Run(j) = r
Stored(r) == store[r] # Blank

LetGo(i) ==
  /\ dir' = [dir EXCEPT ![i] = NoFolder]
  /\ read' = [read EXCEPT ![i] = Unread]
  /\ tx' = [tx EXCEPT ![i] = {}]

\* One folder is answered for; the importer turns to the next.
Answer(i, word) ==
  /\ told' = [told EXCEPT ![i][dir[i]] = word]
  /\ LetGo(i)
  /\ Go(i, "next")

\* The process ends; the server rolls an open transaction back.
Stop(i) ==
  /\ Go(i, "dead")
  /\ LetGo(i)
  /\ UNCHANGED told

-----------------------------------------------------------------------------
(* The run of one importer.                                                 *)

\* findOrCreateCase lists the cases ...
FindCase(i) ==
  /\ at[i] = "case"
  /\ Go(i, IF case THEN "list" ELSE "createCase")
  /\ UNCHANGED <<folderVars, case, listed, dir, read, tx, store, told>>

\* ... and creates the one it did not find. cases.name is UNIQUE: whoever comes
\* second ends with the error.
CreateCase(i) ==
  /\ at[i] = "createCase"
  /\ Go(i, IF case THEN "quit" ELSE "list")
  /\ case' = TRUE
  /\ UNCHANGED <<folderVars, listed, dir, read, tx, store, told>>

\* runFolders: the folders that hold a report.json by now.
ListFolders(i) ==
  /\ at[i] = "list"
  /\ LET found == {d \in Folders : report[d] # "none"}
     IN  /\ listed' = [listed EXCEPT ![i] = found]
         /\ Go(i, IF found = {} THEN "quit" ELSE "next")
  /\ UNCHANGED <<folderVars, case, dir, read, tx, store, told>>

\* Mutants: the first folder that fails ends the import; it is tried again.
UnansweredUnlessFailed(i) ==
  IF \E d \in Folders : told[i][d] = "failed" THEN {} ELSE {d \in listed[i] : told[i][d] = "nothing"}

UnansweredOrFailed(i) == {d \in listed[i] : told[i][d] \in {"nothing", "failed"}}

Unanswered(i) == {d \in listed[i] : told[i][d] = "nothing"}

\* The loop goes on after a folder that failed.
NextFolder(i) ==
  /\ at[i] = "next"
  /\ \/ \E d \in Unanswered(i) : dir' = [dir EXCEPT ![i] = d] /\ Go(i, "read")
     \/ Unanswered(i) = {} /\ Go(i, "done") /\ UNCHANGED dir
  /\ UNCHANGED <<folderVars, case, listed, read, tx, store, told>>

\* Parse refuses a report of which only a part is there; the bytes are kept until
\* the manifest has been read too, but the outcome is settled here.
ReadReport(i) ==
  /\ at[i] = "read"
  /\ LET c == report[dir[i]]
     IN  IF c = "torn"
         THEN Answer(i, "failed")
         ELSE /\ read' = [read EXCEPT ![i].content = c]
              /\ Go(i, "manifest")
              /\ UNCHANGED <<dir, tx, told>>
  /\ UNCHANGED <<folderVars, case, listed, store>>

\* Mutant: a manifest that cannot be read counts as a disagreement.
IntegrityOfTorn(content, m) ==
  CASE m.state = "none" -> "unverified"
    [] m.state = "whole" /\ m.names = content -> "verified"
    [] OTHER -> "altered"

\* Load: an absent or unreadable manifest says nothing.
IntegrityOf(content, m) ==
  CASE m.state # "whole" -> "unverified"
    [] m.state = "whole" /\ m.names = content -> "verified"
    [] OTHER -> "altered"

ReadManifest(i) ==
  /\ at[i] = "manifest"
  /\ read' = [read EXCEPT ![i].integrity = IntegrityOf(read[i].content, manifest[dir[i]])]
  /\ Go(i, "lookUp")
  /\ UNCHANGED <<folderVars, case, listed, dir, tx, store, told>>

\* The fast path of SaveScan.
LookUp(i) ==
  /\ at[i] = "lookUp"
  /\ IF Stored(Run(i))
     THEN Answer(i, "already")
     ELSE Go(i, "insert") /\ UNCHANGED <<dir, read, tx, told>>
  /\ UNCHANGED <<folderVars, case, listed, store>>

\* Mutant: INSERT without the constraint, on the strength of the lookup.
InsertUnchecked(i) ==
  /\ at[i] = "insert"
  /\ tx' = [tx EXCEPT ![i] = {"scan"}] /\ Go(i, "rows")
  /\ UNCHANGED <<folderVars, case, listed, dir, read, store, told>>

\* ON CONFLICT (run_id) DO NOTHING: waits for another transaction's claim, and
\* yields to a committed one.
Insert(i) ==
  /\ at[i] = "insert" /\ ~Claimed(Run(i))
  /\ IF Stored(Run(i))
     THEN Go(i, "lookAgain") /\ UNCHANGED tx
     ELSE tx' = [tx EXCEPT ![i] = {"scan"}] /\ Go(i, "rows")
  /\ UNCHANGED <<folderVars, case, listed, dir, read, store, told>>

\* The loser's second lookup.
LookAgain(i) ==
  /\ at[i] = "lookAgain"
  /\ Answer(i, IF Stored(Run(i)) THEN "already" ELSE "failed")
  /\ UNCHANGED <<folderVars, case, listed, store>>

\* The coverage rows and the findings. The key of scan_coverage is (scan_id,
\* view): a report that names a view twice is refused whole.
InsertRows(i) ==
  /\ at[i] = "rows"
  /\ IF read[i].content \in Repeaters
     THEN Answer(i, "failed")
     ELSE /\ tx' = [tx EXCEPT ![i] = Rows]
          /\ Go(i, "commit") /\ UNCHANGED <<dir, read, told>>
  /\ UNCHANGED <<folderVars, case, listed, store>>

\* The connection may be lost with the server's answer, and the process may die
\* on it.
Commit(i) ==
  /\ at[i] = "commit"
  /\ store' = [store EXCEPT ![Run(i)] = [folder |-> dir[i], content |-> read[i].content,
                                         integrity |-> read[i].integrity, rows |-> tx[i]]]
  /\ Answer(i, "imported") \/ Answer(i, "failed") \/ Stop(i)
  /\ UNCHANGED <<folderVars, case, listed>>

\* A statement or the connection fails: the deferred rollback, and the error.
DbError(i) ==
  /\ at[i] \in {"lookUp", "insert", "rows", "commit", "lookAgain"}
  /\ Answer(i, "failed")
  /\ UNCHANGED <<folderVars, case, listed, store>>

Crash(i) ==
  /\ at[i] \notin {"done", "quit", "dead"}
  /\ Stop(i)
  /\ UNCHANGED <<folderVars, case, listed, store>>

ImporterStep(i) ==
  \/ FindCase(i) \/ CreateCase(i) \/ ListFolders(i) \/ NextFolder(i)
  \/ ReadReport(i) \/ ReadManifest(i) \/ LookUp(i) \/ Insert(i) \/ LookAgain(i)
  \/ InsertRows(i) \/ Commit(i)

Next ==
  \/ FolderNext /\ UNCHANGED importVars
  \/ \E i \in Importers : ImporterStep(i) \/ DbError(i) \/ Crash(i)

Spec == Init /\ [][Next]_vars

\* An importer that is alive takes its steps; the lock it may wait for is held by
\* another importer's transaction. Scans owe nothing.
FairSpec == Spec /\ \A i \in Importers : WF_vars(ImporterStep(i))

-----------------------------------------------------------------------------
(* Properties.                                                              *)

\* A run is stored once, with all its rows, and never again touched, and every
\* answer is true of the store at the moment it is given (SaveScan).
Document(folder, content, integrity) == [folder |-> folder, content |-> content, integrity |-> integrity]

Promise == INSTANCE Archive WITH
  Nothing <- Document(NoFolder, "none", "none"),
  Docs  <- [folder : Folders, content : Contents \ {"none", "torn"}, integrity : Integrities],
  RunOf <- LAMBDA d : d.run,
  kept  <- [r \in Runs |->
             IF store[r].rows \in {{}, Rows}
             THEN Document(store[r].folder, store[r].content, store[r].integrity)
             ELSE Document(store[r].folder, store[r].content, "part")]

ImplementsArchive == Promise!ArchiveSpec

\* "One bad folder must not abandon the other thirty-nine" (runImportReport): an
\* import that ends answers for every folder it listed.
NoFolderIsAbandoned ==
  \A i \in Importers : at[i] = "done" => \A d \in listed[i] : told[i][d] # "nothing"

\* The store's word on a report is true: "altered" only of one that was changed
\* after its scan, whatever the moment at which it was read, and "verified" only of
\* what one scan wrote whole (Load and LoadRunFolder). Said of folders that one
\* scan has to itself.
IntegrityIsTrue ==
  \A r \in Runs : Stored(r) =>
    \A s \in Scans : FolderOf(s) = store[r].folder /\ Alone(s) =>
      /\ store[r].integrity = "altered" => store[r].content = "edited"
      /\ store[r].integrity = "verified" => store[r].content = s

\* "already present" is said of a run folder that is present: the stored scan is
\* that folder's (runImportReport; "re-importing the same run must not create a
\* second scan", Parse).
AlreadyPresentIsPresent ==
  \A i \in Importers, d \in Folders :
    told[i][d] = "already" => store[d.run].folder = d

\* An import that is not killed comes to an end, also when importers wait for each
\* other's claims.
ImportEnds == \A i \in Importers : <>(at[i] \in {"done", "quit", "dead"})
=============================================================================
