------------------------------ MODULE Archive ------------------------------
(***************************************************************************)
(* What the console promises about importing run folders, whatever the     *)
(* order and number of imports (the comments on SaveScan, pg.go, and on    *)
(* IngestFolder, reports/service.go): a run is stored once, whole, and     *)
(* never changed; an import that answers "imported" stored it, and one     *)
(* that answers "already" found it stored.                                 *)
(***************************************************************************)
CONSTANTS Importers, Folders, Runs, RunOf(_), Docs, Nothing

VARIABLES kept,  \* per run: the stored document, or Nothing
          told   \* per importer and folder: the answer, or "nothing"

ArchiveInit ==
  /\ kept = [r \in Runs |-> Nothing]
  /\ told = [i \in Importers |-> [d \in Folders |-> "nothing"]]

Tell(i, d, answer) ==
  /\ told[i][d] = "nothing"
  /\ told' = [told EXCEPT ![i][d] = answer]

\* A document is stored. The importer learns of it unless its connection is lost
\* with the answer, or it dies.
Keep(i, d) ==
  /\ Tell(i, d, "imported") \/ Tell(i, d, "failed") \/ UNCHANGED told
  /\ LET r == RunOf(d)
     IN  /\ kept[r] = Nothing /\ kept'[r] \in Docs
         /\ kept' = [kept EXCEPT ![r] = kept'[r]]

Refer(i, d) == Tell(i, d, "already") /\ kept[RunOf(d)] # Nothing /\ UNCHANGED kept

Fail(i, d) == Tell(i, d, "failed") /\ UNCHANGED kept

ArchiveNext == \E i \in Importers, d \in Folders : Keep(i, d) \/ Refer(i, d) \/ Fail(i, d)

ArchiveSpec == ArchiveInit /\ [][ArchiveNext]_<<kept, told>>
=============================================================================
