------------------------------ MODULE MCConsole ------------------------------
(***************************************************************************)
(* An instance of AgentBuild and one of Triage, which share no state: TLC  *)
(* explores the one, then the other. AgentBuild: a release that is good,   *)
(* one with a file its manifest does not name, one that declares a program *)
(* it does not hold; a view with rules and one without; two analysts.      *)
(* Triage: the same content on two customers' hosts.                       *)
(***************************************************************************)
EXTENDS AgentBuild, Triage, TLC

View(binaries, data, needs) == [binaries |-> binaries, data |-> data, rules |-> needs]
Both == "disk" :> View({"diskprobe"}, {"kb"}, TRUE) @@ "jvm" :> View({"jvmprobe"}, {}, FALSE)
Declarations ==
  "doc" :> [schema |-> "1", target |-> "linux", always |-> {"core"}, views |-> Both]
  @@ "newer" :> [schema |-> "2", target |-> "linux", always |-> {"core"}, views |-> Both]

Complete == Components :> "doc" @@ "core" :> "core-1" @@ "diskprobe" :> "disk-1" @@ "jvmprobe" :> "jvm-1"
Lacking == Components :> "doc" @@ "core" :> "core-1" @@ "diskprobe" :> "disk-1"
Folder(files, manifest) == [files |-> files, manifest |-> manifest]
Unpacked == "complete" :> Folder(Complete, Complete)
         @@ "lacking" :> Folder(Lacking, Lacking)
         @@ "extra" :> Folder(Complete, Lacking)
         @@ "newer" :> Folder(Components :> "newer", Components :> "newer")

Ask(set, views, format) == [set |-> set, views |-> views, scope |-> <<>>, format |-> format]
Requests == {Ask("set", <<"disk">>, ""), Ask(NoSet, <<"jvm", "jvm">>, "json"), Ask("set", <<"jvm">>, "")}

\* So short that the builds of one release all share it.
ShortId(identity) == <<identity.release, identity.target>>

Text(name, refs) == [name |-> name, refs |-> refs]
OneRule == 1 :> [layer |-> "own", text |-> Text("mine", {})]
WholeLibrary == {[layers |-> Layers, rules |-> {}]}

Interchangeable == Permutations(Builders)

-----------------------------------------------------------------------------
Row(key, host, path, tier, score) == [key |-> key, host |-> host, path |-> path, tier |-> tier, score |-> score]
TwoScans ==
  "scanA" :> <<Row("shell", "web1", "/a", "likely", 3), Row("note", "web1", "/c", "clean", 3),
               Row("shell", "web1", "/b", "confirmed", 2), Row("other", "web1", "/d", "confirmed", 2)>>
  @@ "scanB" :> <<Row("shell", "web2", "/a", "suspicious", 1)>>
TwoCases == "scanA" :> "customer1" @@ "scanB" :> "customer2"

VARIABLE part
MCInit == /\ part \in {"builds", "triage"}
          /\ ConsoleInit /\ TriageInit
MCNext == /\ \/ part = "builds" /\ ConsoleNext /\ UNCHANGED triageVars
             \/ part = "triage" /\ TriageNext /\ UNCHANGED <<vars, buildVars>>
          /\ UNCHANGED part
MCSpec == MCInit /\ [][MCNext]_<<part, vars, buildVars, triageVars>>
=============================================================================
