----------------------------- MODULE AgentBuild -----------------------------
(***************************************************************************)
(* Releases and generated agents: cmd/console/publish.go, internal/release, *)
(* internal/agentgen and the build handlers of internal/httpapi, beside    *)
(* the rule library they take frozen sets from. A file's content is a name *)
(* and its hash is that name; the blob store may lose a blob or give other *)
(* bytes for it. What a components.json says is given by Declares. Audit   *)
(* rows, sizes, JSON and zip layout are left out.                          *)
(***************************************************************************)
EXTENDS RuleLibrary

CONSTANTS Folders,       \* release folders: [files, manifest], path -> content, path -> hash
          Declares,      \* content of a components.json -> [schema, target, always, views]
          Targets,       \* validTargets
          Versions,      \* -version arguments
          Asked,         \* build requests: [set, views, scope, format]
          Seconds,       \* the clock's values, at the resolution generated_at has
          Truncated(_),  \* 48 bits of the hash of a build's identity
          Publishers, Builders,
          MaxFaults      \* how many blobs the store may lose or change

NoSet == "none"
Components == "components.json"   \* ComponentsPath
Rooted == {"/rooted"}             \* paths checkContained and checkReleasePath refuse
Formats == {"", "json", "text"}
Altered == "altered"              \* what a changed blob holds

\* A set there is none of is refused as one that is not frozen.
ASSUME BuildAssumption ==
  /\ \A name \in DOMAIN Folders : \A f \in {Folders[name].files, Folders[name].manifest} :
       f = [path \in DOMAIN f |-> f[path]]
  /\ \A asked \in Asked : asked.set \in Sets \cup {NoSet}

VARIABLES
  releases,   \* releases and release_files: sequence of [version, target, files]
  publish,    \* per publisher: [at, folder, version, target, left]
  held,       \* blobs of the store that are not rule blobs: <<kind, content>>
  lost, altered,   \* keys whose blob is gone, or holds other bytes
  request,    \* per builder: [at, asked, release, second, count, rules, archive, row]
  builds      \* the builds table: sequence of [id, release, set, archive]

buildVars == <<releases, publish, held, lost, altered, request, builds>>

NoArchive == [files |-> <<>>, rules |-> <<"none", {}>>, config |-> <<>>]
NoAsk == [set |-> NoSet, views |-> <<>>, scope |-> <<>>, format |-> ""]
NoPublish == [at |-> "idle", folder |-> "none", version |-> "none", target |-> "none", left |-> {}]
NoRequest(at) == [at |-> at, asked |-> NoAsk, release |-> 0, second |-> 0, count |-> 0,
                  rules |-> <<"none", {}>>, archive |-> NoArchive, row |-> 0]

BuildInit ==
  /\ releases = <<>> /\ held = {} /\ lost = {} /\ altered = {} /\ builds = <<>>
  /\ publish = [p \in Publishers |-> NoPublish]
  /\ request = [b \in Builders |-> NoRequest("idle")]

-----------------------------------------------------------------------------
(* Publishing.                                                              *)

\* release.Verify: every path of the manifest is contained and holds what it says,
\* and nothing else is there.
Verifies(f) ==
  /\ \A path \in DOMAIN f.manifest : /\ path \notin Rooted /\ path \in DOMAIN f.files
                                     /\ f.files[path] = f.manifest[path]
  /\ DOMAIN f.files \subseteq DOMAIN f.manifest

\* Flags first, then verification, before anything is written. A folder may be
\* published again, also under a name that is taken.
Publish(p) ==
  /\ publish[p].at = "idle"
  /\ \E name \in DOMAIN Folders, version \in Versions, target \in Targets :
       publish' = [publish EXCEPT ![p] =
         IF Verifies(Folders[name])
         THEN [at |-> "verified", folder |-> name, version |-> version, target |-> target,
               left |-> DOMAIN Folders[name].manifest]
         ELSE NoPublish]
  /\ UNCHANGED <<releases, held, lost, altered, request, builds>>

\* One file after another, by its content: Put of a key that is there does nothing,
\* whatever the file under it holds by now.
StoreFile(p) ==
  /\ publish[p].at = "verified" /\ publish[p].left # {}
  /\ LET path == CHOOSE path \in publish[p].left : TRUE
         key == <<"file", Folders[publish[p].folder].files[path]>>
     IN  /\ held' = held \cup {key} /\ lost' = lost \ {key}
         /\ publish' = [publish EXCEPT ![p].left = @ \ {path}]
  /\ UNCHANGED <<releases, altered, request, builds>>

\* Mutant: the row may be inserted while files are still to be stored.
RecordEarly(p) ==
  /\ publish[p].at = "verified"
  /\ releases' = Append(releases, [version |-> publish[p].version, target |-> publish[p].target,
                                   files |-> Folders[publish[p].folder].files])
  /\ publish' = [publish EXCEPT ![p] = NoPublish]
  /\ UNCHANGED <<held, lost, altered, request, builds>>

\* PublishRelease, in one transaction; (version, target) is UNIQUE.
RecordRelease(p) ==
  /\ publish[p].at = "verified" /\ publish[p].left = {}
  /\ LET row == [version |-> publish[p].version, target |-> publish[p].target,
                 files |-> Folders[publish[p].folder].files]
     IN  IF \E i \in DOMAIN releases : releases[i].version = row.version /\ releases[i].target = row.target
         THEN publish' = [publish EXCEPT ![p] = NoPublish] /\ UNCHANGED releases
         ELSE /\ releases' = Append(releases, row)
              /\ publish' = [publish EXCEPT ![p] = NoPublish]
  /\ UNCHANGED <<held, lost, altered, request, builds>>

\* The publishing process is killed; what it stored stays.
PublishDies(p) ==
  /\ publish[p].at = "verified"
  /\ publish' = [publish EXCEPT ![p] = NoPublish]
  /\ UNCHANGED <<releases, held, lost, altered, request, builds>>

-----------------------------------------------------------------------------
(* The blob store.                                                          *)

RuleKey(set) == <<"rules", sets[set].blob>>
Keys == held \cup {<<"rules", b>> : b \in blobs}

\* Bit rot, a restored backup, a hand in the directory.
Fault ==
  /\ Cardinality(lost) + Cardinality(altered) < MaxFaults
  /\ \E key \in Keys : \/ lost' = lost \cup {key} /\ UNCHANGED altered
                       \/ altered' = altered \cup {key} /\ UNCHANGED lost
  /\ UNCHANGED <<releases, publish, held, request, builds>>

CanGet(key) == key \in Keys \ lost
Intact(key) == key \notin altered

-----------------------------------------------------------------------------
(* Building.                                                                *)

\* Mutant: what the store gives is not hashed again.
HoldsUnchecked(index, path) == path \in DOMAIN index /\ CanGet(<<"file", index[path]>>)

\* releaseFiles.File: the release records the path, its blob is there and hashes to it.
Holds(index, path) ==
  /\ path \in DOMAIN index
  /\ CanGet(<<"file", index[path]>>) /\ Intact(<<"file", index[path]>>)

\* LoadComponents.
Declared(index) == Declares[index[Components]]
Loads(index) == /\ Holds(index, Components) /\ index[Components] \in DOMAIN Declares
                /\ LET doc == Declared(index)
                   IN  doc.schema = "1" /\ doc.views # <<>> /\ doc.always # {}

SeqRange(s) == {s[i] : i \in DOMAIN s}
NeedsRules(doc, views) == \E v \in views : doc.views[v].rules

\* Resolve: the files the views need; not the rule layers the compiled blob replaces.
Selected(doc, views) ==
  doc.always \cup UNION {doc.views[v].binaries \cup (IF doc.views[v].rules THEN {} ELSE doc.views[v].data) : v \in views}

\* The conditions under which agentgen.Build assembles, in the order it tests them.
Resolves(doc, views) == views # {} /\ views \subseteq DOMAIN doc.views

\* Rules that apply, compiled, when a view scans with rules; no rule set otherwise.
RulesFit(q, doc, views) == IF NeedsRules(doc, views) THEN q.count # 0 /\ q.rules[1] = "rules"
                                                     ELSE q.rules[1] = "none"
Stages(index, doc, views) == \A path \in Selected(doc, views) : path \notin Rooted /\ Holds(index, path)

\* deriveBuildID: what makes two builds different artefacts. The content of the
\* release's files is in it only by version and by the target the release declares.
Identity(q, doc, views) ==
  [release |-> releases[q.release].version, target |-> doc.target, set |-> q.asked.set, rules |-> q.rules,
   format |-> q.asked.format, second |-> q.second, views |-> views, scope |-> q.asked.scope,
   files |-> Selected(doc, views)]

\* What the store gives for a file of the release.
Stored(index, path) == IF Intact(<<"file", index[path]>>) THEN index[path] ELSE Altered

\* Build's archive: the staged files, the rule blob and agent.json, which names it.
Assembled(q, doc, views) ==
  [files  |-> [path \in Selected(doc, views) |-> Stored(releases[q.release].files, path)],
   rules  |-> q.rules,
   config |-> Identity(q, doc, views)]

\* create reads the release; its rows never change.
BeginBuild(b) ==
  /\ request[b].at = "idle"
  /\ \E asked \in Asked, second \in Seconds, release \in 1 .. Len(releases) + 1 :
       request' = [request EXCEPT ![b] =
         IF release \notin DOMAIN releases THEN NoRequest("refused")
         ELSE [NoRequest(IF asked.set = NoSet THEN "read" ELSE "releaseRead") EXCEPT
                 !.asked = asked, !.second = second, !.release = release]]
  /\ UNCHANGED <<releases, publish, held, lost, altered, builds>>

\* GetRuleSet: a set with no blob is not frozen.
ReadSet(b) ==
  /\ request[b].at = "releaseRead"
  /\ request' = [request EXCEPT ![b] = IF sets[@.asked.set].frozen THEN [@ EXCEPT !.at = "setRead"]
                                                                   ELSE NoRequest("refused")]
  /\ UNCHANGED <<releases, publish, held, lost, altered, builds>>

\* ResolvedCount resolves the selection of the set as the library is now, also for
\* a frozen set.
CountRules(b) ==
  /\ request[b].at = "setRead"
  /\ LET s == sets[request[b].asked.set]
     IN  request' = [request EXCEPT ![b].at = "counted", ![b].count = Cardinality(Resolve(s.selection, s.excluded))]
  /\ UNCHANGED <<releases, publish, held, lost, altered, builds>>

\* The rule blob is not hashed again: what the store gives is what the agent gets.
FetchRules(b) ==
  /\ request[b].at = "counted"
  /\ LET key == RuleKey(request[b].asked.set)
         got == <<"rules", IF Intact(key) THEN key[2] ELSE {<<0, Altered>>}>>
     IN  request' = [request EXCEPT ![b] = IF CanGet(key) THEN [@ EXCEPT !.at = "read", !.rules = got]
                                                          ELSE NoRequest("refused")]
  /\ UNCHANGED <<releases, publish, held, lost, altered, builds>>

\* agentgen.Build.
Assemble(b) ==
  /\ request[b].at = "read"
  /\ LET q == request[b]
         index == releases[q.release].files
         doc == Declared(index)
         views == SeqRange(q.asked.views)
         fits == /\ Loads(index) /\ Resolves(doc, views) /\ RulesFit(q, doc, views)
                 /\ Stages(index, doc, views) /\ q.asked.format \in Formats
     IN  request' = [request EXCEPT ![b] = IF fits THEN [@ EXCEPT !.at = "built", !.archive = Assembled(q, doc, views)]
                                                   ELSE NoRequest("refused")]
  /\ UNCHANGED <<releases, publish, held, lost, altered, builds>>

ArchiveKey(archive) == <<"zip", archive>>

PutArchive(b) ==
  /\ request[b].at = "built"
  /\ LET key == ArchiveKey(request[b].archive)
     IN  held' = held \cup {key} /\ lost' = lost \ {key}
  /\ request' = [request EXCEPT ![b].at = "stored"]
  /\ UNCHANGED <<releases, publish, altered, builds>>

\* Mutant: an id that is there already is taken for the same build.
RecordByIdAlone(b) ==
  /\ request[b].at = "stored"
  /\ LET q == request[b]
         id == Truncated(q.archive.config)
         same == {i \in DOMAIN builds : builds[i].id = id}
     IN  IF same = {}
         THEN /\ builds' = Append(builds, [id |-> id, release |-> q.release, set |-> q.asked.set, archive |-> q.archive])
              /\ request' = [request EXCEPT ![b].at = "created", ![b].row = Len(builds) + 1]
         ELSE /\ request' = [request EXCEPT ![b].at = "created", ![b].row = CHOOSE i \in same : TRUE]
              /\ UNCHANGED builds
  /\ UNCHANGED <<releases, publish, held, lost, altered>>

\* RecordBuild: one INSERT ... ON CONFLICT (build_id) DO NOTHING; the row that is
\* there is the answer when it is the same archive, and the request fails if not.
RecordBuild(b) ==
  /\ request[b].at = "stored"
  /\ LET q == request[b]
         id == Truncated(q.archive.config)
         same == {i \in DOMAIN builds : builds[i].id = id}
     IN  \/ /\ same = {}
            /\ builds' = Append(builds, [id |-> id, release |-> q.release, set |-> q.asked.set, archive |-> q.archive])
            /\ request' = [request EXCEPT ![b].at = "created", ![b].row = Len(builds) + 1]
         \/ \E i \in same :
              /\ request' = IF builds[i].archive = q.archive
                            THEN [request EXCEPT ![b].at = "created", ![b].row = i]
                            ELSE [request EXCEPT ![b] = NoRequest("refused")]
              /\ UNCHANGED builds
  /\ UNCHANGED <<releases, publish, held, lost, altered>>

\* GET /api/builds/{id}/download: what the answer is now.
Download(row) ==
  IF row \notin DOMAIN builds THEN "notFound"
  ELSE LET key == ArchiveKey(builds[row].archive)
       IN  IF ~CanGet(key) THEN "gone" ELSE IF Intact(key) THEN "asBuilt" ELSE Altered

\* The console stops between two steps of a build.
BuildCutOff ==
  /\ request' = [b \in Builders |-> IF request[b].at \in {"releaseRead", "setRead", "counted", "read", "built", "stored"}
                                    THEN NoRequest("refused") ELSE request[b]]
  /\ UNCHANGED <<releases, publish, held, lost, altered, builds>>

BuildStep ==
  \/ \E p \in Publishers : Publish(p) \/ StoreFile(p) \/ RecordRelease(p) \/ PublishDies(p)
  \/ Fault
  \/ \E b \in Builders : \/ BeginBuild(b) \/ ReadSet(b) \/ CountRules(b) \/ FetchRules(b)
                         \/ Assemble(b) \/ PutArchive(b) \/ RecordBuild(b)

ConsoleInit == Init /\ BuildInit
\* What a build can see of the rule library.
LibraryStep ==
  \/ \E i \in Ids : DeleteRule(i)
  \/ \E s \in Sets : \/ \E sel \in Selections : SetSelection(s, sel)
                     \/ \E f \in Freezers : BeginFreeze(f, s)
  \/ \E f \in Freezers : ResolveAndCompile(f) \/ PutBlob(f) \/ RecordFreeze(f)

ConsoleNext == \/ LibraryStep /\ UNCHANGED buildVars
               \/ BuildStep /\ UNCHANGED vars
               \/ Restart /\ BuildCutOff
ConsoleSpec == ConsoleInit /\ [][ConsoleNext]_<<vars, buildVars>>

-----------------------------------------------------------------------------
(* Properties.                                                              *)

\* "A half-published release would be a release whose manifest does not describe it"
\* (runPublish): however publishing is interrupted, every file a recorded release
\* names was stored before, and the release is a folder all of which was verified.
ReleaseIsWhole ==
  \A i \in DOMAIN releases :
    /\ \A path \in DOMAIN releases[i].files : <<"file", releases[i].files[path]>> \in held
    /\ \E name \in DOMAIN Folders : /\ Folders[name].manifest = Folders[name].files
                                    /\ releases[i].files = Folders[name].files

\* An agent can run what its own agent.json says, whatever the blob store lost or
\* changed before it was assembled: the orchestrator and every program of its views
\* are in it with the bytes that were published; it carries rules exactly when a view
\* needs them, never none of them, and agent.json has the hash of those it carries. They
\* are those its set was frozen with, or that blob has changed: nobody hashes it again,
\* and only agent.json's hash beside the set's tells.
AgentIsSelfContained ==
  \A i \in DOMAIN builds :
    LET archive == builds[i].archive
        doc == Declared(releases[builds[i].release].files)
        views == archive.config.views
    IN  /\ views # {} /\ views \subseteq DOMAIN doc.views
        /\ DOMAIN archive.files = doc.always \cup (UNION {doc.views[v].binaries : v \in views})
                                    \cup (UNION {doc.views[v].data : v \in {v \in views : ~doc.views[v].rules}})
        /\ \A path \in DOMAIN archive.files : archive.files[path] = releases[builds[i].release].files[path]
        /\ NeedsRules(doc, views) <=> builds[i].set # NoSet
        /\ builds[i].set # NoSet =>
             /\ archive.rules[2] # {} /\ archive.config.rules = archive.rules
             /\ archive.rules = RuleKey(builds[i].set) \/ RuleKey(builds[i].set) \in altered

\* The analyst who was answered 201 was given the record of the archive of this
\* request, also when a truncated id collides or two ask for the same build at once,
\* and the archive was stored before; it can be downloaded
\* as long as the store keeps it.
AnswerIsTheRecord ==
  /\ \A b \in Builders : request[b].at = "created" =>
       /\ builds[request[b].row].archive = request[b].archive
       /\ ArchiveKey(request[b].archive) \in held
  /\ \A i, j \in DOMAIN builds : builds[i].id = builds[j].id => i = j
  /\ \A i \in DOMAIN builds : Download(i) = "asBuilt" \/ ArchiveKey(builds[i].archive) \in lost \cup altered
=============================================================================
