----------------------------- MODULE Discovery -----------------------------
(***************************************************************************)
(* Where a scan without a path looks: the mechanisms that propose web       *)
(* roots (internal/discover), the judgement of each proposal, the merging   *)
(* of equal and nested ones, each mechanism's account of itself, and the    *)
(* gate that refuses a scan of nothing (webrootgate.go). A path is the      *)
(* sequence of its components, a relative one headed by ".". With a root,   *)
(* the filesystem mounted there is scanned in place of this host's. Regular *)
(* expressions, XML and the wording of details are left out: a file holds   *)
(* the paths it names.                                                      *)
(***************************************************************************)
EXTENDS Naturals, Sequences, FiniteSets, SequencesExt

CONSTANTS Hosts,        \* [dirs, locked, links, configs, nginx, apache, env, processes, windows]
          Searches,     \* [explicit, disabled, refuse, root]
          Candidates,   \* "apache" | "nginx" -> [fixed: a sequence of files, dropIns: of directories]
          Guesses,      \* "web" | "tomcat" | "appserver" -> a sequence of conventional locations
          Components,   \* what paths are made of
          Deployments,  \* where an application server's deployments are, below its home
          SystemDirs,   \* osDirectories
          MaxReported,  \* maxReportedRejections
          MaxHops,      \* links followed in one path
          MaxComponents \* how many components the resolution of one path meets at most

Up == ".."

\* A configuration, a command line and a table hold sequences of paths.
FilePath == Seq(Components)
FilePaths == Seq(FilePath)

ASSUME HostsAssumption ==
  \A h \in Hosts :
    /\ h.nginx.names \in FilePaths /\ h.apache.names \in FilePaths /\ h.apache.files \in FilePaths /\ h.env \in FilePaths
    /\ h.processes.tomcat \in FilePaths /\ h.processes.servers \in FilePaths
    /\ \A p \in DOMAIN h.links : h.links[p].to \in FilePath
    /\ IsFiniteSet(DOMAIN h.configs) /\ DOMAIN h.configs \subseteq FilePath
    /\ \A p \in DOMAIN h.configs : /\ h.configs[p].names \in FilePaths /\ h.configs[p].hosts \in FilePaths
                                  /\ h.configs[p].contexts \in FilePaths
ASSUME ComponentsAssumption == {".", Up, "webapps", "inetpub", "conf"} \subseteq Components
ASSUME SearchesAssumption == \A s \in Searches : s.explicit \in FilePaths /\ s.root \in FilePath
ASSUME TablesAssumption ==
  /\ \A server \in {"iis", "apache", "nginx"} : /\ Candidates[server].fixed \in FilePaths
                                              /\ Candidates[server].dropIns \in FilePaths
  /\ \A kind \in {"web", "tomcat", "appserver"} : Guesses[kind] \in FilePaths
  /\ Deployments \in FilePaths /\ MaxHops \in Nat /\ MaxComponents \in Nat /\ MaxReported \in Nat

Webapps == <<".", "webapps">>
InetPub == <<"inetpub">>

VARIABLES host, search,
          turn,      \* the mechanism that comes next, or what is done with the proposals
          proposed,  \* [path, mech, source, inside]
          accounts,  \* outcomes: [mech, status, roots, notes]
          consulted, \* ghost: configuration files looked for, by where they are
          judged,    \* how many proposals have been judged
          roots,     \* kept: [path, mech, also, subsumes, inside]
          rejected,  \* [path, mech, reason], the first of those that were refused
          rejectedTotal,
          credit,    \* mechanism -> roots it contributed to
          verdict    \* the gate: "none", "scan", "refused"

discoveryVars == <<host, search, turn, proposed, accounts, consulted, judged, roots, rejected, rejectedTotal, credit, verdict>>

NoCredit == [m \in {} |-> {}]
DiscoveryInit == /\ host \in Hosts /\ search \in Searches /\ turn = "begin" /\ proposed = <<>> /\ accounts = <<>>
                 /\ consulted = {} /\ judged = 0 /\ roots = <<>> /\ rejected = <<>> /\ rejectedTotal = 0
                 /\ credit = NoCredit /\ verdict = "none"

Offline == search.root # <<>>
Refused(mech) == mech \in search.refuse

-----------------------------------------------------------------------------
(* Paths.                                                                   *)

\* filepath.Join, which cleans.
Relative(p) == p # <<>> /\ Head(p) = "."
Joined(done, c) == IF c = "." \/ (c = Up /\ done = <<>>) THEN done
                   ELSE IF c = Up THEN Front(done) ELSE Append(done, c)
Clean(path) ==
  LET upTo[n \in 0 .. Len(path)] == IF n = 0 THEN <<>> ELSE Joined(upTo[n - 1], path[n])
  IN  upTo[Len(path)]
InRoot(p) == IsPrefix(search.root, p)
Below(p) == SubSeq(p, Len(search.root) + 1, Len(p))
IsAncestor(parent, child) == IsStrictPrefix(parent, child)

Exists(h, p) == p = <<>> \/ p \in h.dirs \/ p \in DOMAIN h.configs
Link(h, p) == p \in DOMAIN h.links

\* evalSymlinksUnder: one component, then the next; a link's target starts at its
\* directory or at the root, and nothing leads above that.
Follow(h, root, at) ==
  IF at.left = <<>> \/ at.error # "none" THEN at
  ELSE LET c == Head(at.left)
           next == Append(at.here, c)
       IN  CASE c = Up /\ at.here = root -> IF root = <<>> THEN [at EXCEPT !.left = Tail(@)] ELSE [at EXCEPT !.error = "escapes"]
             [] c = Up /\ at.here # root -> [at EXCEPT !.left = Tail(@), !.here = Front(@)]
             [] c # Up /\ Link(h, next) ->
                  IF at.hops = MaxHops THEN [at EXCEPT !.error = "loop"]
                  ELSE [at EXCEPT !.hops = @ + 1, !.left = h.links[next].to \o Tail(@),
                                  !.here = IF h.links[next].absolute THEN root ELSE @]
             [] c # Up /\ ~Link(h, next) /\ Exists(h, next) -> [at EXCEPT !.left = Tail(@), !.here = next]
             [] OTHER -> [at EXCEPT !.error = IF at.here \in DOMAIN h.configs THEN "notDirectory" ELSE "absent"]
Resolve(h, root, p) ==
  LET walk[n \in 0 .. MaxComponents] ==
        IF n = 0 THEN [left |-> SubSeq(p, Len(root) + 1, Len(p)), here |-> root, hops |-> 0, error |-> "none"]
        ELSE Follow(h, root, walk[n - 1])
  IN  walk[MaxComponents]

\* What the kernel makes of a path from here: links lead where they lead on this host.
Kernel(p) == Resolve(host, <<>>, p)
IsDir(p) == Kernel(p).error = "none" /\ (Kernel(p).here = <<>> \/ Kernel(p).here \in host.dirs)
IsFile(p) == Kernel(p).error = "none" /\ Kernel(p).here \in DOMAIN host.configs
File(p) == host.configs[Kernel(p).here]

\* readConfig: a pipe or a device is never opened; too long a file is read in part.
IsReadable(p) == IsFile(p) /\ File(p).kind = "regular"
Odd(p) == IsDir(p) \/ (IsFile(p) /\ File(p).kind # "regular")

-----------------------------------------------------------------------------
(* Proposals and accounts.                                                  *)

Proposal(path, mech, source, inside) ==
  [path |-> path, mech |-> mech, source |-> source, inside |-> inside]

\* Options.rooted: a path the scanned filesystem names, unless it leads out of it.
Rooted(p) == Clean(search.root \o p)
Escapes(p) == Offline /\ ~InRoot(Rooted(p))
Propose(paths, mech, source) ==
  FlattenSeq([i \in DOMAIN paths |->
    IF Escapes(paths[i]) THEN <<>>
    ELSE IF Offline THEN <<Proposal(Rooted(paths[i]), mech, source, paths[i])>>
    ELSE <<Proposal(IF Relative(paths[i]) THEN paths[i] ELSE Clean(paths[i]), mech, source, <<>>)>>])

\* The loops that go on with what passes a test, in its order.
Passing(items, Test(_)) == FlattenSeq([i \in DOMAIN items |-> IF Test(items[i]) THEN <<items[i]>> ELSE <<>>])

Account(mech, status, notes) == [mech |-> mech, status |-> status, roots |-> 0, notes |-> notes]
Refusal(mech) == Account(mech, "refused", {})
Unavailable(mech) == Account(mech, "unavailable", {})
Tally(mech, found, notes) == Account(mech, IF found = <<>> THEN "attempted" ELSE "succeeded", notes)

Takes(stage, next, found, told, files) ==
  /\ turn = stage /\ turn' = next
  /\ proposed' = proposed \o found /\ accounts' = accounts \o told /\ consulted' = consulted \cup files
  /\ UNCHANGED <<host, search, judged, roots, rejected, rejectedTotal, credit, verdict>>

-----------------------------------------------------------------------------
(* Discover.                                                                *)

Explicit ==
  /\ search.explicit # <<>>
  /\ Takes("begin", "judge",
           [i \in DOMAIN search.explicit |->
              Proposal(search.explicit[i], "explicit", "",
                       IF Offline /\ InRoot(search.explicit[i]) THEN Below(search.explicit[i]) ELSE <<>>)],
           <<Account("explicit", "succeeded", {})>>, {})

Disabled == /\ search.explicit = <<>> /\ search.disabled
            /\ Takes("begin", "judge", <<>>, <<Refusal("discovery")>>, {})

\* iisRoots: of a live Windows host only.
Iis ==
  LET byDefault == IF Refused("iis-default") THEN <<>> ELSE <<Proposal(InetPub, "iis-default", "", <<>>)>>
      configured == IF Refused("iis-config") \/ ~IsReadable(Candidates["iis"].fixed[1]) THEN <<>>
                    ELSE Propose(File(Candidates["iis"].fixed[1]).names, "iis-config", "applicationHost.config")
  IN  /\ search.explicit = <<>> /\ ~search.disabled
      /\ IF Offline \/ ~host.windows
         THEN Takes("begin", "apache", <<>>, <<Unavailable("iis-config")>>, {})
         ELSE Takes("begin", "apache", byDefault \o configured,
                    <<IF Refused("iis-default") THEN Refusal("iis-default") ELSE Account("iis-default", "succeeded", {}),
                      IF Refused("iis-config") THEN Refusal("iis-config")
                      ELSE IF ~IsReadable(Candidates["iis"].fixed[1]) THEN Unavailable("iis-config")
                      ELSE Tally("iis-config", configured, {})>>, {Candidates["iis"].fixed[1]})

\* apacheConfigFiles and nginxConfigFiles, then configPaths: what is in the drop-in
\* directories of this host decides which of the scanned filesystem's are looked for.
DropIns(dir) == SetToSeq({p \in DOMAIN host.configs : p # <<>> /\ Front(p) = dir})
ConfigFiles(server) == Candidates[server].fixed \o FlattenSeq([i \in DOMAIN Candidates[server].dropIns |-> DropIns(Candidates[server].dropIns[i])])
ConfigPaths(server) ==
  FlattenSeq([i \in DOMAIN ConfigFiles(server) |->
    IF Escapes(ConfigFiles(server)[i]) THEN <<>> ELSE <<Rooted(ConfigFiles(server)[i])>>])

\* apacheRoots and nginxConfigRoots.
ConfigTurn(server, mech, stage, next) ==
  LET files == ConfigPaths(server)
      read == Passing(files, IsReadable)
      found == FlattenSeq([i \in DOMAIN read |-> Propose(File(read[i]).names, mech, read[i])])
      notes == {<<"odd", files[i]>> : i \in {i \in DOMAIN files : Odd(files[i])}}
               \cup {<<"truncated", read[i]>> : i \in {i \in DOMAIN read : File(read[i]).long}}
               \cup {<<"escapes", read[i]>> : i \in {i \in DOMAIN read : \E j \in DOMAIN File(read[i]).names : Escapes(File(read[i]).names[j])}}
  IN  IF Refused(mech) THEN Takes(stage, next, <<>>, <<Refusal(mech)>>, {})
      ELSE Takes(stage, next, found, <<IF read = <<>> THEN Account(mech, "unavailable", notes) ELSE Tally(mech, found, notes)>>, ToSet(files))
ApacheConfig == ConfigTurn("apache", "apache-config", "apache", "apacheDump")
NginxConfig == ConfigTurn("nginx", "nginx-config", "nginx", "nginxDump")

\* apacheDumpRoots: -S names a document root, and files that are read in their turn.
ApacheDump ==
  LET read == Passing(host.apache.files, IsReadable)
      main == Propose(host.apache.names, "apache-dump", "-S")
      found == main \o FlattenSeq([i \in DOMAIN read |-> Propose(File(read[i]).names, "apache-dump", read[i])])
      mech == "apache-dump"
  IN  CASE Refused(mech) -> Takes("apacheDump", "nginx", <<>>, <<Refusal(mech)>>, {})
        [] ~Refused(mech) /\ (Offline \/ ~host.apache.installed) -> Takes("apacheDump", "nginx", <<>>, <<Unavailable(mech)>>, {})
        [] OTHER -> Takes("apacheDump", "nginx", found, <<Tally(mech, found, {<<"odd", p>> : p \in {p \in ToSet(host.apache.files) : Odd(p)}}
                                                             \cup {<<"truncated", p>> : p \in {p \in ToSet(read) : File(p).long}})>>, {})

\* nginxDumpRoots: -T prints the effective configuration, or a part of it before it fails.
NginxDump ==
  LET found == Propose(host.nginx.names, "nginx-dump", "-T")
      mech == "nginx-dump"
  IN  CASE Refused(mech) -> Takes("nginxDump", "tomcat", <<>>, <<Refusal(mech)>>, {})
        [] ~Refused(mech) /\ (Offline \/ ~host.nginx.installed) -> Takes("nginxDump", "tomcat", <<>>, <<Unavailable(mech)>>, {})
        [] OTHER -> Takes("nginxDump", "tomcat", found, <<Tally(mech, found, {})>>, {})

-----------------------------------------------------------------------------
(* Java servers.                                                            *)

\* A base: [path, mech, source, inside, conf].
LiveBases(mech, paths) == [i \in DOMAIN paths |-> [path |-> paths[i], mech |-> mech, source |-> mech, inside |-> <<>>, conf |-> Append(paths[i], "conf")]]
LiveAccount(mech, found, why) ==
  IF Refused(mech) THEN Refusal(mech) ELSE IF Offline THEN Unavailable(mech)
  ELSE IF found = <<>> THEN Account(mech, why, {}) ELSE Account(mech, "succeeded", {})
EnvBases == IF Refused("tomcat-env") \/ Offline THEN <<>> ELSE LiveBases("tomcat-env", host.env)
ProcessBases == IF Refused("tomcat-process") \/ Offline THEN <<>> ELSE LiveBases("tomcat-process", host.processes.tomcat)

\* expandLocation, and what confirms that an instance is there.
Locations(kind) ==
  FlattenSeq([i \in DOMAIN Guesses[kind] |->
    LET mapped == Rooted(Guesses[kind][i])
    IN  IF ~Offline THEN <<[path |-> mapped, inside |-> <<>>]>>
        ELSE IF InRoot(mapped) THEN <<[path |-> mapped, inside |-> Below(mapped)]>> ELSE <<>>])
ConfDir(p) == IF Offline /\ Resolve(host, search.root, Append(p, "conf")).error = "none" THEN Resolve(host, search.root, Append(p, "conf")).here
              ELSE Append(p, "conf")
Confirmed(l) == IsDir(l.path) /\ IsReadable(Append(ConfDir(l.path), "server.xml"))
ConventionBases ==
  IF Refused("tomcat-convention") THEN <<>>
  ELSE LET there == Passing(Locations("tomcat"), Confirmed)
       IN  [i \in DOMAIN there |-> [path |-> there[i].path, mech |-> "tomcat-convention", source |-> "convention",
                                    inside |-> there[i].inside, conf |-> ConfDir(there[i].path)]]
Unconfirmed(kind, confirmed) == {<<"unconfirmed", l.path>> : l \in {l \in ToSet(Locations(kind)) \ confirmed : IsDir(l.path)}}

NotChecked == {<<"notChecked", <<>>>>}

\* rootsForCatalinaBaseUnder's place: absolute names are the scanned host's, others are
\* below the base.
Placed(b, name, source) ==
  IF ~Relative(name) THEN Propose(<<name>>, b.mech, source)
  ELSE LET p == Clean(b.path \o name)
       IN  IF Offline /\ ~InRoot(p) THEN <<>>
           ELSE <<Proposal(p, b.mech, source, IF Offline THEN Clean(b.inside \o name) ELSE <<>>)>>
ServerXml(b) == Append(b.conf, "server.xml")
Parses(b) == IsReadable(ServerXml(b)) /\ ~File(ServerXml(b)).malformed
BaseRoots(b) ==
  IF ~Parses(b) THEN Placed(b, Webapps, b.source)
  ELSE LET xml == File(ServerXml(b))
           hostDirs == IF xml.hosts = <<>> THEN <<Webapps>> ELSE xml.hosts
           all == hostDirs \o xml.contexts
       IN  FlattenSeq([i \in DOMAIN all |-> Placed(b, all[i], ServerXml(b))])

Tomcat ==
  LET bases == EnvBases \o ProcessBases \o ConventionBases
      malformed == {<<"malformed", ServerXml(bases[i])>> : i \in {i \in DOMAIN bases : IsReadable(ServerXml(bases[i])) /\ ~Parses(bases[i])}}
  IN  Takes("tomcat", "appserver", FlattenSeq([i \in DOMAIN bases |-> BaseRoots(bases[i])]),
            <<LiveAccount("tomcat-env", EnvBases, "unavailable"),
              LiveAccount("tomcat-process", ProcessBases, IF host.processes.visible THEN "attempted" ELSE "unavailable"),
              IF Refused("tomcat-convention") THEN Refusal("tomcat-convention")
              ELSE Tally("tomcat-convention", ConventionBases, NotChecked \cup Unconfirmed("tomcat", {l \in ToSet(Locations("tomcat")) : Confirmed(l)})),
              IF bases = <<>> THEN Unavailable("tomcat-server-xml")
              ELSE Account("tomcat-server-xml", IF malformed # {} THEN "attempted" ELSE "succeeded", malformed)>>,
            {ServerXml(bases[i]) : i \in DOMAIN bases})

\* deploymentDirs: a home is never proposed, only the deployments that are there.
DeploymentDirs(base) == Passing([i \in DOMAIN Deployments |-> base \o Deployments[i]], IsDir)
Appserver ==
  LET homes == IF Refused("appserver-process") \/ Offline THEN <<>> ELSE host.processes.servers
      found == FlattenSeq([i \in DOMAIN homes |-> DeploymentDirs(homes[i])])
      unknown == {<<"unrecognised", homes[i]>> : i \in {i \in DOMAIN homes : IsDir(homes[i]) /\ DeploymentDirs(homes[i]) = <<>>}}
  IN  Takes("appserver", "appserverConvention",
            [i \in DOMAIN found |-> Proposal(found[i], "appserver-process", "pid", <<>>)],
            <<IF Refused("appserver-process") THEN Refusal("appserver-process")
              ELSE IF Offline \/ ~host.processes.visible THEN Unavailable("appserver-process")
              ELSE Tally("appserver-process", found, unknown)>>, {})

HasDeployments(l) == IsDir(l.path) /\ DeploymentDirs(l.path) # <<>>
AppserverConvention ==
  LET mech == "appserver-convention"
      there == Passing(Locations("appserver"), HasDeployments)
      found == FlattenSeq([i \in DOMAIN there |-> DeploymentDirs(there[i].path)])
  IN  IF Refused(mech) THEN Takes("appserverConvention", "convention", <<>>, <<Refusal(mech)>>, {})
      ELSE Takes("appserverConvention", "convention",
                 [i \in DOMAIN found |-> Proposal(found[i], mech, "convention", IF Offline THEN Below(found[i]) ELSE <<>>)],
                 <<Tally(mech, found, NotChecked \cup Unconfirmed("appserver", ToSet(there)))>>, {})

Convention ==
  IF Refused("convention") THEN Takes("convention", "judge", <<>>, <<Refusal("convention")>>, {})
  ELSE Takes("convention", "judge", Propose(Guesses["web"], "convention", ""), <<Account("convention", "attempted", {})>>, {})

-----------------------------------------------------------------------------
(* What becomes of the proposals: assembleUnder.                            *)

\* containmentReason and containmentReasonUnder, of a path with its links resolved.
Contained(root, p) == p # root /\ SubSeq(p, Len(root) + 1, Len(p)) \notin SystemDirs

\* Mutant: what a path is called says how wide it is.
JudgeByName(p) ==
  LET under == p.mech # "explicit" /\ Offline /\ InRoot(p.path)
      at == IF under THEN Resolve(host, search.root, p.path) ELSE Kernel(p.path)
  IN  IF p.mech # "explicit" /\ Relative(p.path) THEN "notAbsolute"
      ELSE IF at.error = "absent" THEN "absent"
      ELSE IF at.error # "none" THEN "unresolved"
      ELSE IF at.here \in DOMAIN host.configs THEN "notDirectory"
      ELSE IF p.mech = "explicit" THEN (IF at.here \in host.locked THEN "unreadable" ELSE "none")
      ELSE IF Contained(IF under THEN search.root ELSE <<>>, p.path) THEN "none" ELSE "contained"

\* validateRootUnder: a path in the mounted filesystem is resolved there, another by the
\* kernel; the operator's own is only asked to be a directory that can be listed.
Judge(p) ==
  LET under == p.mech # "explicit" /\ Offline /\ InRoot(p.path)
      at == IF under THEN Resolve(host, search.root, p.path) ELSE Kernel(p.path)
  IN  IF p.mech # "explicit" /\ Relative(p.path) THEN "notAbsolute"
      ELSE IF at.error = "absent" THEN "absent"
      ELSE IF at.error # "none" THEN "unresolved"
      ELSE IF at.here \in DOMAIN host.configs THEN "notDirectory"
      ELSE IF p.mech = "explicit" THEN (IF at.here \in host.locked THEN "unreadable" ELSE "none")
      ELSE IF Contained(IF under THEN search.root ELSE <<>>, at.here) THEN "none" ELSE "contained"

\* silentMiss: a guess that is not there says nothing about the host.
Conventions == {"convention", "tomcat-convention", "appserver-convention"}
SilentMiss(p) == p.mech \in Conventions /\ Judge(p) \in {"absent", "notAbsolute"}

Specificity(mech) == IF mech = "explicit" THEN 3 ELSE IF mech \in Conventions \cup {"iis-default"} THEN 1 ELSE 2

\* Mutant: who else had it is only who else had the weaker one.
MergeForgetting(kept, other) ==
  LET strong == IF Specificity(other.mech) > Specificity(kept.mech) THEN other ELSE kept
      weak == IF strong = other THEN kept ELSE other
  IN  [strong EXCEPT !.also = @ \cup weak.also]

\* mergeSamePath: the stronger of two accounts of one directory, and who else had it.
MergeSamePath(kept, other) ==
  LET strong == IF Specificity(other.mech) > Specificity(kept.mech) THEN other ELSE kept
      weak == IF strong = other THEN kept ELSE other
  IN  [strong EXCEPT !.also = @ \cup {weak.mech} \cup weak.also]

\* The first two steps of assembleUnder, on one proposal: every refusal is counted, and
\* as many are kept as a report may show.
Weigh ==
  LET p == proposed[judged + 1]
      reason == Judge(p)
      refused == reason # "none" /\ ~SilentMiss(p)
      new == [path |-> p.path, mech |-> p.mech, also |-> {}, subsumes |-> {}, inside |-> p.inside]
  IN  /\ turn = "judge" /\ judged < Len(proposed) /\ judged' = judged + 1
      /\ rejectedTotal' = IF refused THEN rejectedTotal + 1 ELSE rejectedTotal
      /\ rejected' = IF refused /\ Len(rejected) < MaxReported
                     THEN Append(rejected, [path |-> p.path, mech |-> p.mech, reason |-> reason]) ELSE rejected
      /\ roots' = IF reason # "none" THEN roots
                  ELSE IF \E i \in DOMAIN roots : roots[i].path = p.path
                  THEN [i \in DOMAIN roots |-> IF roots[i].path = p.path THEN MergeSamePath(roots[i], new) ELSE roots[i]]
                  ELSE Append(roots, new)
      /\ UNCHANGED <<host, search, turn, proposed, accounts, consulted, credit, verdict>>

\* Mutant: only what was found before may enclose.
EnclosingBefore(i) == IF \E j \in 1 .. i - 1 : IsAncestor(roots[j].path, roots[i].path)
                      THEN CHOOSE j \in 1 .. i - 1 : IsAncestor(roots[j].path, roots[i].path) ELSE 0
\* enclosingIndex: the first that encloses.
Enclosing(i) == IF \E j \in DOMAIN roots : IsAncestor(roots[j].path, roots[i].path)
                THEN CHOOSE j \in DOMAIN roots : /\ IsAncestor(roots[j].path, roots[i].path)
                                                 /\ \A k \in 1 .. j - 1 : ~IsAncestor(roots[k].path, roots[i].path)
                ELSE 0

\* The third step: a root in another is not scanned again. What the other is said to
\* hold goes to the list, and the report has it as it was when its turn came.
Nest ==
  LET nested == {i \in DOMAIN roots : Enclosing(i) # 0}
      lead(i) == IF i \in nested THEN roots[Enclosing(i)].path ELSE roots[i].path
      mechs(i) == {roots[i].mech} \cup roots[i].also
  IN  /\ turn = "judge" /\ judged = Len(proposed) /\ turn' = "reconcile"
      /\ roots' = FlattenSeq([i \in DOMAIN roots |->
                     IF i \in nested THEN <<>>
                     ELSE <<[roots[i] EXCEPT !.subsumes =
                               {roots[j].path : j \in {j \in nested : j < i /\ Enclosing(j) = i}}]>>])
      /\ credit' = [m \in UNION {mechs(i) : i \in DOMAIN roots} |->
                      {lead(i) : i \in {i \in DOMAIN roots : m \in mechs(i)}}]
      /\ UNCHANGED <<host, search, proposed, accounts, consulted, judged, rejected, rejectedTotal, verdict>>

\* The fourth: a mechanism has succeeded if something it proposed is scanned.
Reconcile ==
  /\ turn = "reconcile" /\ turn' = "gate"
  /\ accounts' = [i \in DOMAIN accounts |->
       LET a == accounts[i]
           n == IF a.mech \in DOMAIN credit THEN Cardinality(credit[a.mech]) ELSE 0
       IN  [a EXCEPT !.roots = n,
                     !.status = IF n > 0 /\ a.status # "refused" THEN "succeeded"
                                ELSE IF a.status = "succeeded" THEN "attempted" ELSE a.status,
                     !.notes = IF n = 0 /\ a.status = "succeeded" /\ a.notes = {} THEN {<<"allRejected", <<>>>>} ELSE a.notes]]
  /\ UNCHANGED <<host, search, proposed, consulted, judged, roots, rejected, rejectedTotal, credit, verdict>>

\* webrootGate: a scan of nothing is a failure, and says which.
Gate ==
  /\ turn = "gate" /\ turn' = "end"
  /\ verdict' = CASE roots # <<>> -> "scan"
                  [] roots = <<>> /\ search.explicit # <<>> -> "noneExist"
                  [] roots = <<>> /\ search.explicit = <<>> /\ search.disabled -> "disabled"
                  [] roots = <<>> /\ search.explicit = <<>> /\ ~search.disabled /\ rejected # <<>> -> "allRejected"
                  [] OTHER -> "nothingFound"
  /\ UNCHANGED <<host, search, proposed, accounts, consulted, judged, roots, rejected, rejectedTotal, credit>>

DiscoveryNext ==
  \/ Explicit \/ Disabled \/ Iis \/ ApacheConfig \/ ApacheDump \/ NginxConfig \/ NginxDump
  \/ Tomcat \/ Appserver \/ AppserverConvention \/ Convention \/ Weigh \/ Nest \/ Reconcile \/ Gate

DiscoverySpec == DiscoveryInit /\ [][DiscoveryNext]_discoveryVars

-----------------------------------------------------------------------------
Ended == turn = "end"
Covered(p) == \E i \in DOMAIN roots : IsPrefix(roots[i].path, p)

Refusals == {k \in DOMAIN proposed : Judge(proposed[k]) # "none" /\ ~SilentMiss(proposed[k])}
OnTheList(p) == \E i \in DOMAIN rejected : rejected[i] = [path |-> p.path, mech |-> p.mech, reason |-> Judge(p)]

\* No proposal is lost and none is scanned twice: each is under exactly one root, or a guess
\* at a place that is not there, or refused and counted. A refusal is on the list with its
\* reason, unless the list is full and the total says that there were more.
EveryProposalIsAnswered ==
  Ended =>
    /\ \A i, j \in DOMAIN roots : i # j => ~IsPrefix(roots[i].path, roots[j].path)
    /\ \A k \in DOMAIN proposed : Judge(proposed[k]) = "none" => Covered(proposed[k].path)
    /\ rejectedTotal = Cardinality(Refusals)
    /\ \A k \in Refusals : OnTheList(proposed[k]) \/ (Len(rejected) = MaxReported /\ MaxReported < rejectedTotal)

Usable == {k \in DOMAIN proposed : Judge(proposed[k]) = "none"}
By(mech) == {proposed[k].path : k \in {k \in Usable : proposed[k].mech = mech}}
HoldsFound(mech) == {i \in DOMAIN roots : \E p \in By(mech) : IsPrefix(roots[i].path, p)}
\* A place in a place in a place: the middle one is credited, and is not a root itself.
Deep(p) == \E j, k \in Usable : IsAncestor(proposed[j].path, proposed[k].path) /\ IsAncestor(proposed[k].path, p)

\* A mechanism is said to have found what it did, and no other is: a root names all that
\* proposed it; what a mechanism proposed and is scanned has an account that says so, with
\* as many roots as hold what it found; and one whose proposals all fell did not succeed.
\* The count is too high only where accepted places lie three deep in each other.
MechanismsAreCredited ==
  Ended =>
    /\ \A i \in DOMAIN roots :
         {roots[i].mech} \cup roots[i].also = {proposed[k].mech : k \in {k \in Usable : proposed[k].path = roots[i].path}}
    /\ \A k \in Usable : \E a \in DOMAIN accounts : accounts[a].mech = proposed[k].mech
    /\ \A a \in DOMAIN accounts :
         LET mech == accounts[a].mech
             found == Cardinality(HoldsFound(mech))
         IN  /\ accounts[a].status = "succeeded" <=> By(mech) # {}
             /\ found <= accounts[a].roots /\ accounts[a].roots <= Cardinality(By(mech))
             /\ (\A p \in By(mech) : ~Deep(p)) => accounts[a].roots = found

\* Whatever a configuration, a command line or a link says, discovery does not accept a
\* filesystem, or a system directory, and with a root nothing outside it: as the path is
\* named, and as it leads in the filesystem that is scanned. A root is handed on as it is
\* named, so this says what was judged and not where the kernel takes the walk of an image
\* in which an absolute link lies on the way.
DiscoveryIsConfined ==
  Ended =>
    \A i \in DOMAIN roots : roots[i].mech # "explicit" =>
      /\ Offline => InRoot(roots[i].path)
      /\ LET at == Resolve(host, search.root, roots[i].path)
         IN  at.error = "none" /\ InRoot(at.here) /\ Below(at.here) # <<>> /\ Below(at.here) \notin SystemDirs
=============================================================================
