------------------------------ MODULE JvmProbe ------------------------------
(***************************************************************************)
(* The native java-mem probe (cmd/jvmprobe, internal/jvmattach,            *)
(* internal/jvmtarget, internal/jvmtriage) and the agent it loads          *)
(* (ExtractAgent.java). Scanners attach to JVMs that may hang, exit, refuse *)
(* or be scanned by somebody else at the same time: a listener is opened    *)
(* with a sentinel file and a signal, the agent's jar is staged in the      *)
(* JVM's /tmp under a name every scan of that JVM shares, the agent writes   *)
(* what it captured into a hand-off directory, and the scanner reads that   *)
(* directory after the JVM has answered.                                    *)
(*                                                                         *)
(* A class is its place among the suspects of its JVM, the worst first, and *)
(* what matters of it here is only how its capture goes:                    *)
(* "plain", "fixed" (not retransformable), "hangs" (its retransform never   *)
(* returns), "silent" (no bytecode) or "watched" (a candidate only through   *)
(* the watchlist of the staged configuration).                              *)
(***************************************************************************)
EXTENDS Naturals, FiniteSets, Sequences

CONSTANTS Scanners,       \* probe processes on this host
          Jvms,           \* host process ids, in the order of the process table
          JvmHosts,       \* [processes, euid, asked, incidents]: what Init may find, and
                          \* the bound on hangs, exits, kills, spent clocks and full disks
          MaxCapture      \* CaptureBudget's class cap

\* What a look at a channel reports, and what a look at the maps, the files and
\* the command line of a process does.
ChannelEvidence == {"attach-listener-already-started", "attach-sentinel-present"}
OtherEvidence == {"deleted-mapping", "deleted-fd", "startup-javaagent", "attach-disabled",
                  "dynamic-agent-load-disabled"}

CaptureKinds == {"plain", "fixed", "hangs", "silent", "watched"}

\* A process as it may be found.
Processes ==
  [java : BOOLEAN, readable : BOOLEAN, attachedBefore : BOOLEAN, nspid : BOOLEAN,
   external : SUBSET OtherEvidence, tmpWritable : BOOLEAN, uid : Nat, room : BOOLEAN,
   sentinel : {"none", "cwd", "tmp"}, attachable : BOOLEAN, loads : BOOLEAN, classes : Seq(CaptureKinds)]

ASSUME JvmAssumption ==
  /\ Jvms \subseteq Nat
  /\ JvmHosts \subseteq [processes : [Jvms -> Processes], euid : [Scanners -> Nat],
                         asked : [Scanners -> SUBSET Nat], incidents : Nat]

VARIABLES
  jvmHost,    \* the processes, each scanner's uid and the pids it was asked for
  process,    \* [Jvms -> "up", "hung" or "gone"]
  channel,    \* [Jvms -> the attach socket, who has signalled for it, sentinel and signal]
  jar,        \* [Jvms -> "none", "partial" or "whole"]: the staged agent
  requests,   \* [Jvms -> Seq(Scanners)]: load commands the JVM has not taken up
  agent,      \* [Jvms -> the agentmain that is running, if any]
  handoff,    \* [Scanners -> [Jvms -> the directory and what is in it]]
  prober,     \* [Scanners -> where a scanner is and what it knows]
  incidents

jvmVars == <<jvmHost, process, channel, jar, requests, agent, handoff, prober, incidents>>

Nobody == "nobody"

\* What the agent has written there: of its log nothing, a file without its last line, or
\* all of it. Ghosts: what it owes, and what ended its sweep.
NoHandoff == [owner |-> "none", config |-> FALSE, facts |-> {}, owed |-> {}, log |-> "none", done |-> FALSE,
              ended |-> "no"]

Resting == [by |-> Nobody, left |-> {}, stuck |-> FALSE, spent |-> 0, stopped |-> "no", watching |-> FALSE,
            logged |-> FALSE]

\* Targets are java or jsvc executables whose command line could be read, and
\* of those the ones a pid list names.
Targets(s) ==
  LET found == {j \in Jvms : jvmHost.processes[j].java /\ jvmHost.processes[j].readable}
      named == jvmHost.asked[s]
  IN  IF named = {} THEN found ELSE found \cap named

JvmInit ==
  /\ jvmHost \in JvmHosts
  /\ process = [j \in Jvms |-> "up"]
  /\ channel = [j \in Jvms |-> [socket |-> jvmHost.processes[j].attachedBefore, by |-> {},
                                sentinel |-> "none", quit |-> FALSE]]
  /\ jar = [j \in Jvms |-> "none"]
  /\ requests = [j \in Jvms |-> <<>>]
  /\ agent = [j \in Jvms |-> Resting]
  /\ handoff = [s \in Scanners |-> [j \in Jvms |-> NoHandoff]]
  /\ prober = [s \in Scanners |->
       [pc |-> "sweep", jvm |-> 0, todo |-> {}, late |-> FALSE, reply |-> "none", littered |-> {}, outlived |-> {},
        signals |-> [j \in Jvms |-> {}], attached |-> {}, facts |-> [j \in Jvms |-> {}],
        incomplete |-> {}, status |-> "none", truncated |-> FALSE]]
  /\ incidents = 0

At(s, pc) == prober[s].pc = pc
This(s) == prober[s].jvm
Going(s) == prober[s].pc \notin {"done", "killed"}
There(s) == process[This(s)] # "gone"

(***************************************************************************)
(* run and scanOne, up to the attach                                       *)
(***************************************************************************)

JvmSweep(s) ==
  /\ At(s, "sweep")
  /\ prober' = [prober EXCEPT ![s].todo = Targets(s),
                              ![s].pc = IF Targets(s) = {} THEN "done" ELSE "next",
                              ![s].status = IF Targets(s) = {} THEN "n/a" ELSE @]
  /\ UNCHANGED <<jvmHost, process, channel, jar, requests, agent, handoff, incidents>>

\* The channel is read before this scan touches it, only when the kernel says
\* which number the JVM has in its own namespace, and only in its /tmp.
ChannelSignals(j) ==
  IF process[j] = "gone" \/ ~jvmHost.processes[j].nspid THEN {}
  ELSE (IF channel[j].socket THEN {"attach-listener-already-started"} ELSE {})
         \cup (IF channel[j].sentinel = "tmp" THEN {"attach-sentinel-present"} ELSE {})

JvmTriage(s) ==
  /\ At(s, "next") /\ prober[s].todo # {}
  /\ \E j \in prober[s].todo :
       /\ \A k \in prober[s].todo : j <= k
       /\ prober' = [prober EXCEPT ![s].jvm = j, ![s].todo = @ \ {j}, ![s].pc = "handoff",
                        ![s].signals[j] = ChannelSignals(j)
                          \cup (IF process[j] = "gone" THEN {} ELSE jvmHost.processes[j].external)]
  /\ UNCHANGED <<jvmHost, process, channel, jar, requests, agent, handoff, incidents>>

\* scanOne returns without the agent: the refusal joins the evidence, and the
\* deferred calls remove what this scan put there - through /proc/<pid>/root,
\* which ends with the process. The hand-off is taken down in one step while no agent of
\* this scan is at work in it.
Refused(s) ==
  [prober EXCEPT ![s].pc = "next", ![s].signals[This(s)] = @ \cup {"attach-refused"}]
Unstaged(s) == IF There(s) THEN [jar EXCEPT ![This(s)] = "none"] ELSE jar
Cleared(s) == IF There(s) THEN [handoff EXCEPT ![s][This(s)].owner = "none"] ELSE handoff
Unmarked(s) == IF There(s) THEN [channel EXCEPT ![This(s)].sentinel = "none"] ELSE channel

\* MkdirTemp, and the chown that lets the JVM's user write there. An unreadable
\* status skips the chown. A configuration that cannot be written is left out.
MakeHandoff(s) ==
  LET j == This(s)
      p == jvmHost.processes[j]
      euid == jvmHost.euid[s]
  IN  /\ At(s, "handoff")
      /\ \/ /\ ~There(s) \/ ~p.tmpWritable \/ (p.uid # euid /\ euid # 0)
            /\ prober' = Refused(s)
            /\ UNCHANGED handoff
         \/ /\ There(s) /\ p.tmpWritable /\ (p.uid = euid \/ euid = 0)
            /\ handoff' = [handoff EXCEPT ![s][j] = [NoHandoff EXCEPT !.owner = "theirs", !.config = p.room]]
            /\ prober' = [prober EXCEPT ![s].pc = "attach", ![s].late = FALSE, ![s].reply = "none"]
      /\ UNCHANGED <<jvmHost, process, channel, jar, requests, agent, incidents>>

(***************************************************************************)
(* Attach                                                                  *)
(***************************************************************************)

\* Refuses if the process is gone; skips the sentinel if there is a socket. The
\* sentinel goes to the JVM's working directory, or to its /tmp, and is no use
\* where files do not keep the owner that made them.
BeginAttach(s) ==
  LET j == This(s)
  IN  /\ At(s, "attach")
      /\ \/ /\ ~There(s) \/ (~channel[j].socket /\ jvmHost.processes[j].sentinel = "none")
            /\ prober' = Refused(s) /\ handoff' = Cleared(s) /\ UNCHANGED channel
         \/ /\ There(s) /\ channel[j].socket
            /\ prober' = [prober EXCEPT ![s].pc = "stage"] /\ UNCHANGED <<handoff, channel>>
         \/ /\ There(s) /\ ~channel[j].socket /\ jvmHost.processes[j].sentinel # "none"
            /\ channel' = [channel EXCEPT ![j].sentinel = jvmHost.processes[j].sentinel]
            /\ prober' = [prober EXCEPT ![s].pc = "signal"] /\ UNCHANGED handoff
      /\ UNCHANGED <<jvmHost, process, jar, requests, agent, incidents>>

Signal(s) ==
  LET j == This(s)
  IN  /\ At(s, "signal")
      /\ IF There(s)
           THEN /\ channel' = [channel EXCEPT ![j].quit = TRUE, ![j].by = @ \cup {s}]
                /\ prober' = [prober EXCEPT ![s].pc = "poll"] /\ UNCHANGED handoff
           ELSE /\ channel' = Unmarked(s)
                /\ prober' = Refused(s) /\ handoff' = Cleared(s)
      /\ UNCHANGED <<jvmHost, process, jar, requests, agent, incidents>>

\* Mutant for JvmScanEnds: the loop waits for the socket and nothing else.
PollForever(s) ==
  /\ At(s, "poll") /\ channel[This(s)].socket
  /\ prober' = [prober EXCEPT ![s].pc = "stage"]
  /\ channel' = Unmarked(s)
  /\ UNCHANGED <<jvmHost, process, jar, requests, agent, handoff, incidents>>

\* The sentinel is removed on every way out of the polling loop.
Poll(s) ==
  LET j == This(s)
  IN  /\ At(s, "poll")
      /\ \/ /\ channel[j].socket /\ There(s)
            /\ prober' = [prober EXCEPT ![s].pc = "stage"] /\ UNCHANGED handoff
         \/ /\ ~There(s) \/ prober[s].late
            /\ prober' = Refused(s) /\ handoff' = Cleared(s)
      /\ channel' = Unmarked(s)
      /\ UNCHANGED <<jvmHost, process, jar, requests, agent, incidents>>

\* WriteFile truncates the file before it writes it. Its name is the digest of
\* the jar and the JVM's pid: that of every scan of this JVM.
BeginStaging(s) ==
  /\ At(s, "stage")
  /\ jar' = [jar EXCEPT ![This(s)] = IF There(s) THEN "partial" ELSE @]
  /\ prober' = [prober EXCEPT ![s].pc = "staging"]
  /\ UNCHANGED <<jvmHost, process, channel, requests, agent, handoff, incidents>>

\* The removal is deferred only after the write has succeeded.
EndStaging(s) ==
  LET j == This(s)
      full == ~jvmHost.processes[j].room
  IN  /\ At(s, "staging")
      /\ IF There(s) /\ ~full
           THEN /\ jar' = [jar EXCEPT ![j] = "whole"]
                /\ prober' = [prober EXCEPT ![s].pc = "connect"] /\ UNCHANGED handoff
           ELSE /\ prober' = [Refused(s) EXCEPT ![s].littered = @ \cup (IF There(s) THEN {j} ELSE {})]
                /\ handoff' = Cleared(s) /\ UNCHANGED jar
      /\ UNCHANGED <<jvmHost, process, channel, requests, agent, incidents>>

\* Connects and writes the load command.
Load(s) ==
  LET j == This(s)
  IN  /\ At(s, "connect")
      /\ IF There(s) /\ ~prober[s].late
           THEN /\ requests' = [requests EXCEPT ![j] = Append(@, s)]
                /\ prober' = [prober EXCEPT ![s].pc = "response"] /\ UNCHANGED <<jar, handoff>>
           ELSE /\ prober' = Refused(s) /\ jar' = Unstaged(s) /\ handoff' = Cleared(s) /\ UNCHANGED requests
      /\ UNCHANGED <<jvmHost, process, channel, agent, incidents>>

\* The scan gives up on a JVM that may be at work on its request, or come to it yet.
\* RemoveAll empties a directory and then removes it, and its error is dropped: an agent
\* that makes a file between the two keeps the directory, and goes on writing there.
Outlives(s) ==
  process[This(s)] = "up" /\ (agent[This(s)].by = s \/ \E i \in DOMAIN requests[This(s)] : requests[This(s)][i] = s)
GaveUp(s) == [Refused(s) EXCEPT ![s].outlived = @ \cup (IF Outlives(s) THEN {This(s)} ELSE {})]
Emptied(s) == [handoff EXCEPT ![s][This(s)] = [NoHandoff EXCEPT !.owner = "theirs"]]
ClearedBeside(s) == {Cleared(s)} \cup (IF Outlives(s) THEN {Emptied(s)} ELSE {})

\* Mutant for NothingIsLeftBehind: the jar is removed once it has been loaded.
ReadResponseAndTidy(s) ==
  /\ At(s, "response")
  /\ \/ /\ prober[s].reply = "loaded"
        /\ prober' = [prober EXCEPT ![s].pc = "read"] /\ jar' = Unstaged(s) /\ UNCHANGED handoff
     \/ /\ prober[s].reply = "failed" \/ prober[s].late \/ (~There(s) /\ prober[s].reply = "none")
        /\ prober' = GaveUp(s) /\ handoff' \in ClearedBeside(s) /\ UNCHANGED jar
  /\ UNCHANGED <<jvmHost, process, channel, requests, agent, incidents>>

\* ReadAll until the JVM closes or the deadline: an answer that raced the
\* deadline may be read or not. Only a load that returned 0 counts as attached.
ReadResponse(s) ==
  /\ At(s, "response")
  /\ \/ /\ prober[s].reply = "loaded"
        /\ prober' = [prober EXCEPT ![s].pc = "read"] /\ UNCHANGED handoff
     \/ /\ prober[s].reply = "failed" \/ prober[s].late \/ (~There(s) /\ prober[s].reply = "none")
        /\ prober' = GaveUp(s) /\ handoff' \in ClearedBeside(s)
  /\ jar' = Unstaged(s)
  /\ UNCHANGED <<jvmHost, process, channel, requests, agent, incidents>>

DeadlinePasses(s) ==
  /\ prober[s].pc \in {"poll", "stage", "staging", "connect", "response"} /\ ~prober[s].late
  /\ prober' = [prober EXCEPT ![s].late = TRUE]
  /\ UNCHANGED <<jvmHost, process, channel, jar, requests, agent, handoff, incidents>>

\* Mutant for RanIsEarned: only the agent's own word counts.
StoppedAsSaid(h) == h.log = "incomplete"

\* What readHandoff calls incomplete: a line of errors.log, or no DONE.
StoppedEarly(h) == h.log = "incomplete" \/ ~h.done

\* Mutant for OwnFootprintIsNotEvidence: the channel is looked at last.
ReadHandoffAndChannel(s) ==
  LET j == This(s)
      h == handoff[s][j]
  IN  /\ At(s, "read")
      /\ prober' = [prober EXCEPT ![s].pc = "next", ![s].attached = @ \cup {j},
                      ![s].signals[j] = @ \cup ChannelSignals(j),
                      ![s].facts[j] = IF There(s) THEN h.facts ELSE {},
                      ![s].incomplete = IF ~There(s) \/ StoppedEarly(h) THEN @ \cup {j} ELSE @]
      /\ handoff' = Cleared(s)
      /\ UNCHANGED <<jvmHost, process, channel, jar, requests, agent, incidents>>

\* A process that has exited takes /proc/<pid>/root, and the hand-off, with it.
ReadHandoff(s) ==
  LET j == This(s)
      h == handoff[s][j]
  IN  /\ At(s, "read")
      /\ prober' = [prober EXCEPT ![s].pc = "next", ![s].attached = @ \cup {j},
                      ![s].facts[j] = IF There(s) THEN h.facts ELSE {},
                      ![s].incomplete = IF ~There(s) \/ StoppedEarly(h) THEN @ \cup {j} ELSE @]
      /\ handoff' = Cleared(s)
      /\ UNCHANGED <<jvmHost, process, channel, jar, requests, agent, incidents>>

\* The coverage of run: refusals degrade, none attached fails, and anything
\* incomplete truncates.
Covered(s) ==
  LET missed == Targets(s) \ prober[s].attached
  IN  [status |-> IF prober[s].incomplete = {} /\ missed = Targets(s) THEN "failed"
                  ELSE IF prober[s].incomplete # {} \/ missed # {} THEN "degraded"
                  ELSE "ran",
       truncated |-> prober[s].incomplete # {}]

JvmReport(s) ==
  /\ At(s, "next") /\ prober[s].todo = {}
  /\ prober' = [prober EXCEPT ![s].pc = "done", ![s].status = Covered(s).status,
                              ![s].truncated = Covered(s).truncated]
  /\ UNCHANGED <<jvmHost, process, channel, jar, requests, agent, handoff, incidents>>

(***************************************************************************)
(* The JVM and the agent                                                   *)
(***************************************************************************)

\* A SIGQUIT with a sentinel starts the listener, without one it is a thread dump.
Listen(j) ==
  /\ process[j] = "up" /\ channel[j].quit
  /\ channel' = [channel EXCEPT ![j].quit = FALSE,
       ![j].socket = @ \/ (channel[j].sentinel # "none" /\ jvmHost.processes[j].attachable)]
  /\ UNCHANGED <<jvmHost, process, jar, requests, agent, handoff, prober, incidents>>

\* The candidates, by their rank; watched ones only with the watchlist of a
\* configuration.
Shortlist(j, watching) ==
  LET classes == jvmHost.processes[j].classes
  IN  {c \in DOMAIN classes : classes[c] # "watched" \/ watching}

Answered(s, j, reply) ==
  [prober EXCEPT ![s].reply = IF At(s, "response") /\ This(s) = j THEN reply ELSE @]

\* The JVM takes up one load command at a time. It answers at once if it may
\* not load the agent or cannot open the jar. The watchlist is static: a class
\* loader that has loaded the agent before still has the earlier one.
TakeUp(j) ==
  /\ process[j] = "up" /\ requests[j] # <<>> /\ agent[j].by = Nobody
  /\ LET s == Head(requests[j])
         h == handoff[s][j]
         watching == agent[j].watching \/ (h.config /\ h.owner = "theirs")
         list == Shortlist(j, watching)
     IN  IF jvmHost.processes[j].loads /\ jar[j] = "whole"
           THEN /\ agent' = [agent EXCEPT ![j] = [Resting EXCEPT !.by = s, !.left = list, !.watching = watching]]
                /\ handoff' = [handoff EXCEPT ![s][j].owed =
                                 {c \in list : jvmHost.processes[j].classes[c] # "fixed"}]
                /\ UNCHANGED prober
           ELSE /\ prober' = Answered(s, j, "failed")
                /\ UNCHANGED <<agent, handoff>>
  /\ requests' = [requests EXCEPT ![j] = Tail(@)]
  /\ UNCHANGED <<jvmHost, process, channel, jar, incidents>>

Working(j) == process[j] = "up" /\ agent[j].by # Nobody /\ agent[j].left # {} /\ agent[j].stopped = "no"
Finishing(j) == process[j] = "up" /\ agent[j].by # Nobody /\ (agent[j].left = {} \/ agent[j].stopped # "no")

\* One class of the shortlist: declined; refused by the budget; lost to a
\* timeout, which leaves the only capture thread stuck; without bytecode; or
\* written. A write that fails ends the whole loop.
CaptureClass(j) ==
  LET a == agent[j]
      h == handoff[a.by][j]
  IN  /\ Working(j)
      /\ \E c \in a.left :
           LET kind == jvmHost.processes[j].classes[c]
           IN  /\ \A other \in a.left : c <= other
               /\ CASE kind = "fixed" ->
                         agent' = [agent EXCEPT ![j].left = @ \ {c}] /\ UNCHANGED handoff
                    [] kind # "fixed" /\ a.spent = MaxCapture ->
                         agent' = [agent EXCEPT ![j].stopped = "budget"] /\ UNCHANGED handoff
                    [] kind \in {"plain", "watched"} /\ a.spent # MaxCapture /\ ~a.stuck ->
                         IF h.owner = "theirs" /\ jvmHost.processes[j].room
                           THEN /\ handoff' = [handoff EXCEPT ![a.by][j].facts = @ \cup {c}]
                                /\ agent' = [agent EXCEPT ![j].left = @ \ {c}, ![j].spent = @ + 1]
                           ELSE agent' = [agent EXCEPT ![j].stopped = "threw"] /\ UNCHANGED handoff
                    [] OTHER ->
                         /\ agent' = [agent EXCEPT ![j].left = @ \ {c}, ![j].spent = @ + 1,
                                                   ![j].stuck = @ \/ kind = "hangs"]
                         /\ UNCHANGED handoff
      /\ UNCHANGED <<jvmHost, process, channel, jar, requests, prober, incidents>>

\* The finally block: errors.log, which names the budget that ended the sweep, and then
\* DONE, whatever ended it, each with an error of its own that is dropped. Where there is no
\* room a file may be made and not be written.
WriteLog(j) ==
  LET a == agent[j]
      h == handoff[a.by][j]
      outcomes == IF jvmHost.processes[j].room THEN {IF a.stopped = "budget" THEN "incomplete" ELSE "errors"}
                  ELSE {"none", "cut"}
  IN  /\ Finishing(j) /\ ~a.logged
      /\ agent' = [agent EXCEPT ![j].logged = TRUE]
      /\ \E log \in outcomes : handoff' = IF h.owner = "theirs"
                                         THEN [handoff EXCEPT ![a.by][j].log = log, ![a.by][j].ended = a.stopped]
                                         ELSE handoff
      /\ UNCHANGED <<jvmHost, process, channel, jar, requests, prober, incidents>>

EndAgent(j) ==
  LET a == agent[j]
      h == handoff[a.by][j]
  IN  /\ Finishing(j) /\ a.logged
      /\ \E made \in (IF jvmHost.processes[j].room THEN {TRUE} ELSE BOOLEAN) :
           handoff' = IF h.owner = "theirs" THEN [handoff EXCEPT ![a.by][j].done = made] ELSE handoff
      /\ prober' = Answered(a.by, j, "loaded")
      /\ agent' = [agent EXCEPT ![j] = [Resting EXCEPT !.watching = a.watching]]
      /\ UNCHANGED <<jvmHost, process, channel, jar, requests, incidents>>

(***************************************************************************)
(* What may happen                                                         *)
(***************************************************************************)

Incident == incidents < jvmHost.incidents /\ incidents' = incidents + 1

\* A JVM stops making progress, or exits and takes its connections with it.
JvmFails(j) ==
  /\ Incident /\ process[j] = "up"
  /\ \E how \in {"hung", "gone"} : process' = [process EXCEPT ![j] = how]
  /\ UNCHANGED <<jvmHost, channel, jar, requests, agent, handoff, prober>>

\* The capture budget's clock runs out.
ClockSpent(j) ==
  /\ Incident /\ Working(j)
  /\ agent' = [agent EXCEPT ![j].stopped = "budget"]
  /\ UNCHANGED <<jvmHost, process, channel, jar, requests, handoff, prober>>

\* The JVM's /tmp fills up, or is emptied.
DiskFills(j) ==
  /\ Incident
  /\ jvmHost' = [jvmHost EXCEPT !.processes[j].room = ~@]
  /\ UNCHANGED <<process, channel, jar, requests, agent, handoff, prober>>

\* The driver's own timeout kills a scanner: no deferred call runs.
JvmScanKilled(s) ==
  /\ Incident /\ Going(s) /\ ~At(s, "sweep")
  /\ prober' = [prober EXCEPT ![s].pc = "killed"]
  /\ UNCHANGED <<jvmHost, process, channel, jar, requests, agent, handoff>>

ScannerStep(s) ==
  \/ JvmSweep(s) \/ JvmTriage(s) \/ MakeHandoff(s) \/ BeginAttach(s) \/ Signal(s) \/ Poll(s)
  \/ BeginStaging(s) \/ EndStaging(s) \/ Load(s) \/ ReadResponse(s) \/ ReadHandoff(s) \/ JvmReport(s)

JvmNext ==
  \/ \E s \in Scanners : ScannerStep(s) \/ DeadlinePasses(s) \/ JvmScanKilled(s)
  \/ \E j \in Jvms : Listen(j) \/ TakeUp(j) \/ CaptureClass(j) \/ WriteLog(j) \/ EndAgent(j)
                       \/ JvmFails(j) \/ ClockSpent(j) \/ DiskFills(j)

\* A scanner that can step does, and its clock goes on. Nothing is asked of a JVM.
JvmFairness == \A s \in Scanners : WF_jvmVars(ScannerStep(s)) /\ WF_jvmVars(DeadlinePasses(s))

JvmSpec == JvmInit /\ [][JvmNext]_jvmVars /\ JvmFairness

(***************************************************************************)
(* Properties                                                              *)
(***************************************************************************)

\* The JVMs a scan has got to.
TurnedTo(s) == IF At(s, "sweep") THEN {} ELSE Targets(s) \ prober[s].todo

\* A listener or a sentinel is evidence only of somebody else: no scan reports
\* the channel it opened itself (preAttachChannel). A listener was there before
\* any scan or another scan has signalled for it, a sentinel is another scan's.
OwnFootprintIsNotEvidence ==
  \A s \in Scanners, j \in Jvms :
    /\ "attach-listener-already-started" \in prober[s].signals[j] =>
         jvmHost.processes[j].attachedBefore \/ channel[j].by \ {s} # {}
    /\ "attach-sentinel-present" \in prober[s].signals[j] =>
         \E t \in Scanners \ {s} : j \in TurnedTo(t)

\* Scans that ended on their own leave no jar, no sentinel and no hand-off in
\* the filesystem of a JVM that still runs, however they ended (attach_linux.go:
\* "leave nothing behind"), with two exceptions: a jar whose write failed, which no
\* deferred call removes, and the hand-off of a JVM that was given up while it still owed
\* this scan an agent.
NothingIsLeftBehind ==
  (\A s \in Scanners : prober[s].pc \in {"sweep", "done"}) =>
    \A j \in {i \in Jvms : process[i] # "gone"} :
      /\ channel[j].sentinel = "none"
      /\ jar[j] # "none" => \E s \in Scanners : j \in prober[s].littered
      /\ \A s \in Scanners : handoff[s][j].owner # "none" => j \in prober[s].outlived

\* "ran" is earned: each JVM was entered, its agent came to its end, and the findings
\* rest on everything it wrote; and if its budget ended the sweep, that is untold only
\* because its log could not be written. A JVM that was not entered leaves a refusal
\* among the evidence, never silence.
RanIsEarned ==
  \A s \in Scanners : prober[s].pc = "done" =>
    /\ \A j \in Targets(s) \ prober[s].attached : "attach-refused" \in prober[s].signals[j]
    /\ prober[s].status = "ran" =>
         \A j \in Targets(s) :
           LET h == handoff[s][j]
           IN  /\ j \in prober[s].attached /\ h.done /\ prober[s].facts[j] = h.facts
               /\ h.ended = "budget" => h.log \in {"none", "cut"}
    /\ prober[s].status = "failed" => prober[s].attached = {}

\* A truncated sweep is never reported as a complete one (ExtractAgent.java,
\* CaptureBudget.java): if the probe says "ran", the agent captured every
\* candidate it did not decline.
TruncationIsTold ==
  \A s \in Scanners : (prober[s].pc = "done" /\ prober[s].status = "ran") =>
    \A j \in Targets(s) : handoff[s][j].owed \subseteq prober[s].facts[j]

\* A scan that found a JVM ends, whatever the JVMs do: a hung one costs it a deadline, no
\* more.
JvmScanEnds == \A s \in Scanners : At(s, "next") ~> ~Going(s)
=============================================================================
