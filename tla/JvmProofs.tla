----------------------------- MODULE JvmProofs -----------------------------
(***************************************************************************)
(* What a scan of a host's JVMs may say, and what it leaves behind, for any *)
(* number of scanners and JVMs, whichever of them hang, exit or are killed; *)
(* and what may be left unsaid of a captured class.                         *)
(***************************************************************************)
EXTENDS JvmProbe, JvmEvidence, TLAPS

Pcs == {"sweep", "next", "handoff", "attach", "signal", "poll", "stage", "staging", "connect",
        "response", "read", "done", "killed"}

\* A scan has a JVM in hand.
InHand == Pcs \ {"sweep", "next", "done", "killed"}

Channels == [socket : BOOLEAN, by : SUBSET Scanners, sentinel : {"none", "cwd", "tmp"}, quit : BOOLEAN]

Agents == [by : Scanners \cup {Nobody}, left : SUBSET Nat, stuck : BOOLEAN, spent : Nat,
           stopped : {"no", "budget", "threw"}, watching : BOOLEAN, logged : BOOLEAN]

Handoffs == [owner : {"none", "theirs"}, config : BOOLEAN, facts : SUBSET Nat, owed : SUBSET Nat,
             log : {"none", "cut", "errors", "incomplete"}, done : BOOLEAN, ended : {"no", "budget", "threw"}]

Evidence == ChannelEvidence \cup OtherEvidence \cup {"attach-refused"}

Statuses == {"none", "n/a", "failed", "degraded", "ran"}

Probers ==
  [pc : Pcs, jvm : Nat, todo : SUBSET Jvms, late : BOOLEAN, reply : {"none", "loaded", "failed"},
   littered : SUBSET Jvms, outlived : SUBSET Jvms, signals : [Jvms -> SUBSET Evidence], attached : SUBSET Jvms,
   facts : [Jvms -> SUBSET Nat], incomplete : SUBSET Jvms, status : Statuses, truncated : BOOLEAN]

JvmTypeOK ==
  /\ jvmHost \in [processes : [Jvms -> Processes], euid : [Scanners -> Nat],
                  asked : [Scanners -> SUBSET Nat], incidents : Nat]
  /\ process \in [Jvms -> {"up", "hung", "gone"}]
  /\ channel \in [Jvms -> Channels]
  /\ jar \in [Jvms -> {"none", "partial", "whole"}]
  /\ requests \in [Jvms -> Seq(Scanners)]
  /\ agent \in [Jvms -> Agents]
  /\ handoff \in [Scanners -> [Jvms -> Handoffs]]
  /\ prober \in [Scanners -> Probers]
  /\ incidents \in Nat

-----------------------------------------------------------------------------
(* The inductive invariant.                                                 *)

\* A scan takes up its targets one by one; a JVM that it has in hand or has yet to
\* take up is not among those it has been in.
PlaceIsSound(s) ==
  /\ prober[s].todo \subseteq Targets(s)
  /\ prober[s].incomplete \subseteq prober[s].attached
  /\ prober[s].attached \subseteq TurnedTo(s)
  /\ prober[s].pc \in InHand => This(s) \in TurnedTo(s) \ prober[s].attached
  /\ At(s, "done") => prober[s].todo = {}
  /\ ~At(s, "done") => prober[s].status = "none"

\* A JVM that a scan has left without having been in it has refused.
RefusalsAreTold(s) ==
  \A j \in TurnedTo(s) \ prober[s].attached :
    \/ "attach-refused" \in prober[s].signals[j]
    \/ prober[s].pc \in InHand \cup {"killed"} /\ This(s) = j

\* A log says that the budget ended the sweep, or could not be written.
ToldOrLost(h) == h.ended = "budget" => h.log # "errors"

\* What was read from an agent that said it was done is what is in the hand-off,
\* for good: nobody writes there any more.
CapturesAreKept(s) ==
  \A j \in Jvms :
    LET h == handoff[s][j]
    IN  /\ ToldOrLost(h)
        /\ j \in prober[s].attached \ prober[s].incomplete =>
             h.owner = "none" /\ h.done /\ h.log # "incomplete" /\ prober[s].facts[j] = h.facts

StatusIsEarned(s) ==
  /\ prober[s].status = "ran" => Targets(s) \subseteq prober[s].attached \ prober[s].incomplete
  /\ prober[s].status = "failed" => prober[s].attached = {}

\* A channel is in use because it was before, or for a scan that has got to it.
ChannelsAreAccountedFor ==
  \A j \in Jvms :
    /\ \A s \in channel[j].by : j \in TurnedTo(s)
    /\ channel[j].quit => channel[j].by # {}
    /\ channel[j].socket => jvmHost.processes[j].attachedBefore \/ channel[j].by # {}
    /\ channel[j].sentinel # "none" => \E s \in Scanners : j \in TurnedTo(s)

\* What is in the filesystem of a JVM that runs belongs to a scan that will remove
\* it, or was killed and cannot; or is a jar that could not be written, or a hand-off
\* given up under an agent.
Holds(s, j, places) == This(s) = j /\ prober[s].pc \in places \cup {"killed"}

LeftoversHaveOwners ==
  \A j \in Jvms : process[j] # "gone" =>
    /\ channel[j].sentinel # "none" => \E s \in Scanners : Holds(s, j, {"signal", "poll"})
    /\ jar[j] # "none" => \E s \in Scanners :
         j \in prober[s].littered \/ Holds(s, j, {"staging", "connect", "response"})
    /\ \A s \in Scanners : handoff[s][j].owner # "none" =>
         j \in prober[s].outlived \/ Holds(s, j, InHand \ {"handoff"})

JvmInv ==
  /\ JvmTypeOK
  /\ \A s \in Scanners : PlaceIsSound(s) /\ RefusalsAreTold(s) /\ CapturesAreKept(s) /\ StatusIsEarned(s)
  /\ ChannelsAreAccountedFor
  /\ OwnFootprintIsNotEvidence
  /\ LeftoversHaveOwners

-----------------------------------------------------------------------------
(* The records, and what an update leaves of them.                          *)

\* What most steps of a scan leave alone.
Same(q, r) ==
  /\ q.jvm = r.jvm /\ q.todo = r.todo /\ q.attached = r.attached /\ q.incomplete = r.incomplete
  /\ q.facts = r.facts /\ q.status = r.status

LEMMA OnlyPlace ==
  ASSUME NEW r \in Probers, NEW p \in Pcs, NEW q, q = [r EXCEPT !.pc = p]
  PROVE  q \in Probers /\ Same(q, r) /\ q.pc = p /\ q.signals = r.signals /\ q.littered = r.littered
         /\ q.outlived = r.outlived
  BY DEF Probers, Same

LEMMA OnlyReply ==
  ASSUME NEW r \in Probers, NEW v \in {"none", "loaded", "failed"}, NEW q, q = [r EXCEPT !.reply = v]
  PROVE  q \in Probers /\ Same(q, r) /\ q.pc = r.pc /\ q.signals = r.signals /\ q.littered = r.littered
         /\ q.outlived = r.outlived
  BY DEF Probers, Same

LEMMA OnlyLate ==
  ASSUME NEW r \in Probers, NEW q, q = [r EXCEPT !.late = TRUE]
  PROVE  q \in Probers /\ Same(q, r) /\ q.pc = r.pc /\ q.signals = r.signals /\ q.littered = r.littered
         /\ q.outlived = r.outlived
  BY DEF Probers, Same

LEMMA OnlyLittered ==
  ASSUME NEW r \in Probers, NEW left \in SUBSET Jvms, NEW q, q = [r EXCEPT !.littered = left]
  PROVE  q \in Probers /\ Same(q, r) /\ q.pc = r.pc /\ q.signals = r.signals /\ q.littered = left
         /\ q.outlived = r.outlived
  BY DEF Probers, Same

LEMMA OnlyOutlived ==
  ASSUME NEW r \in Probers, NEW left \in SUBSET Jvms, NEW q, q = [r EXCEPT !.outlived = left]
  PROVE  q \in Probers /\ Same(q, r) /\ q.pc = r.pc /\ q.signals = r.signals /\ q.littered = r.littered
         /\ q.outlived = left
  BY DEF Probers, Same

LEMMA HandoffDisowned ==
  ASSUME NEW h \in Handoffs, NEW q, q = [h EXCEPT !.owner = "none"]
  PROVE  q \in Handoffs /\ q.owner = "none" /\ q.done = h.done /\ q.log = h.log /\ q.facts = h.facts
         /\ q.ended = h.ended
  BY DEF Handoffs

LEMMA HandoffFacts ==
  ASSUME NEW h \in Handoffs, NEW w \in SUBSET Nat, NEW q, q = [h EXCEPT !.facts = w]
  PROVE  q \in Handoffs /\ q.owner = h.owner /\ q.done = h.done /\ q.log = h.log /\ q.ended = h.ended
  BY DEF Handoffs

LEMMA FreshRecord ==
  ASSUME NEW b \in BOOLEAN, NEW none \in SUBSET Nat, NEW q,
         q = [owner |-> "theirs", config |-> b, facts |-> none, owed |-> none, log |-> "none", done |-> FALSE,
              ended |-> "no"]
  PROVE  q \in Handoffs /\ q.owner = "theirs" /\ ToldOrLost(q)
<1>1. q \in Handoffs
  BY DEF Handoffs
<1> QED  BY <1>1 DEF ToldOrLost

LEMMA FreshHandoff ==
  ASSUME NEW b \in BOOLEAN
  PROVE  LET q == [NoHandoff EXCEPT !.owner = "theirs", !.config = b]
         IN  q \in Handoffs /\ q.owner = "theirs" /\ ToldOrLost(q)
<1>1. PICK q : q = [NoHandoff EXCEPT !.owner = "theirs", !.config = b]
  OBVIOUS
<1>2. q = [owner |-> "theirs", config |-> b, facts |-> {}, owed |-> {}, log |-> "none", done |-> FALSE,
           ended |-> "no"]
  BY <1>1 DEF NoHandoff
<1>3. q \in Handoffs /\ q.owner = "theirs" /\ ToldOrLost(q)
  BY <1>2, FreshRecord
<1> QED  BY <1>1, <1>3

LEMMA EmptyHandoff ==
  LET q == [NoHandoff EXCEPT !.owner = "theirs"]
  IN  q \in Handoffs /\ ToldOrLost(q)
<1>1. PICK q : q = [NoHandoff EXCEPT !.owner = "theirs"]
  OBVIOUS
<1>2. q = [owner |-> "theirs", config |-> FALSE, facts |-> {}, owed |-> {}, log |-> "none", done |-> FALSE,
           ended |-> "no"]
  BY <1>1 DEF NoHandoff
<1>3. q \in Handoffs /\ ToldOrLost(q)
  BY <1>2, FreshRecord
<1> QED  BY <1>1, <1>3

LEMMA ChannelSentinel ==
  ASSUME NEW c \in Channels, NEW w \in {"none", "cwd", "tmp"}, NEW q, q = [c EXCEPT !.sentinel = w]
  PROVE  q \in Channels /\ q.sentinel = w /\ q.by = c.by /\ q.quit = c.quit /\ q.socket = c.socket
  BY DEF Channels

LEMMA AgentRecords ==
  ASSUME NEW a \in Agents, NEW left \in SUBSET Nat, NEW n \in Nat, NEW b \in BOOLEAN,
         NEW why \in {"no", "budget", "threw"}
  PROVE  /\ [a EXCEPT !.left = left] \in Agents
         /\ [a EXCEPT !.stopped = why] \in Agents
         /\ [a EXCEPT !.left = left, !.spent = n] \in Agents
         /\ [a EXCEPT !.left = left, !.spent = n, !.stuck = b] \in Agents
         /\ [a EXCEPT !.logged = TRUE] \in Agents
<1>1. [a EXCEPT !.left = left] \in Agents
  BY DEF Agents
<1>2. [a EXCEPT !.stopped = why] \in Agents
  BY DEF Agents
<1>3. [a EXCEPT !.left = left, !.spent = n] \in Agents
  BY DEF Agents
<1>4. [a EXCEPT !.left = left, !.spent = n, !.stuck = b] \in Agents
  BY DEF Agents
<1>5. [a EXCEPT !.logged = TRUE] \in Agents
  BY DEF Agents
<1> QED  BY <1>1, <1>2, <1>3, <1>4, <1>5

LEMMA StartedAgent ==
  ASSUME NEW s \in Scanners, NEW left \in SUBSET Nat, NEW w \in BOOLEAN
  PROVE  /\ [Resting EXCEPT !.by = s, !.left = left, !.watching = w] \in Agents
         /\ [Resting EXCEPT !.watching = w] \in Agents
<1>1. PICK q : q = [Resting EXCEPT !.by = s, !.left = left, !.watching = w]
  OBVIOUS
<1>2. q = [by |-> s, left |-> left, stuck |-> FALSE, spent |-> 0, stopped |-> "no", watching |-> w,
           logged |-> FALSE]
  BY <1>1 DEF Resting
<1>3. q \in Agents
  BY <1>2 DEF Agents
<1>4. PICK r : r = [Resting EXCEPT !.watching = w]
  OBVIOUS
<1>5. r = [by |-> Nobody, left |-> {}, stuck |-> FALSE, spent |-> 0, stopped |-> "no", watching |-> w,
           logged |-> FALSE]
  BY <1>4 DEF Resting
<1>6. r \in Agents
  BY <1>5 DEF Agents
<1> QED  BY <1>1, <1>3, <1>4, <1>6

\* One record replaced in the state.
LEMMA ProberSet ==
  ASSUME JvmTypeOK, NEW s, NEW q \in Probers, prober' = [prober EXCEPT ![s] = q]
  PROVE  /\ prober' \in [Scanners -> Probers]
         /\ s \in Scanners => prober'[s] = q
         /\ \A t \in Scanners : t # s => prober'[t] = prober[t]
  BY DEF JvmTypeOK

LEMMA HandoffSet ==
  ASSUME JvmTypeOK, NEW s, NEW j, NEW q, s \in Scanners /\ j \in Jvms => q \in Handoffs,
         handoff' = [handoff EXCEPT ![s][j] = q]
  PROVE  /\ handoff' \in [Scanners -> [Jvms -> Handoffs]]
         /\ s \in Scanners /\ j \in Jvms => handoff'[s][j] = q
         /\ \A t \in Scanners, k \in Jvms : t # s \/ k # j => handoff'[t][k] = handoff[t][k]
         /\ \A t \in Scanners : t # s => handoff'[t] = handoff[t]
  BY DEF JvmTypeOK

LEMMA ChannelSet ==
  ASSUME JvmTypeOK, NEW j \in Jvms, NEW q \in Channels, channel' = [channel EXCEPT ![j] = q]
  PROVE  /\ channel' \in [Jvms -> Channels] /\ channel'[j] = q
         /\ \A k \in Jvms : k # j => channel'[k] = channel[k]
  BY DEF JvmTypeOK

-----------------------------------------------------------------------------
(* What the steps do to a scan.                                             *)

\* Nothing that a scan rests on in a host changes.
HostStays ==
  /\ \A s \in Scanners : jvmHost'.asked[s] = jvmHost.asked[s]
  /\ \A j \in Jvms :
       LET old == jvmHost.processes[j]
           new == jvmHost'.processes[j]
       IN  /\ new.java = old.java /\ new.readable = old.readable
           /\ new.attachedBefore = old.attachedBefore

Keeps(s) ==
  /\ prober'[s].jvm = prober[s].jvm /\ prober'[s].todo = prober[s].todo
  /\ prober'[s].attached = prober[s].attached /\ prober'[s].incomplete = prober[s].incomplete
  /\ prober'[s].facts = prober[s].facts /\ prober'[s].status = prober[s].status

Silent(s) == prober'[s].signals = prober[s].signals /\ prober'[s].littered = prober[s].littered
               /\ prober'[s].outlived = prober[s].outlived

\* An agent writes only where there is a directory, and what ended its sweep.
HandoffGoesOn(new, old) ==
  /\ new.owner = old.owner
  /\ ToldOrLost(old) => ToldOrLost(new)
  /\ old.owner = "none" => new.done = old.done /\ new.log = old.log /\ new.facts = old.facts

HandoffsGoOn ==
  \A s \in Scanners, j \in Jvms : HandoffGoesOn(handoff'[s][j], handoff[s][j])

\* The JVMs' own steps, the incidents that befall them, and time.
AroundAScan ==
  /\ JvmTypeOK' /\ HostStays
  /\ \A j \in Jvms : process[j] = "gone" => process'[j] = "gone"
  /\ \A j \in Jvms : channel'[j].by = channel[j].by /\ channel'[j].sentinel = channel[j].sentinel
  /\ \A j \in Jvms : channel'[j].quit => channel[j].quit
  /\ \A j \in Jvms : channel'[j].socket => channel[j].socket \/ channel[j].quit
  /\ jar' = jar
  /\ \A s \in Scanners : Keeps(s) /\ Silent(s) /\ prober'[s].pc = prober[s].pc
  /\ HandoffsGoOn

LEMMA HandoffsAround ==
  ASSUME JvmTypeOK, NEW s, NEW j, NEW q, handoff' = [handoff EXCEPT ![s][j] = q],
         s \in Scanners /\ j \in Jvms => q \in Handoffs /\ HandoffGoesOn(q, handoff[s][j])
  PROVE  HandoffsGoOn /\ handoff' \in [Scanners -> [Jvms -> Handoffs]]
<1>1. /\ handoff' \in [Scanners -> [Jvms -> Handoffs]]
      /\ s \in Scanners /\ j \in Jvms => handoff'[s][j] = q
      /\ \A t \in Scanners, k \in Jvms : t # s \/ k # j => handoff'[t][k] = handoff[t][k]
  BY ZenonT(60), HandoffSet
<1>2. SUFFICES ASSUME NEW t \in Scanners, NEW k \in Jvms
               PROVE  HandoffGoesOn(handoff'[t][k], handoff[t][k])
  BY <1>1 DEF HandoffsGoOn
<1>3. CASE t # s \/ k # j
  BY <1>1, <1>3 DEF HandoffGoesOn
<1>4. CASE t = s /\ k = j
  BY <1>1, <1>4 DEF HandoffGoesOn
<1> QED  BY <1>3, <1>4

LEMMA ListenAround ==
  ASSUME JvmTypeOK, NEW j \in Jvms, Listen(j)
  PROVE  AroundAScan
<1> PICK c \in Channels : c = channel[j]
  BY DEF JvmTypeOK
<1>0. c.quit
  BY DEF Listen
<1> PICK w \in BOOLEAN : w = (c.socket \/ (c.sentinel # "none" /\ jvmHost.processes[j].attachable))
  OBVIOUS
<1> PICK q : q = [c EXCEPT !.quit = FALSE, !.socket = w]
  OBVIOUS
<1>1. /\ q \in Channels /\ q.sentinel = c.sentinel /\ q.by = c.by /\ q.quit = FALSE /\ q.socket = w
  BY DEF Channels
<1>2. channel' = [channel EXCEPT ![j] = q]
  BY DEF Listen
<1>3. /\ channel' \in [Jvms -> Channels] /\ channel'[j] = q
      /\ \A k \in Jvms : k # j => channel'[k] = channel[k]
  BY <1>1, <1>2, ChannelSet
<1>4. JvmTypeOK'
  BY <1>3 DEF JvmTypeOK, Listen
<1>5. HandoffsGoOn
  BY DEF Listen, HandoffsGoOn, HandoffGoesOn
<1> QED
  BY <1>0, <1>1, <1>3, <1>4, <1>5 DEF AroundAScan, Listen, HostStays, Keeps, Silent

LEMMA AnswerAround ==
  ASSUME JvmTypeOK, NEW t, NEW j, NEW reply \in {"loaded", "failed"}, prober' = Answered(t, j, reply)
  PROVE  /\ prober' \in [Scanners -> Probers]
         /\ \A s \in Scanners : Keeps(s) /\ Silent(s) /\ prober'[s].pc = prober[s].pc
<1>1. CASE t \notin Scanners
  <2>1. prober' = prober
    BY <1>1 DEF JvmTypeOK, Answered
  <2> QED  BY <2>1 DEF JvmTypeOK, Keeps, Silent
<1>2. CASE t \in Scanners
  <2>1. PICK r \in Probers : r = prober[t]
    BY <1>2 DEF JvmTypeOK
  <2>2. PICK v : v = IF At(t, "response") /\ This(t) = j THEN reply ELSE r.reply
    OBVIOUS
  <2>3. v \in {"none", "loaded", "failed"}
    BY <2>2 DEF Probers
  <2>4. PICK q : q = [r EXCEPT !.reply = v]
    OBVIOUS
  <2>5. q \in Probers /\ Same(q, r) /\ q.pc = r.pc /\ q.signals = r.signals /\ q.littered = r.littered
         /\ q.outlived = r.outlived
    BY <2>3, <2>4, OnlyReply
  <2>6. prober' = [prober EXCEPT ![t] = q]
    BY <2>1, <2>2, <2>4 DEF Answered
  <2>7. /\ prober' \in [Scanners -> Probers] /\ prober'[t] = q
        /\ \A s \in Scanners : s # t => prober'[s] = prober[s]
    BY <1>2, <2>5, <2>6, ProberSet
  <2> QED  BY <2>1, <2>5, <2>7 DEF Same, Keeps, Silent
<1> QED  BY <1>1, <1>2

LEMMA ClassesHaveRanks ==
  ASSUME JvmTypeOK, NEW j \in Jvms, NEW w
  PROVE  Shortlist(j, w) \in SUBSET Nat
<1>1. jvmHost.processes[j].classes \in Seq(CaptureKinds)
  BY DEF JvmTypeOK, Processes
<1> QED  BY <1>1 DEF Shortlist

LEMMA TakeUpAround ==
  ASSUME JvmTypeOK, NEW j \in Jvms, TakeUp(j)
  PROVE  AroundAScan
<1>1. PICK s : s = Head(requests[j])
  OBVIOUS
<1>2. s \in Scanners /\ requests' \in [Jvms -> Seq(Scanners)]
  BY <1>1 DEF TakeUp, JvmTypeOK
<1>3. PICK h \in Handoffs : h = handoff[s][j]
  BY <1>2 DEF JvmTypeOK
<1>4. PICK w \in BOOLEAN : w = (agent[j].watching \/ (h.config /\ h.owner = "theirs"))
  OBVIOUS
<1>5. PICK list \in SUBSET Nat : list = Shortlist(j, w)
  BY ClassesHaveRanks
<1>6. PICK owed \in SUBSET Nat : owed = {c \in list : jvmHost.processes[j].classes[c] # "fixed"}
  OBVIOUS
<1>7. \/ /\ agent' = [agent EXCEPT ![j] = [Resting EXCEPT !.by = s, !.left = list, !.watching = w]]
         /\ handoff' = [handoff EXCEPT ![s][j].owed = owed] /\ UNCHANGED prober
      \/ prober' = Answered(s, j, "failed") /\ UNCHANGED <<agent, handoff>>
  BY <1>1, <1>3, <1>4, <1>5, <1>6 DEF TakeUp
<1>8. UNCHANGED <<jvmHost, process, channel, jar, incidents>>
  BY DEF TakeUp
<1>9. /\ agent' \in [Jvms -> Agents] /\ handoff' \in [Scanners -> [Jvms -> Handoffs]] /\ HandoffsGoOn
      /\ prober' \in [Scanners -> Probers]
      /\ \A t \in Scanners : Keeps(t) /\ Silent(t) /\ prober'[t].pc = prober[t].pc
  <2>1. CASE /\ agent' = [agent EXCEPT ![j] = [Resting EXCEPT !.by = s, !.left = list, !.watching = w]]
             /\ handoff' = [handoff EXCEPT ![s][j].owed = owed] /\ UNCHANGED prober
    <3>1. PICK a \in Agents : a = [Resting EXCEPT !.by = s, !.left = list, !.watching = w]
      BY <1>2, StartedAgent
    <3>2. agent' \in [Jvms -> Agents]
      BY <2>1, <3>1 DEF JvmTypeOK
    <3>3. PICK q : q = [h EXCEPT !.owed = owed]
      OBVIOUS
    <3>4. q \in Handoffs /\ q.owner = h.owner /\ q.done = h.done /\ q.log = h.log /\ q.facts = h.facts
          /\ q.ended = h.ended
      BY <3>3 DEF Handoffs
    <3>5. handoff' = [handoff EXCEPT ![s][j] = q]
      BY <1>3, <2>1, <3>3
    <3>6. HandoffsGoOn /\ handoff' \in [Scanners -> [Jvms -> Handoffs]]
      BY <1>3, <3>4, <3>5, HandoffsAround DEF HandoffGoesOn, ToldOrLost
    <3> QED  BY <2>1, <3>2, <3>6 DEF JvmTypeOK, Keeps, Silent
  <2>2. CASE prober' = Answered(s, j, "failed") /\ UNCHANGED <<agent, handoff>>
    BY <2>2, AnswerAround DEF JvmTypeOK, HandoffsGoOn, HandoffGoesOn
  <2> QED  BY <1>7, <2>1, <2>2
<1>10. JvmTypeOK'
  BY <1>2, <1>8, <1>9 DEF JvmTypeOK
<1> QED
  BY <1>8, <1>9, <1>10 DEF AroundAScan, HostStays

LEMMA CaptureAround ==
  ASSUME JvmTypeOK, NEW j \in Jvms, CaptureClass(j)
  PROVE  AroundAScan
<1>1. PICK a \in Agents : a = agent[j]
  BY DEF JvmTypeOK
<1>2. PICK c, kind :
        /\ c \in a.left /\ kind = jvmHost.processes[j].classes[c]
        /\ \/ agent' = [agent EXCEPT ![j].left = @ \ {c}] /\ UNCHANGED handoff
           \/ agent' = [agent EXCEPT ![j].stopped = "budget"] /\ UNCHANGED handoff
           \/ /\ handoff[a.by][j].owner = "theirs"
              /\ handoff' = [handoff EXCEPT ![a.by][j].facts = @ \cup {c}]
              /\ agent' = [agent EXCEPT ![j].left = @ \ {c}, ![j].spent = @ + 1]
           \/ agent' = [agent EXCEPT ![j].stopped = "threw"] /\ UNCHANGED handoff
           \/ /\ agent' = [agent EXCEPT ![j].left = @ \ {c}, ![j].spent = @ + 1,
                                        ![j].stuck = @ \/ kind = "hangs"]
              /\ UNCHANGED handoff
  BY <1>1 DEF CaptureClass
<1> c \in a.left
  BY <1>2
<1>3. PICK left \in SUBSET Nat, n \in Nat, stuck \in BOOLEAN :
        left = a.left \ {c} /\ n = a.spent + 1 /\ stuck = (a.stuck \/ kind = "hangs")
  <2>1. a.left \ {c} \in SUBSET Nat /\ a.spent + 1 \in Nat
    BY DEF Agents
  <2>2. (a.stuck \/ kind = "hangs") \in BOOLEAN
    OBVIOUS
  <2> QED  BY <2>1, <2>2
<1>4. \E b \in Agents : agent' = [agent EXCEPT ![j] = b]
  <2>1. agent' = [agent EXCEPT ![j].left = @ \ {c}] => agent' = [agent EXCEPT ![j] = [a EXCEPT !.left = left]]
    BY <1>1, <1>3
  <2>2. agent' = [agent EXCEPT ![j].stopped = "budget"] => agent' = [agent EXCEPT ![j] = [a EXCEPT !.stopped = "budget"]]
    BY <1>1
  <2>3. agent' = [agent EXCEPT ![j].stopped = "threw"] => agent' = [agent EXCEPT ![j] = [a EXCEPT !.stopped = "threw"]]
    BY <1>1
  <2>4. agent' = [agent EXCEPT ![j].left = @ \ {c}, ![j].spent = @ + 1]
          => agent' = [agent EXCEPT ![j] = [a EXCEPT !.left = left, !.spent = n]]
    BY <1>1, <1>3
  <2>5. agent' = [agent EXCEPT ![j].left = @ \ {c}, ![j].spent = @ + 1, ![j].stuck = @ \/ kind = "hangs"]
          => agent' = [agent EXCEPT ![j] = [a EXCEPT !.left = left, !.spent = n, !.stuck = stuck]]
    BY <1>1, <1>3
  <2>6. \A why \in {"budget", "threw"} :
          /\ [a EXCEPT !.left = left] \in Agents /\ [a EXCEPT !.stopped = why] \in Agents
          /\ [a EXCEPT !.left = left, !.spent = n] \in Agents
          /\ [a EXCEPT !.left = left, !.spent = n, !.stuck = stuck] \in Agents
    BY AgentRecords
  <2> QED  BY <1>2, <2>1, <2>2, <2>3, <2>4, <2>5, <2>6
<1>5. agent' \in [Jvms -> Agents]
  BY <1>4 DEF JvmTypeOK
<1>6. HandoffsGoOn /\ handoff' \in [Scanners -> [Jvms -> Handoffs]]
  <2>1. CASE UNCHANGED handoff
    BY <2>1 DEF HandoffsGoOn, HandoffGoesOn, JvmTypeOK
  <2>2. CASE /\ handoff[a.by][j].owner = "theirs"
             /\ handoff' = [handoff EXCEPT ![a.by][j].facts = @ \cup {c}]
    <3>1. PICK h : h = handoff[a.by][j]
      OBVIOUS
    <3>2. PICK f : f = h.facts \cup {c}
      OBVIOUS
    <3>3. PICK q : q = [h EXCEPT !.facts = f]
      OBVIOUS
    <3>4. handoff' = [handoff EXCEPT ![a.by][j] = q]
      BY <2>2, <3>1, <3>2, <3>3
    <3>5. a.by \in Scanners => q \in Handoffs /\ HandoffGoesOn(q, h)
      <4>1. SUFFICES ASSUME a.by \in Scanners PROVE q \in Handoffs /\ HandoffGoesOn(q, h)
        OBVIOUS
      <4>2. h \in Handoffs
        BY <3>1, <4>1 DEF JvmTypeOK
      <4>3. f \in SUBSET Nat
        BY <3>2, <4>2 DEF Handoffs, Agents
      <4>4. q \in Handoffs /\ q.owner = h.owner /\ q.done = h.done /\ q.log = h.log /\ q.ended = h.ended
        BY <3>3, <4>2, <4>3, HandoffFacts
      <4> QED  BY <2>2, <3>1, <4>4 DEF HandoffGoesOn, ToldOrLost
    <3> QED  BY <3>1, <3>4, <3>5, HandoffsAround
  <2> QED  BY <1>2, <2>1, <2>2
<1>7. UNCHANGED <<jvmHost, process, channel, jar, requests, prober, incidents>>
  BY DEF CaptureClass
<1>8. JvmTypeOK'
  BY <1>5, <1>6, <1>7 DEF JvmTypeOK
<1> QED
  BY <1>6, <1>7, <1>8 DEF AroundAScan, HostStays, Keeps, Silent

LEMMA WriteLogAround ==
  ASSUME JvmTypeOK, NEW j \in Jvms, WriteLog(j)
  PROVE  AroundAScan
<1>1. PICK a \in Agents : a = agent[j]
  BY DEF JvmTypeOK
<1>2. a.by \in Scanners
  BY <1>1 DEF WriteLog, Finishing, Agents
<1>3. PICK h \in Handoffs : h = handoff[a.by][j]
  BY <1>2 DEF JvmTypeOK
<1>4. /\ agent' = [agent EXCEPT ![j] = [a EXCEPT !.logged = TRUE]]
      /\ UNCHANGED <<jvmHost, process, channel, jar, requests, prober, incidents>>
  BY <1>1 DEF WriteLog
<1>5. PICK w \in {"none", "cut", "errors", "incomplete"} :
        /\ w = "errors" => a.stopped # "budget"
        /\ \/ UNCHANGED handoff
           \/ /\ h.owner = "theirs"
              /\ handoff' = [handoff EXCEPT ![a.by][j].log = w, ![a.by][j].ended = a.stopped]
  BY <1>1, <1>3 DEF WriteLog
<1>6. agent' \in [Jvms -> Agents]
  <2>1. [a EXCEPT !.logged = TRUE] \in Agents
    BY AgentRecords
  <2> QED  BY <1>4, <2>1 DEF JvmTypeOK
<1>7. HandoffsGoOn /\ handoff' \in [Scanners -> [Jvms -> Handoffs]]
  <2>1. CASE UNCHANGED handoff
    BY <2>1 DEF HandoffsGoOn, HandoffGoesOn, JvmTypeOK
  <2>2. CASE /\ h.owner = "theirs"
             /\ handoff' = [handoff EXCEPT ![a.by][j].log = w, ![a.by][j].ended = a.stopped]
    <3>1. PICK why \in {"no", "budget", "threw"} : why = a.stopped
      BY DEF Agents
    <3>2. PICK q : q = [h EXCEPT !.log = w, !.ended = why]
      OBVIOUS
    <3>3. q \in Handoffs /\ q.owner = h.owner /\ q.log = w /\ q.ended = why
      BY <3>2 DEF Handoffs
    <3>4. handoff' = [handoff EXCEPT ![a.by][j] = q]
      BY <1>3, <2>2, <3>1, <3>2
    <3>5. HandoffGoesOn(q, h)
      BY <1>5, <2>2, <3>1, <3>3 DEF HandoffGoesOn, ToldOrLost
    <3> QED  BY <1>3, <3>3, <3>4, <3>5, HandoffsAround
  <2> QED  BY <1>5, <2>1, <2>2
<1>8. JvmTypeOK'
  BY <1>4, <1>6, <1>7 DEF JvmTypeOK
<1> QED
  BY <1>4, <1>7, <1>8 DEF AroundAScan, HostStays, Keeps, Silent

LEMMA EndAgentAround ==
  ASSUME JvmTypeOK, NEW j \in Jvms, EndAgent(j)
  PROVE  AroundAScan
<1>1. PICK a \in Agents : a = agent[j]
  BY DEF JvmTypeOK
<1>2. a.by \in Scanners
  BY <1>1 DEF EndAgent, Finishing, Agents
<1>3. PICK h \in Handoffs : h = handoff[a.by][j]
  BY <1>2 DEF JvmTypeOK
<1>4. /\ prober' = Answered(a.by, j, "loaded")
      /\ agent' = [agent EXCEPT ![j] = [Resting EXCEPT !.watching = a.watching]]
      /\ UNCHANGED <<jvmHost, process, channel, jar, requests, incidents>>
  BY <1>1 DEF EndAgent
<1>5. PICK made \in BOOLEAN :
        UNCHANGED handoff \/ (h.owner = "theirs" /\ handoff' = [handoff EXCEPT ![a.by][j].done = made])
  BY <1>1, <1>3 DEF EndAgent
<1>6. agent' \in [Jvms -> Agents]
  <2>1. a.watching \in BOOLEAN
    BY DEF Agents
  <2>2. [Resting EXCEPT !.watching = a.watching] \in Agents
    BY <1>2, <2>1, StartedAgent
  <2> QED  BY <1>4, <2>2 DEF JvmTypeOK
<1>7. HandoffsGoOn /\ handoff' \in [Scanners -> [Jvms -> Handoffs]]
  <2>1. CASE UNCHANGED handoff
    BY <2>1 DEF HandoffsGoOn, HandoffGoesOn, JvmTypeOK
  <2>2. CASE h.owner = "theirs" /\ handoff' = [handoff EXCEPT ![a.by][j].done = made]
    <3>1. PICK q : q = [h EXCEPT !.done = made]
      OBVIOUS
    <3>2. q \in Handoffs /\ q.owner = h.owner /\ q.log = h.log /\ q.ended = h.ended
      BY <3>1 DEF Handoffs
    <3>3. handoff' = [handoff EXCEPT ![a.by][j] = q]
      BY <1>3, <2>2, <3>1
    <3>4. HandoffGoesOn(q, h)
      BY <2>2, <3>2 DEF HandoffGoesOn, ToldOrLost
    <3> QED  BY <1>3, <3>2, <3>3, <3>4, HandoffsAround
  <2> QED  BY <1>5, <2>1, <2>2
<1>8. /\ prober' \in [Scanners -> Probers]
      /\ \A t \in Scanners : Keeps(t) /\ Silent(t) /\ prober'[t].pc = prober[t].pc
  BY <1>4, AnswerAround
<1>9. JvmTypeOK'
  BY <1>4, <1>6, <1>7, <1>8 DEF JvmTypeOK
<1> QED
  BY <1>4, <1>7, <1>8, <1>9 DEF AroundAScan, HostStays

LEMMA IncidentsAround ==
  ASSUME JvmTypeOK, NEW j \in Jvms, JvmFails(j) \/ ClockSpent(j) \/ DiskFills(j)
  PROVE  AroundAScan
<1>1. incidents' \in Nat
  BY DEF JvmFails, ClockSpent, DiskFills, Incident, JvmTypeOK
<1>2. UNCHANGED <<channel, jar, requests, handoff, prober>>
  BY DEF JvmFails, ClockSpent, DiskFills
<1>3. HandoffsGoOn /\ \A s \in Scanners : Keeps(s) /\ Silent(s) /\ prober'[s].pc = prober[s].pc
  BY <1>2 DEF HandoffsGoOn, HandoffGoesOn, Keeps, Silent
<1>4. CASE JvmFails(j)
  <2>1. /\ process' \in [Jvms -> {"up", "hung", "gone"}]
        /\ \A k \in Jvms : process[k] = "gone" => process'[k] = "gone"
    BY <1>4 DEF JvmFails, JvmTypeOK
  <2>2. UNCHANGED <<jvmHost, agent>>
    BY <1>4 DEF JvmFails
  <2>3. JvmTypeOK'
    BY <1>1, <1>2, <2>1, <2>2 DEF JvmTypeOK
  <2> QED  BY <1>2, <1>3, <2>1, <2>2, <2>3 DEF AroundAScan, HostStays
<1>5. CASE ClockSpent(j)
  <2>1. PICK a \in Agents : a = agent[j]
    BY DEF JvmTypeOK
  <2>2. PICK b : b = [a EXCEPT !.stopped = "budget"]
    OBVIOUS
  <2>3. b \in Agents
    BY <2>2 DEF Agents
  <2>4. agent' = [agent EXCEPT ![j] = b]
    BY <1>5, <2>1, <2>2 DEF ClockSpent
  <2>5. UNCHANGED <<jvmHost, process>> /\ agent' \in [Jvms -> Agents]
    BY ZenonT(60), <1>5, <2>3, <2>4 DEF ClockSpent, JvmTypeOK
  <2>6. JvmTypeOK'
    BY <1>1, <1>2, <2>5 DEF JvmTypeOK
  <2> QED  BY <1>2, <1>3, <2>5, <2>6 DEF AroundAScan, HostStays
<1>6. CASE DiskFills(j)
  <2> DEFINE Hosts == [processes : [Jvms -> Processes], euid : [Scanners -> Nat],
                       asked : [Scanners -> SUBSET Nat], incidents : Nat]
  <2>1. PICK host \in Hosts : host = jvmHost
    BY DEF JvmTypeOK
  <2>2. PICK ps \in [Jvms -> Processes] : ps = host.processes
    OBVIOUS
  <2>3. PICK p \in Processes : p = ps[j]
    OBVIOUS
  <2>4. PICK room \in BOOLEAN : room = ~p.room
    OBVIOUS
  <2>5. PICK q : q = [p EXCEPT !.room = room]
    OBVIOUS
  <2>6. /\ q \in Processes /\ q.java = p.java /\ q.readable = p.readable
        /\ q.attachedBefore = p.attachedBefore
    BY <2>5 DEF Processes
  <2>7. PICK qs : qs = [ps EXCEPT ![j] = q]
    OBVIOUS
  <2>8. qs \in [Jvms -> Processes] /\ qs[j] = q /\ \A k \in Jvms : k # j => qs[k] = ps[k]
    BY <2>6, <2>7
  <2>9. PICK new : new = [host EXCEPT !.processes = qs]
    OBVIOUS
  <2>10. new \in Hosts /\ new.asked = host.asked /\ new.processes = qs
    BY <2>8, <2>9
  <2>11. jvmHost' = new /\ UNCHANGED <<process, agent>>
    BY <1>6, <2>1, <2>2, <2>3, <2>4, <2>5, <2>7, <2>9 DEF DiskFills
  <2>12. HostStays
    <3>1. \A k \in Jvms : qs[k].java = ps[k].java /\ qs[k].readable = ps[k].readable
                            /\ qs[k].attachedBefore = ps[k].attachedBefore
      BY <2>3, <2>6, <2>8
    <3> QED  BY <2>1, <2>2, <2>10, <2>11, <3>1 DEF HostStays
  <2>13. JvmTypeOK'
    BY <1>1, <1>2, <2>10, <2>11 DEF JvmTypeOK
  <2> QED  BY <1>2, <1>3, <2>11, <2>12, <2>13 DEF AroundAScan
<1> QED  BY <1>4, <1>5, <1>6

LEMMA TimeAround ==
  ASSUME JvmTypeOK, (\E s \in Scanners : DeadlinePasses(s)) \/ UNCHANGED jvmVars
  PROVE  AroundAScan
<1>1. UNCHANGED <<jvmHost, process, channel, jar, requests, agent, handoff, incidents>>
  BY DEF DeadlinePasses, jvmVars
<1>2. prober' \in [Scanners -> Probers] /\ \A t \in Scanners : Keeps(t) /\ Silent(t) /\ prober'[t].pc = prober[t].pc
  <2>1. ASSUME NEW s \in Scanners, DeadlinePasses(s) PROVE <1>2!:
    <3>1. PICK r \in Probers : r = prober[s]
      BY DEF JvmTypeOK
    <3>2. PICK q : q = [r EXCEPT !.late = TRUE]
      OBVIOUS
    <3>3. q \in Probers /\ Same(q, r) /\ q.pc = r.pc /\ q.signals = r.signals /\ q.littered = r.littered
           /\ q.outlived = r.outlived
      BY <3>2, OnlyLate
    <3>4. prober' = [prober EXCEPT ![s] = q]
      BY <2>1, <3>1, <3>2 DEF DeadlinePasses
    <3>5. /\ prober' \in [Scanners -> Probers] /\ prober'[s] = q
          /\ \A t \in Scanners : t # s => prober'[t] = prober[t]
      BY <3>3, <3>4, ProberSet
    <3> QED  BY <3>1, <3>3, <3>5 DEF Same, Keeps, Silent
  <2>2. CASE UNCHANGED jvmVars
    BY <2>2 DEF jvmVars, JvmTypeOK, Keeps, Silent
  <2> QED  BY <2>1, <2>2
<1>3. HandoffsGoOn
  BY <1>1 DEF HandoffsGoOn, HandoffGoesOn
<1>4. JvmTypeOK'
  BY <1>1, <1>2 DEF JvmTypeOK
<1> QED  BY <1>1, <1>2, <1>3, <1>4 DEF AroundAScan, HostStays

LEMMA TargetsStay ==
  ASSUME HostStays, NEW s \in Scanners
  PROVE  Targets(s)' = Targets(s)
  BY DEF HostStays, Targets

LEMMA AroundKeepsInv ==
  ASSUME JvmInv, AroundAScan
  PROVE  JvmInv'
<1>1. \A s \in Scanners : Targets(s)' = Targets(s)
  BY TargetsStay DEF AroundAScan
<1>2. \A s \in Scanners : Keeps(s) /\ Silent(s) /\ prober'[s].pc = prober[s].pc
  BY DEF AroundAScan
<1>3. \A s \in Scanners : TurnedTo(s)' = TurnedTo(s) /\ This(s)' = This(s)
  BY <1>1, <1>2 DEF TurnedTo, At, This, Keeps
<1>4. ASSUME NEW s \in Scanners PROVE PlaceIsSound(s)'
  BY <1>1, <1>2, <1>3 DEF JvmInv, PlaceIsSound, Keeps, At
<1>5. ASSUME NEW s \in Scanners PROVE RefusalsAreTold(s)'
  BY <1>2, <1>3 DEF JvmInv, RefusalsAreTold, Keeps, Silent
<1>6. ASSUME NEW s \in Scanners PROVE CapturesAreKept(s)'
  <2>1. \A j \in Jvms : HandoffGoesOn(handoff'[s][j], handoff[s][j])
    BY DEF AroundAScan, HandoffsGoOn
  <2> QED  BY <1>2, <2>1 DEF JvmInv, CapturesAreKept, Keeps, HandoffGoesOn
<1>7. ASSUME NEW s \in Scanners PROVE StatusIsEarned(s)'
  BY <1>1, <1>2 DEF JvmInv, StatusIsEarned, Keeps
<1>8. ChannelsAreAccountedFor'
  <2>1. \A j \in Jvms : jvmHost'.processes[j].attachedBefore = jvmHost.processes[j].attachedBefore
    BY DEF AroundAScan, HostStays
  <2> SUFFICES ASSUME NEW j \in Jvms
               PROVE  /\ \A s \in channel'[j].by : j \in TurnedTo(s)'
                      /\ channel'[j].quit => channel'[j].by # {}
                      /\ channel'[j].socket => jvmHost'.processes[j].attachedBefore \/ channel'[j].by # {}
                      /\ channel'[j].sentinel # "none" => \E s \in Scanners : j \in TurnedTo(s)'
    BY DEF ChannelsAreAccountedFor
  <2>2. channel[j].by \subseteq Scanners
    BY DEF JvmInv, JvmTypeOK, Channels
  <2> QED  BY <1>3, <2>1, <2>2 DEF JvmInv, ChannelsAreAccountedFor, AroundAScan
<1>9. OwnFootprintIsNotEvidence'
  <2>1. \A j \in Jvms : /\ jvmHost'.processes[j].attachedBefore = jvmHost.processes[j].attachedBefore
                        /\ channel'[j].by = channel[j].by
    BY DEF AroundAScan, HostStays
  <2> QED  BY <1>2, <1>3, <2>1 DEF JvmInv, OwnFootprintIsNotEvidence, Silent
<1>10. LeftoversHaveOwners'
  <2>1. \A s \in Scanners, j \in Jvms : \A places : Holds(s, j, places)' <=> Holds(s, j, places)
    BY <1>2, <1>3 DEF Holds
  <2>2. \A s \in Scanners, j \in Jvms : handoff'[s][j].owner = handoff[s][j].owner
    BY DEF AroundAScan, HandoffsGoOn, HandoffGoesOn
  <2> QED  BY <1>2, <2>1, <2>2 DEF JvmInv, LeftoversHaveOwners, AroundAScan, Silent
<1> QED  BY <1>4, <1>5, <1>6, <1>7, <1>8, <1>9, <1>10 DEF JvmInv, AroundAScan

-----------------------------------------------------------------------------
(* A scan's steps with a JVM in hand.                                       *)

Frame(s) ==
  /\ jvmHost' = jvmHost /\ process' = process
  /\ \A t \in Scanners : t # s => prober'[t] = prober[t] /\ handoff'[t] = handoff[t]

MovesOn(s, p) == Keeps(s) /\ Silent(s) /\ prober'[s].pc = p

GivesUp(s) ==
  /\ Keeps(s) /\ prober'[s].pc = "next" /\ prober[s].littered \subseteq prober'[s].littered
  /\ prober[s].outlived \subseteq prober'[s].outlived
  /\ prober'[s].signals[This(s)] = prober[s].signals[This(s)] \cup {"attach-refused"}
  /\ \A k \in Jvms : k # This(s) => prober'[s].signals[k] = prober[s].signals[k]

\* What a step with j in hand does to the hand-offs of its scan.
OthersHandoffsStay(s) == \A k \in Jvms : k # This(s) => handoff'[s][k] = handoff[s][k]

Disowned(s) ==
  LET old == handoff[s][This(s)]
      new == handoff'[s][This(s)]
  IN  /\ new.done = old.done /\ new.log = old.log /\ new.facts = old.facts
      /\ ToldOrLost(old) => ToldOrLost(new)
      /\ new.owner = IF There(s) THEN "none" ELSE old.owner

LEMMA MovesOnState ==
  ASSUME JvmTypeOK, NEW s \in Scanners, NEW p \in Pcs, prober' = [prober EXCEPT ![s].pc = p]
  PROVE  /\ prober' \in [Scanners -> Probers] /\ MovesOn(s, p)
         /\ \A t \in Scanners : t # s => prober'[t] = prober[t]
<1>1. PICK r \in Probers : r = prober[s]
  BY DEF JvmTypeOK
<1>2. PICK q : q = [r EXCEPT !.pc = p]
  OBVIOUS
<1>3. q \in Probers /\ Same(q, r) /\ q.pc = p /\ q.signals = r.signals /\ q.littered = r.littered
       /\ q.outlived = r.outlived
  BY <1>2, OnlyPlace
<1>4. prober' = [prober EXCEPT ![s] = q]
  BY <1>1, <1>2
<1>5. /\ prober' \in [Scanners -> Probers] /\ prober'[s] = q
      /\ \A t \in Scanners : t # s => prober'[t] = prober[t]
  BY <1>3, <1>4, ProberSet
<1> QED  BY <1>1, <1>3, <1>5 DEF Same, MovesOn, Keeps, Silent

LEMMA GivesUpRecord ==
  ASSUME JvmTypeOK, NEW s \in Scanners, This(s) \in Jvms
  PROVE  \E q \in Probers :
           /\ Refused(s) = [prober EXCEPT ![s] = q]
           /\ Same(q, prober[s]) /\ q.pc = "next" /\ q.littered = prober[s].littered
           /\ q.outlived = prober[s].outlived
           /\ q.signals[This(s)] = prober[s].signals[This(s)] \cup {"attach-refused"}
           /\ \A k \in Jvms : k # This(s) => q.signals[k] = prober[s].signals[k]
<1>1. PICK r \in Probers : r = prober[s]
  BY DEF JvmTypeOK
<1>2. PICK j \in Jvms : j = This(s)
  OBVIOUS
<1>3. PICK f \in SUBSET Evidence : f = r.signals[j] \cup {"attach-refused"}
  <2>1. r.signals[j] \in SUBSET Evidence
    BY DEF Probers
  <2>2. "attach-refused" \in Evidence
    BY DEF Evidence
  <2> QED  BY <2>1, <2>2
<1>4. PICK old \in [Jvms -> SUBSET Evidence] : old = r.signals
  BY DEF Probers
<1>5. PICK g : g = [old EXCEPT ![j] = f]
  OBVIOUS
<1>6. g \in [Jvms -> SUBSET Evidence] /\ g[j] = f /\ \A k \in Jvms : k # j => g[k] = old[k]
  BY <1>5
<1>7. PICK q : q = [r EXCEPT !.pc = "next", !.signals = g]
  OBVIOUS
<1>8. q \in Probers /\ Same(q, r) /\ q.pc = "next" /\ q.littered = r.littered
       /\ q.outlived = r.outlived /\ q.signals = g
  <2> "next" \in Pcs
    BY DEF Pcs
  <2> QED BY <1>6, <1>7 DEF Probers, Same
<1>9. Refused(s) = [prober EXCEPT ![s] = q]
  BY <1>1, <1>2, <1>3, <1>4, <1>5, <1>7 DEF Refused
<1> QED  BY <1>1, <1>2, <1>3, <1>4, <1>6, <1>8, <1>9

LEMMA GivesUpState ==
  ASSUME JvmTypeOK, NEW s \in Scanners, This(s) \in Jvms, prober' = Refused(s)
  PROVE  /\ prober' \in [Scanners -> Probers] /\ GivesUp(s)
         /\ \A t \in Scanners : t # s => prober'[t] = prober[t]
<1>1. PICK q \in Probers :
           /\ Refused(s) = [prober EXCEPT ![s] = q]
           /\ Same(q, prober[s]) /\ q.pc = "next" /\ q.littered = prober[s].littered
           /\ q.outlived = prober[s].outlived
           /\ q.signals[This(s)] = prober[s].signals[This(s)] \cup {"attach-refused"}
           /\ \A k \in Jvms : k # This(s) => q.signals[k] = prober[s].signals[k]
  BY GivesUpRecord
<1>2. /\ prober' \in [Scanners -> Probers] /\ prober'[s] = q
      /\ \A t \in Scanners : t # s => prober'[t] = prober[t]
  BY ZenonT(60), <1>1, ProberSet
<1> QED  BY <1>1, <1>2 DEF Same, GivesUp, Keeps

LEMMA ClearedState ==
  ASSUME JvmTypeOK, NEW s \in Scanners, This(s) \in Jvms, handoff' = Cleared(s)
  PROVE  /\ handoff' \in [Scanners -> [Jvms -> Handoffs]] /\ OthersHandoffsStay(s) /\ Disowned(s)
         /\ \A t \in Scanners : t # s => handoff'[t] = handoff[t]
<1>1. CASE ~There(s)
  BY <1>1 DEF Cleared, JvmTypeOK, OthersHandoffsStay, Disowned, ToldOrLost
<1>2. CASE There(s)
  <2>1. PICK j \in Jvms : j = This(s)
    OBVIOUS
  <2>2. PICK h \in Handoffs : h = handoff[s][j]
    BY DEF JvmTypeOK
  <2>3. PICK q : q = [h EXCEPT !.owner = "none"]
    OBVIOUS
  <2>4. q \in Handoffs /\ q.owner = "none" /\ q.done = h.done /\ q.log = h.log /\ q.facts = h.facts
        /\ q.ended = h.ended
    BY <2>3, HandoffDisowned
  <2>5. handoff' = [handoff EXCEPT ![s][j] = q]
    BY <1>2, <2>1, <2>2, <2>3 DEF Cleared
  <2>6. /\ handoff' \in [Scanners -> [Jvms -> Handoffs]] /\ handoff'[s][j] = q
        /\ \A t \in Scanners, k \in Jvms : t # s \/ k # j => handoff'[t][k] = handoff[t][k]
        /\ \A t \in Scanners : t # s => handoff'[t] = handoff[t]
    BY <2>4, <2>5 DEF JvmTypeOK
  <2> QED  BY <1>2, <2>1, <2>2, <2>4, <2>6 DEF OthersHandoffsStay, Disowned, ToldOrLost
<1> QED  BY <1>1, <1>2

ChannelsStay ==
  \A k \in Jvms : channel'[k].by = channel[k].by /\ channel'[k].quit = channel[k].quit
                    /\ channel'[k].socket = channel[k].socket

LEMMA SentinelState ==
  ASSUME JvmTypeOK, NEW s \in Scanners, NEW j \in Jvms, NEW w \in {"none", "cwd", "tmp"},
         channel' = [channel EXCEPT ![j].sentinel = w]
  PROVE  /\ channel' \in [Jvms -> Channels] /\ ChannelsStay
         /\ channel'[j].sentinel = w /\ \A k \in Jvms : k # j => channel'[k].sentinel = channel[k].sentinel
<1>1. PICK c \in Channels : c = channel[j]
  BY DEF JvmTypeOK
<1>2. PICK q : q = [c EXCEPT !.sentinel = w]
  OBVIOUS
<1>3. q \in Channels /\ q.sentinel = w /\ q.by = c.by /\ q.quit = c.quit /\ q.socket = c.socket
  BY <1>2, ChannelSentinel
<1>4. channel' = [channel EXCEPT ![j] = q]
  BY <1>1, <1>2
<1>5. /\ channel' \in [Jvms -> Channels] /\ channel'[j] = q
      /\ \A k \in Jvms : k # j => channel'[k] = channel[k]
  BY <1>3, <1>4, ChannelSet
<1> QED  BY <1>1, <1>3, <1>5 DEF ChannelsStay

LEMMA UnmarkedState ==
  ASSUME JvmTypeOK, NEW s \in Scanners, This(s) \in Jvms, channel' = Unmarked(s)
  PROVE  /\ channel' \in [Jvms -> Channels] /\ ChannelsStay
         /\ channel'[This(s)].sentinel = IF There(s) THEN "none" ELSE channel[This(s)].sentinel
         /\ \A k \in Jvms : k # This(s) => channel'[k].sentinel = channel[k].sentinel
<1>1. CASE ~There(s)
  BY <1>1 DEF Unmarked, JvmTypeOK, ChannelsStay
<1>2. CASE There(s)
  <2>1. channel' = [channel EXCEPT ![This(s)].sentinel = "none"]
    BY <1>2 DEF Unmarked
  <2> QED  BY <1>2, <2>1, SentinelState
<1> QED  BY <1>1, <1>2

\* A scan's step leaves the others as they are.
LEMMA OthersStay ==
  ASSUME NEW s \in Scanners, Frame(s), NEW t \in Scanners, t # s, JvmInv
  PROVE  /\ PlaceIsSound(t)' /\ RefusalsAreTold(t)' /\ CapturesAreKept(t)' /\ StatusIsEarned(t)'
         /\ TurnedTo(t)' = TurnedTo(t) /\ This(t)' = This(t)
<1>1. prober'[t] = prober[t] /\ handoff'[t] = handoff[t] /\ Targets(t)' = Targets(t)
  BY DEF Frame, Targets
<1>2. TurnedTo(t)' = TurnedTo(t) /\ This(t)' = This(t) /\ \A p : At(t, p)' <=> At(t, p)
  BY <1>1 DEF TurnedTo, At, This
<1>3. PlaceIsSound(t)'
  BY <1>1, <1>2 DEF JvmInv, PlaceIsSound
<1>4. RefusalsAreTold(t)'
  BY <1>1, <1>2 DEF JvmInv, RefusalsAreTold
<1>5. CapturesAreKept(t)'
  BY <1>1 DEF JvmInv, CapturesAreKept
<1>6. StatusIsEarned(t)'
  BY <1>1 DEF JvmInv, StatusIsEarned
<1> QED  BY <1>2, <1>3, <1>4, <1>5, <1>6

\* With a JVM in hand, a step that goes on or gives up keeps what holds of its scan,
\* if it leaves alone what the scan has taken from other JVMs.
LEMMA HandKeepsScan ==
  ASSUME JvmInv, NEW s \in Scanners, Frame(s), prober[s].pc \in InHand, OthersHandoffsStay(s),
         (\E p \in InHand : MovesOn(s, p)) \/ GivesUp(s),
         ToldOrLost(handoff'[s][This(s)])
  PROVE  /\ PlaceIsSound(s)' /\ RefusalsAreTold(s)' /\ CapturesAreKept(s)' /\ StatusIsEarned(s)'
         /\ TurnedTo(s)' = TurnedTo(s) /\ This(s)' = This(s)
         /\ \A j \in Jvms : prober'[s].signals[j] \subseteq prober[s].signals[j] \cup {"attach-refused"}
<1>1. Keeps(s) /\ Targets(s)' = Targets(s) /\ This(s)' = This(s)
  BY DEF Frame, Targets, MovesOn, GivesUp, Keeps, This
<1>2. PlaceIsSound(s) /\ RefusalsAreTold(s) /\ CapturesAreKept(s) /\ StatusIsEarned(s)
  BY DEF JvmInv
<1>3. prober'[s].pc \in InHand \cup {"next"} /\ prober[s].pc # "sweep"
  BY DEF MovesOn, GivesUp, InHand
<1>4. prober'[s].pc # "sweep" /\ prober'[s].pc # "done" /\ prober[s].pc # "done"
  BY <1>3 DEF InHand
<1>5. TurnedTo(s)' = TurnedTo(s)
  BY <1>1, <1>3, <1>4 DEF TurnedTo, At, Keeps
<1>6. This(s) \in TurnedTo(s) \ prober[s].attached
  BY <1>2 DEF PlaceIsSound
<1>7. PlaceIsSound(s)'
  BY <1>1, <1>2, <1>4, <1>5, <1>6 DEF PlaceIsSound, Keeps, At
<1>8. RefusalsAreTold(s)'
  <2> SUFFICES ASSUME NEW j \in TurnedTo(s) \ prober[s].attached
               PROVE  \/ "attach-refused" \in prober'[s].signals[j]
                      \/ prober'[s].pc \in InHand \cup {"killed"} /\ This(s) = j
    BY <1>1, <1>5 DEF RefusalsAreTold, Keeps
  <2>0. j \in Jvms
    BY DEF TurnedTo, Targets
  <2>1. CASE j = This(s)
    BY <2>0, <2>1, <1>1, <1>2 DEF MovesOn, GivesUp, RefusalsAreTold, Silent
  <2>2. CASE j # This(s)
    <3>1. "attach-refused" \in prober[s].signals[j]
      BY <1>2, <2>2 DEF RefusalsAreTold
    <3> QED  BY <2>0, <2>2, <3>1 DEF MovesOn, GivesUp, Silent
  <2> QED  BY <2>1, <2>2
<1>9. CapturesAreKept(s)'
  <2> SUFFICES ASSUME NEW j \in Jvms
               PROVE  LET h == handoff'[s][j]
                      IN  /\ ToldOrLost(h)
                          /\ j \in prober[s].attached \ prober[s].incomplete =>
                               h.owner = "none" /\ h.done /\ h.log # "incomplete" /\ prober[s].facts[j] = h.facts
    BY <1>1 DEF CapturesAreKept, Keeps
  <2>1. CASE j = This(s)
    BY <1>6, <2>1
  <2>2. CASE j # This(s)
    BY <1>2, <2>2 DEF CapturesAreKept, OthersHandoffsStay
  <2> QED  BY <2>1, <2>2
<1>10. StatusIsEarned(s)'
  BY <1>1, <1>2 DEF StatusIsEarned, Keeps
<1>11. \A j \in Jvms : prober'[s].signals[j] \subseteq prober[s].signals[j] \cup {"attach-refused"}
  BY DEF MovesOn, GivesUp, Silent
<1> QED  BY <1>1, <1>5, <1>7, <1>8, <1>9, <1>10, <1>11

\* Channels are accounted for still if they change only in who has signalled and
\* in sentinels, for scans that have got to them.
LEMMA ChannelsGoOn ==
  ASSUME JvmInv, jvmHost' = jvmHost,
         \A t \in Scanners : TurnedTo(t) \subseteq TurnedTo(t)',
         \A j \in Jvms : /\ channel[j].by \subseteq channel'[j].by /\ channel'[j].by \subseteq Scanners
                         /\ \A t \in channel'[j].by : t \in channel[j].by \/ j \in TurnedTo(t)'
                         /\ channel'[j].quit => channel[j].quit \/ channel'[j].by # {}
                         /\ channel'[j].socket => channel[j].socket
                         /\ channel'[j].sentinel # "none" =>
                              channel[j].sentinel # "none" \/ \E t \in Scanners : j \in TurnedTo(t)'
  PROVE  ChannelsAreAccountedFor'
<1> SUFFICES ASSUME NEW j \in Jvms
             PROVE  /\ \A s \in channel'[j].by : j \in TurnedTo(s)'
                    /\ channel'[j].quit => channel'[j].by # {}
                    /\ channel'[j].socket => jvmHost.processes[j].attachedBefore \/ channel'[j].by # {}
                    /\ channel'[j].sentinel # "none" => \E s \in Scanners : j \in TurnedTo(s)'
  BY DEF ChannelsAreAccountedFor
<1>1. /\ \A s \in channel[j].by : j \in TurnedTo(s)
      /\ channel[j].quit => channel[j].by # {}
      /\ channel[j].socket => jvmHost.processes[j].attachedBefore \/ channel[j].by # {}
      /\ channel[j].sentinel # "none" => \E s \in Scanners : j \in TurnedTo(s)
  BY DEF JvmInv, ChannelsAreAccountedFor
<1>2. \A s \in channel'[j].by : j \in TurnedTo(s)'
  BY <1>1
<1>3. channel'[j].quit => channel'[j].by # {}
  BY <1>1
<1>4. channel'[j].socket => jvmHost.processes[j].attachedBefore \/ channel'[j].by # {}
  BY <1>1
<1>5. channel'[j].sentinel # "none" => \E s \in Scanners : j \in TurnedTo(s)'
  BY <1>1
<1> QED  BY <1>2, <1>3, <1>4, <1>5

\* What has been said of a channel stays true; nothing new is said of one.
LEMMA OldEvidenceStays ==
  ASSUME JvmInv, jvmHost' = jvmHost,
         \A t \in Scanners : TurnedTo(t) \subseteq TurnedTo(t)',
         \A j \in Jvms : channel[j].by \subseteq channel'[j].by,
         NEW t \in Scanners, NEW j \in Jvms, NEW e \in ChannelEvidence, e \in prober[t].signals[j]
  PROVE  /\ e = "attach-listener-already-started" =>
              jvmHost'.processes[j].attachedBefore \/ channel'[j].by \ {t} # {}
         /\ e = "attach-sentinel-present" => \E u \in Scanners \ {t} : j \in TurnedTo(u)'
<1>1. /\ e = "attach-listener-already-started" =>
              jvmHost.processes[j].attachedBefore \/ channel[j].by \ {t} # {}
      /\ e = "attach-sentinel-present" => \E u \in Scanners \ {t} : j \in TurnedTo(u)
  BY DEF JvmInv, OwnFootprintIsNotEvidence
<1> QED  BY <1>1

Marking == {"signal", "poll"}
Staged == {"staging", "connect", "response"}

\* What a step with JVM j in hand may do to the JVMs' channels and files.
TouchesOnly(s) ==
  LET j == This(s)
      p == prober[s].pc
      q == prober'[s].pc
  IN  /\ \A k \in Jvms :
           /\ channel[k].by \subseteq channel'[k].by
           /\ channel'[k].by \subseteq channel[k].by \cup (IF k = j THEN {s} ELSE {})
           /\ channel'[k].quit => channel[k].quit \/ channel'[k].by # {}
           /\ channel'[k].socket => channel[k].socket
           /\ k # j => channel'[k].sentinel = channel[k].sentinel /\ jar'[k] = jar[k]
      /\ There(s) /\ channel'[j].sentinel # "none" =>
           q \in Marking \/ (channel[j].sentinel # "none" /\ p \notin Marking)
      /\ ~There(s) /\ channel'[j].sentinel # "none" => channel[j].sentinel # "none"
      /\ There(s) /\ jar'[j] # "none" =>
           j \in prober'[s].littered \/ q \in Staged \/ (jar[j] # "none" /\ p \notin Staged)
      /\ There(s) /\ handoff'[s][j].owner # "none" =>
           \/ j \in prober'[s].outlived \/ q \in InHand \ {"handoff"}
           \/ (handoff[s][j].owner # "none" /\ p = "handoff")

LEMMA LeftoversGoOn ==
  ASSUME JvmInv, NEW s \in Scanners, Frame(s), prober[s].pc \in InHand, OthersHandoffsStay(s),
         (\E p \in InHand : MovesOn(s, p)) \/ GivesUp(s), TouchesOnly(s)
  PROVE  LeftoversHaveOwners'
<1>1. /\ This(s)' = This(s) /\ prober[s].littered \subseteq prober'[s].littered
      /\ prober[s].outlived \subseteq prober'[s].outlived
  BY DEF MovesOn, GivesUp, Keeps, Silent, This
<1>2. \A t \in Scanners : t # s => /\ prober'[t].littered = prober[t].littered
                                   /\ prober'[t].outlived = prober[t].outlived
                                   /\ \A j, places : Holds(t, j, places)' <=> Holds(t, j, places)
  BY DEF Frame, Holds, This
<1>3. process' = process
  BY DEF Frame
<1>4. This(s) \in Jvms
  BY DEF JvmInv, PlaceIsSound, TurnedTo, Targets
<1>5. prober[s].pc # "killed"
  BY DEF InHand
<1> SUFFICES ASSUME NEW j \in Jvms, process[j] # "gone"
             PROVE  /\ channel'[j].sentinel # "none" => \E t \in Scanners : Holds(t, j, Marking)'
                    /\ jar'[j] # "none" => \E t \in Scanners :
                         j \in prober'[t].littered \/ Holds(t, j, Staged)'
                    /\ \A t \in Scanners : handoff'[t][j].owner # "none" =>
                            j \in prober'[t].outlived \/ Holds(t, j, InHand \ {"handoff"})'
  BY <1>3 DEF LeftoversHaveOwners, Marking, Staged
<1>6. /\ channel[j].sentinel # "none" => \E t \in Scanners : Holds(t, j, Marking)
      /\ jar[j] # "none" => \E t \in Scanners : j \in prober[t].littered \/ Holds(t, j, Staged)
      /\ \A t \in Scanners : handoff[t][j].owner # "none" =>
              j \in prober[t].outlived \/ Holds(t, j, InHand \ {"handoff"})
  BY DEF JvmInv, LeftoversHaveOwners, Marking, Staged
<1>7. CASE j # This(s)
  <2>1. channel'[j].sentinel = channel[j].sentinel /\ jar'[j] = jar[j] /\ handoff'[s][j] = handoff[s][j]
    BY <1>7 DEF TouchesOnly, OthersHandoffsStay
  <2>2. \A places : ~Holds(s, j, places)
    BY <1>7 DEF Holds
  <2>3. \A t \in Scanners : t # s => handoff'[t][j] = handoff[t][j]
    BY DEF Frame
  <2>4. channel'[j].sentinel # "none" => \E t \in Scanners : Holds(t, j, Marking)'
    BY <1>2, <1>6, <2>1, <2>2
  <2>5. jar'[j] # "none" => \E t \in Scanners : j \in prober'[t].littered \/ Holds(t, j, Staged)'
    BY <1>1, <1>2, <1>6, <2>1, <2>2
  <2>6. \A t \in Scanners : handoff'[t][j].owner # "none" =>
          j \in prober'[t].outlived \/ Holds(t, j, InHand \ {"handoff"})'
    BY <1>1, <1>2, <1>6, <2>1, <2>2, <2>3
  <2> QED  BY <2>4, <2>5, <2>6
<1>8. CASE j = This(s)
  <2>1. \A places : /\ Holds(s, j, places)' <=> prober'[s].pc \in places \cup {"killed"}
                    /\ Holds(s, j, places) <=> prober[s].pc \in places \cup {"killed"}
    BY <1>1, <1>8 DEF Holds
  <2>2. There(s)
    BY <1>8 DEF There
  <2>3. channel'[j].sentinel # "none" => \E t \in Scanners : Holds(t, j, Marking)'
    <3> SUFFICES ASSUME channel'[j].sentinel # "none" PROVE \E t \in Scanners : Holds(t, j, Marking)'
      OBVIOUS
    <3>1. CASE prober'[s].pc \in Marking
      BY <2>1, <3>1
    <3>2. CASE prober'[s].pc \notin Marking
      <4>1. channel[j].sentinel # "none" /\ prober[s].pc \notin Marking
        BY <1>8, <2>2, <3>2 DEF TouchesOnly
      <4> QED  BY <1>2, <1>5, <1>6, <2>1, <4>1
    <3> QED  BY <3>1, <3>2
  <2>4. jar'[j] # "none" => \E t \in Scanners : j \in prober'[t].littered \/ Holds(t, j, Staged)'
    <3> SUFFICES ASSUME jar'[j] # "none"
                 PROVE  \E t \in Scanners : j \in prober'[t].littered \/ Holds(t, j, Staged)'
      OBVIOUS
    <3>1. CASE j \in prober'[s].littered \/ prober'[s].pc \in Staged
      BY <2>1, <3>1
    <3>2. CASE ~(j \in prober'[s].littered \/ prober'[s].pc \in Staged)
      <4>1. jar[j] # "none" /\ prober[s].pc \notin Staged
        BY <1>8, <2>2, <3>2 DEF TouchesOnly
      <4> QED  BY <1>1, <1>2, <1>5, <1>6, <2>1, <3>2, <4>1
    <3> QED  BY <3>1, <3>2
  <2>5. handoff'[s][j].owner # "none" => j \in prober'[s].outlived \/ Holds(s, j, InHand \ {"handoff"})'
    <3> SUFFICES ASSUME handoff'[s][j].owner # "none"
                 PROVE  j \in prober'[s].outlived \/ Holds(s, j, InHand \ {"handoff"})'
      OBVIOUS
    <3>1. \/ j \in prober'[s].outlived \/ prober'[s].pc \in InHand \ {"handoff"}
          \/ handoff[s][j].owner # "none" /\ prober[s].pc = "handoff"
      BY <1>8, <2>2 DEF TouchesOnly
    <3>2. handoff[s][j].owner # "none" /\ prober[s].pc = "handoff" => j \in prober[s].outlived
      BY <1>5, <1>6, <2>1
    <3> QED  BY <1>1, <2>1, <3>1, <3>2
  <2>6. \A t \in Scanners : t # s => (handoff'[t][j].owner # "none" =>
          j \in prober'[t].outlived \/ Holds(t, j, InHand \ {"handoff"})')
    BY <1>2, <1>6 DEF Frame
  <2> QED  BY <2>3, <2>4, <2>5, <2>6
<1> QED  BY <1>7, <1>8

LEMMA HandKeepsInv ==
  ASSUME JvmInv, NEW s \in Scanners, JvmTypeOK', Frame(s), prober[s].pc \in InHand, OthersHandoffsStay(s),
         (\E p \in InHand : MovesOn(s, p)) \/ GivesUp(s), TouchesOnly(s),
         ToldOrLost(handoff'[s][This(s)])
  PROVE  JvmInv'
<1>1. /\ PlaceIsSound(s)' /\ RefusalsAreTold(s)' /\ CapturesAreKept(s)' /\ StatusIsEarned(s)'
      /\ TurnedTo(s)' = TurnedTo(s)
      /\ \A j \in Jvms : prober'[s].signals[j] \subseteq prober[s].signals[j] \cup {"attach-refused"}
  BY HandKeepsScan
<1>2. ASSUME NEW t \in Scanners, t # s
      PROVE  /\ PlaceIsSound(t)' /\ RefusalsAreTold(t)' /\ CapturesAreKept(t)' /\ StatusIsEarned(t)'
             /\ TurnedTo(t)' = TurnedTo(t)
  BY <1>2, OthersStay
<1>3. jvmHost' = jvmHost /\ \A t \in Scanners : TurnedTo(t)' = TurnedTo(t)
  BY <1>1, <1>2 DEF Frame
<1>4. This(s) \in TurnedTo(s)
  BY DEF JvmInv, PlaceIsSound
<1>5. ChannelsAreAccountedFor'
  <2>1. ASSUME NEW j \in Jvms
        PROVE  /\ channel[j].by \subseteq channel'[j].by /\ channel'[j].by \subseteq Scanners
               /\ \A t \in channel'[j].by : t \in channel[j].by \/ j \in TurnedTo(t)'
               /\ channel'[j].quit => channel[j].quit \/ channel'[j].by # {}
               /\ channel'[j].socket => channel[j].socket
               /\ channel'[j].sentinel # "none" =>
                    channel[j].sentinel # "none" \/ \E t \in Scanners : j \in TurnedTo(t)'
    <3>1. channel[j].by \subseteq Scanners
      BY DEF JvmInv, JvmTypeOK, Channels
    <3>2. channel'[j].by \subseteq channel[j].by \cup (IF j = This(s) THEN {s} ELSE {})
      BY DEF TouchesOnly
    <3>3. channel'[j].sentinel # "none" => channel[j].sentinel # "none" \/ j = This(s)
      BY DEF TouchesOnly
    <3>4. /\ channel[j].by \subseteq channel'[j].by
          /\ channel'[j].quit => channel[j].quit \/ channel'[j].by # {}
          /\ channel'[j].socket => channel[j].socket
      BY DEF TouchesOnly
    <3>5. \A t \in channel'[j].by : t \in channel[j].by \/ j \in TurnedTo(t)'
      BY <1>1, <1>4, <3>2
    <3> QED  BY <1>1, <1>4, <3>1, <3>2, <3>3, <3>4, <3>5
  <2> QED  BY <1>3, <2>1, ChannelsGoOn
<1>6. OwnFootprintIsNotEvidence'
  <2> SUFFICES ASSUME NEW t \in Scanners, NEW j \in Jvms, NEW e \in ChannelEvidence, e \in prober'[t].signals[j]
               PROVE  /\ e = "attach-listener-already-started" =>
                           jvmHost'.processes[j].attachedBefore \/ channel'[j].by \ {t} # {}
                      /\ e = "attach-sentinel-present" => \E u \in Scanners \ {t} : j \in TurnedTo(u)'
    BY DEF OwnFootprintIsNotEvidence, ChannelEvidence
  <2>1. e \in prober[t].signals[j]
    BY <1>1 DEF Frame, ChannelEvidence
  <2>2. \A k \in Jvms : channel[k].by \subseteq channel'[k].by
    BY DEF TouchesOnly
  <2> QED  BY <1>3, <2>1, <2>2, OldEvidenceStays
<1>7. LeftoversHaveOwners'
  BY LeftoversGoOn
<1> QED  BY <1>1, <1>2, <1>5, <1>6, <1>7 DEF JvmInv

LEMMA HandIsOnAJvm ==
  ASSUME JvmInv, NEW s \in Scanners, prober[s].pc \in InHand
  PROVE  /\ This(s) \in Jvms /\ JvmTypeOK
         /\ ToldOrLost(handoff[s][This(s)])
  BY DEF JvmInv, PlaceIsSound, TurnedTo, Targets, CapturesAreKept

LEMMA MakeHandoffKeepsInv ==
  ASSUME JvmInv, NEW s \in Scanners, MakeHandoff(s)
  PROVE  JvmInv'
<1>1. prober[s].pc = "handoff" /\ prober[s].pc \in InHand
  BY DEF MakeHandoff, At, InHand, Pcs
<1>2. PICK j \in Jvms : j = This(s)
  BY <1>1, HandIsOnAJvm
<1>3. JvmTypeOK /\ ToldOrLost(handoff[s][j])
  BY <1>1, <1>2, HandIsOnAJvm
<1>4. UNCHANGED <<jvmHost, process, channel, jar, requests, agent, incidents>>
  BY DEF MakeHandoff
<1>5. CASE prober' = Refused(s) /\ UNCHANGED handoff
  <2>1. /\ prober' \in [Scanners -> Probers] /\ GivesUp(s)
        /\ \A t \in Scanners : t # s => prober'[t] = prober[t]
    BY <1>2, <1>3, <1>5, GivesUpState
  <2>2. JvmTypeOK' /\ Frame(s) /\ OthersHandoffsStay(s)
    BY <1>3, <1>4, <1>5, <2>1 DEF JvmTypeOK, Frame, OthersHandoffsStay
  <2>3. TouchesOnly(s)
    BY <1>1, <1>4, <1>5 DEF TouchesOnly, Marking, Staged
  <2> QED  BY <1>1, <1>2, <1>3, <1>5, <2>1, <2>2, <2>3, HandKeepsInv
<1>6. CASE /\ handoff' = [handoff EXCEPT ![s][j] = [NoHandoff EXCEPT !.owner = "theirs",
                                                       !.config = jvmHost.processes[j].room]]
           /\ prober' = [prober EXCEPT ![s].pc = "attach", ![s].late = FALSE, ![s].reply = "none"]
  <2>1. PICK room \in BOOLEAN : room = jvmHost.processes[j].room
    BY <1>3 DEF JvmTypeOK, Processes
  <2>2. PICK h \in Handoffs : h = [NoHandoff EXCEPT !.owner = "theirs", !.config = room] /\ ToldOrLost(h)
    BY FreshHandoff
  <2>3. handoff' = [handoff EXCEPT ![s][j] = h]
    BY <1>6, <2>1, <2>2
  <2>4. /\ handoff' \in [Scanners -> [Jvms -> Handoffs]] /\ handoff'[s][j] = h
        /\ \A k \in Jvms : k # j => handoff'[s][k] = handoff[s][k]
        /\ \A t \in Scanners : t # s => handoff'[t] = handoff[t]
    BY <1>3, <2>3 DEF JvmTypeOK
  <2>5. PICK r \in Probers : r = prober[s]
    BY <1>3 DEF JvmTypeOK
  <2>6. PICK q : q = [r EXCEPT !.pc = "attach", !.late = FALSE, !.reply = "none"]
    OBVIOUS
  <2>7. q \in Probers /\ Same(q, r) /\ q.pc = "attach" /\ q.signals = r.signals /\ q.littered = r.littered
         /\ q.outlived = r.outlived
    <3> "attach" \in Pcs
      BY DEF Pcs
    <3> QED  BY <2>6 DEF Probers, Same
  <2>8. prober' = [prober EXCEPT ![s] = q]
    BY <1>6, <2>5, <2>6
  <2>9. /\ prober' \in [Scanners -> Probers] /\ prober'[s] = q
        /\ \A t \in Scanners : t # s => prober'[t] = prober[t]
    BY <1>3, <2>7, <2>8, ProberSet
  <2>10. MovesOn(s, "attach") /\ "attach" \in InHand
    BY <2>5, <2>7, <2>9 DEF MovesOn, Keeps, Silent, Same, InHand, Pcs
  <2>11. JvmTypeOK' /\ Frame(s) /\ OthersHandoffsStay(s)
    BY <1>2, <1>3, <1>4, <2>4, <2>9 DEF JvmTypeOK, Frame, OthersHandoffsStay
  <2>12. TouchesOnly(s)
    BY <1>1, <1>4, <2>10 DEF TouchesOnly, Marking, Staged, MovesOn
  <2> QED  BY <1>1, <1>2, <2>2, <2>4, <2>10, <2>11, <2>12, HandKeepsInv
<1> QED  BY <1>2, <1>5, <1>6 DEF MakeHandoff

LEMMA BeginAttachKeepsInv ==
  ASSUME JvmInv, NEW s \in Scanners, BeginAttach(s)
  PROVE  JvmInv'
<1>1. prober[s].pc = "attach" /\ prober[s].pc \in InHand
  BY DEF BeginAttach, At, InHand, Pcs
<1>2. PICK j \in Jvms : j = This(s)
  BY <1>1, HandIsOnAJvm
<1>3. JvmTypeOK /\ ToldOrLost(handoff[s][j])
  BY <1>1, <1>2, HandIsOnAJvm
<1>4. UNCHANGED <<jvmHost, process, jar, requests, agent, incidents>>
  BY DEF BeginAttach
<1>5. CASE prober' = Refused(s) /\ handoff' = Cleared(s) /\ UNCHANGED channel
  <2>1. /\ prober' \in [Scanners -> Probers] /\ GivesUp(s)
        /\ \A t \in Scanners : t # s => prober'[t] = prober[t]
    BY <1>2, <1>3, <1>5, GivesUpState
  <2>2. /\ handoff' \in [Scanners -> [Jvms -> Handoffs]] /\ OthersHandoffsStay(s) /\ Disowned(s)
        /\ \A t \in Scanners : t # s => handoff'[t] = handoff[t]
    BY <1>2, <1>3, <1>5, ClearedState
  <2>3. JvmTypeOK' /\ Frame(s)
    BY <1>3, <1>4, <1>5, <2>1, <2>2 DEF JvmTypeOK, Frame
  <2>4. TouchesOnly(s)
    BY <1>1, <1>2, <1>4, <1>5, <2>2 DEF TouchesOnly, Marking, Staged, Disowned
  <2> QED  BY <1>1, <1>2, <1>3, <2>1, <2>2, <2>3, <2>4, HandKeepsInv DEF Disowned
<1>6. CASE prober' = [prober EXCEPT ![s].pc = "stage"] /\ UNCHANGED <<handoff, channel>>
  <2>0. "stage" \in Pcs /\ "stage" \in InHand
    BY DEF InHand, Pcs
  <2>1. /\ prober' \in [Scanners -> Probers] /\ MovesOn(s, "stage")
        /\ \A t \in Scanners : t # s => prober'[t] = prober[t]
    BY <1>3, <1>6, <2>0, MovesOnState
  <2>2. JvmTypeOK' /\ Frame(s) /\ OthersHandoffsStay(s)
    BY <1>3, <1>4, <1>6, <2>1 DEF JvmTypeOK, Frame, OthersHandoffsStay
  <2>3. TouchesOnly(s)
    BY <1>1, <1>4, <1>6, <2>0, <2>1 DEF TouchesOnly, Marking, Staged, MovesOn
  <2> QED  BY <1>1, <1>2, <1>3, <1>6, <2>0, <2>1, <2>2, <2>3, HandKeepsInv
<1>7. CASE /\ There(s) /\ channel' = [channel EXCEPT ![j].sentinel = jvmHost.processes[j].sentinel]
           /\ prober' = [prober EXCEPT ![s].pc = "signal"] /\ UNCHANGED handoff
  <2>0. "signal" \in Pcs /\ "signal" \in InHand
    BY DEF InHand, Pcs
  <2>1. /\ prober' \in [Scanners -> Probers] /\ MovesOn(s, "signal")
        /\ \A t \in Scanners : t # s => prober'[t] = prober[t]
    BY <1>3, <1>7, <2>0, MovesOnState
  <2>2. PICK w \in {"none", "cwd", "tmp"} : w = jvmHost.processes[j].sentinel
    BY <1>3 DEF JvmTypeOK, Processes
  <2>3. channel' = [channel EXCEPT ![j].sentinel = w]
    BY <1>7, <2>2
  <2>4. /\ channel' \in [Jvms -> Channels] /\ ChannelsStay
        /\ channel'[j].sentinel = w /\ \A k \in Jvms : k # j => channel'[k].sentinel = channel[k].sentinel
    BY <1>3, <2>3, SentinelState
  <2>5. JvmTypeOK' /\ Frame(s) /\ OthersHandoffsStay(s)
    BY <1>3, <1>4, <1>7, <2>1, <2>4 DEF JvmTypeOK, Frame, OthersHandoffsStay
  <2>6. TouchesOnly(s)
    BY <1>1, <1>2, <1>4, <1>7, <2>0, <2>1, <2>4 DEF TouchesOnly, Marking, Staged, MovesOn, ChannelsStay
  <2> QED  BY <1>1, <1>2, <1>3, <1>7, <2>0, <2>1, <2>5, <2>6, HandKeepsInv
<1> QED  BY <1>2, <1>5, <1>6, <1>7 DEF BeginAttach

LEMMA SignalKeepsInv ==
  ASSUME JvmInv, NEW s \in Scanners, Signal(s)
  PROVE  JvmInv'
<1>1. prober[s].pc = "signal" /\ prober[s].pc \in InHand
  BY DEF Signal, At, InHand, Pcs
<1>2. PICK j \in Jvms : j = This(s)
  BY <1>1, HandIsOnAJvm
<1>3. JvmTypeOK /\ ToldOrLost(handoff[s][j])
  BY <1>1, <1>2, HandIsOnAJvm
<1>4. UNCHANGED <<jvmHost, process, jar, requests, agent, incidents>>
  BY DEF Signal
<1>5. CASE /\ There(s) /\ channel' = [channel EXCEPT ![j].quit = TRUE, ![j].by = @ \cup {s}]
           /\ prober' = [prober EXCEPT ![s].pc = "poll"] /\ UNCHANGED handoff
  <2>0. "poll" \in Pcs /\ "poll" \in InHand
    BY DEF InHand, Pcs
  <2>1. /\ prober' \in [Scanners -> Probers] /\ MovesOn(s, "poll")
        /\ \A t \in Scanners : t # s => prober'[t] = prober[t]
    BY <1>3, <1>5, <2>0, MovesOnState
  <2>2. PICK c \in Channels : c = channel[j]
    BY <1>3 DEF JvmTypeOK
  <2>3. PICK w \in SUBSET Scanners : w = c.by \cup {s}
    BY DEF Channels
  <2>4. PICK q : q = [c EXCEPT !.quit = TRUE, !.by = w]
    OBVIOUS
  <2>5. q \in Channels /\ q.sentinel = c.sentinel /\ q.by = w /\ q.socket = c.socket
    BY <2>4 DEF Channels
  <2>6. channel' = [channel EXCEPT ![j] = q]
    BY <1>5, <2>2, <2>3, <2>4
  <2>7. /\ channel' \in [Jvms -> Channels] /\ channel'[j] = q
        /\ \A k \in Jvms : k # j => channel'[k] = channel[k]
    BY <1>3, <2>5, <2>6 DEF JvmTypeOK
  <2>8. JvmTypeOK' /\ Frame(s) /\ OthersHandoffsStay(s)
    BY <1>3, <1>4, <1>5, <2>1, <2>7 DEF JvmTypeOK, Frame, OthersHandoffsStay
  <2>9. TouchesOnly(s)
    BY <1>1, <1>2, <1>4, <1>5, <2>0, <2>1, <2>2, <2>3, <2>5, <2>7 DEF TouchesOnly, Marking, Staged, MovesOn
  <2> QED  BY <1>1, <1>2, <1>3, <1>5, <2>0, <2>1, <2>8, <2>9, HandKeepsInv
<1>6. CASE ~There(s) /\ channel' = Unmarked(s) /\ prober' = Refused(s) /\ handoff' = Cleared(s)
  <2>1. /\ prober' \in [Scanners -> Probers] /\ GivesUp(s)
        /\ \A t \in Scanners : t # s => prober'[t] = prober[t]
    BY <1>2, <1>3, <1>6, GivesUpState
  <2>2. /\ handoff' \in [Scanners -> [Jvms -> Handoffs]] /\ OthersHandoffsStay(s) /\ Disowned(s)
        /\ \A t \in Scanners : t # s => handoff'[t] = handoff[t]
    BY <1>2, <1>3, <1>6, ClearedState
  <2>3. /\ channel' = channel
    BY <1>6 DEF Unmarked
  <2>4. JvmTypeOK' /\ Frame(s)
    BY <1>3, <1>4, <2>1, <2>2, <2>3 DEF JvmTypeOK, Frame
  <2>5. TouchesOnly(s)
    BY <1>1, <1>2, <1>4, <1>6, <2>2, <2>3 DEF TouchesOnly, Marking, Staged, Disowned
  <2> QED  BY <1>1, <1>2, <1>3, <2>1, <2>2, <2>4, <2>5, HandKeepsInv DEF Disowned
<1> QED  BY <1>2, <1>5, <1>6 DEF Signal

LEMMA PollKeepsInv ==
  ASSUME JvmInv, NEW s \in Scanners, Poll(s)
  PROVE  JvmInv'
<1>1. prober[s].pc = "poll" /\ prober[s].pc \in InHand
  BY DEF Poll, At, InHand, Pcs
<1>2. PICK j \in Jvms : j = This(s)
  BY <1>1, HandIsOnAJvm
<1>3. JvmTypeOK /\ ToldOrLost(handoff[s][j])
  BY <1>1, <1>2, HandIsOnAJvm
<1>4. UNCHANGED <<jvmHost, process, jar, requests, agent, incidents>> /\ channel' = Unmarked(s)
  BY DEF Poll
<1>5. /\ channel' \in [Jvms -> Channels] /\ ChannelsStay
      /\ channel'[j].sentinel = IF There(s) THEN "none" ELSE channel[j].sentinel
      /\ \A k \in Jvms : k # j => channel'[k].sentinel = channel[k].sentinel
  BY <1>2, <1>3, <1>4, UnmarkedState
<1>6. CASE prober' = [prober EXCEPT ![s].pc = "stage"] /\ UNCHANGED handoff
  <2>0. "stage" \in Pcs /\ "stage" \in InHand
    BY DEF InHand, Pcs
  <2>1. /\ prober' \in [Scanners -> Probers] /\ MovesOn(s, "stage")
        /\ \A t \in Scanners : t # s => prober'[t] = prober[t]
    BY <1>3, <1>6, <2>0, MovesOnState
  <2>2. JvmTypeOK' /\ Frame(s) /\ OthersHandoffsStay(s)
    BY <1>3, <1>4, <1>5, <1>6, <2>1 DEF JvmTypeOK, Frame, OthersHandoffsStay
  <2>3. TouchesOnly(s)
    BY <1>1, <1>2, <1>4, <1>5, <1>6, <2>0, <2>1 DEF TouchesOnly, Marking, Staged, MovesOn, ChannelsStay
  <2> QED  BY <1>1, <1>2, <1>3, <1>6, <2>0, <2>1, <2>2, <2>3, HandKeepsInv
<1>7. CASE prober' = Refused(s) /\ handoff' = Cleared(s)
  <2>1. /\ prober' \in [Scanners -> Probers] /\ GivesUp(s)
        /\ \A t \in Scanners : t # s => prober'[t] = prober[t]
    BY <1>2, <1>3, <1>7, GivesUpState
  <2>2. /\ handoff' \in [Scanners -> [Jvms -> Handoffs]] /\ OthersHandoffsStay(s) /\ Disowned(s)
        /\ \A t \in Scanners : t # s => handoff'[t] = handoff[t]
    BY <1>2, <1>3, <1>7, ClearedState
  <2>3. JvmTypeOK' /\ Frame(s)
    BY <1>3, <1>4, <1>5, <2>1, <2>2 DEF JvmTypeOK, Frame
  <2>4. TouchesOnly(s)
    BY <1>1, <1>2, <1>4, <1>5, <2>2 DEF TouchesOnly, Marking, Staged, Disowned, ChannelsStay
  <2> QED  BY <1>1, <1>2, <1>3, <2>1, <2>2, <2>3, <2>4, HandKeepsInv DEF Disowned
<1> QED  BY <1>6, <1>7 DEF Poll

LEMMA BeginStagingKeepsInv ==
  ASSUME JvmInv, NEW s \in Scanners, BeginStaging(s)
  PROVE  JvmInv'
<1>1. prober[s].pc = "stage" /\ prober[s].pc \in InHand
  BY DEF BeginStaging, At, InHand, Pcs
<1>2. PICK j \in Jvms : j = This(s)
  BY <1>1, HandIsOnAJvm
<1>3. JvmTypeOK /\ ToldOrLost(handoff[s][j])
  BY <1>1, <1>2, HandIsOnAJvm
<1>4. /\ prober' = [prober EXCEPT ![s].pc = "staging"]
      /\ jar' = [jar EXCEPT ![j] = IF There(s) THEN "partial" ELSE @]
      /\ UNCHANGED <<jvmHost, process, channel, requests, agent, handoff, incidents>>
  BY <1>2 DEF BeginStaging
<1>5. "staging" \in Pcs /\ "staging" \in InHand
  BY DEF InHand, Pcs
<1>6. /\ prober' \in [Scanners -> Probers] /\ MovesOn(s, "staging")
      /\ \A t \in Scanners : t # s => prober'[t] = prober[t]
  BY <1>3, <1>4, <1>5, MovesOnState
<1>7. /\ jar' \in [Jvms -> {"none", "partial", "whole"}]
      /\ \A k \in Jvms : k # j => jar'[k] = jar[k]
  BY <1>3, <1>4 DEF JvmTypeOK
<1>8. JvmTypeOK' /\ Frame(s) /\ OthersHandoffsStay(s)
  BY <1>3, <1>4, <1>6, <1>7 DEF JvmTypeOK, Frame, OthersHandoffsStay
<1>9. TouchesOnly(s)
  BY <1>1, <1>2, <1>4, <1>5, <1>6, <1>7 DEF TouchesOnly, Marking, Staged, MovesOn
<1> QED  BY <1>1, <1>2, <1>3, <1>4, <1>5, <1>6, <1>8, <1>9, HandKeepsInv

LEMMA EndStagingKeepsInv ==
  ASSUME JvmInv, NEW s \in Scanners, EndStaging(s)
  PROVE  JvmInv'
<1>1. prober[s].pc = "staging" /\ prober[s].pc \in InHand
  BY DEF EndStaging, At, InHand, Pcs
<1>2. PICK j \in Jvms : j = This(s)
  BY <1>1, HandIsOnAJvm
<1>3. JvmTypeOK /\ ToldOrLost(handoff[s][j])
  BY <1>1, <1>2, HandIsOnAJvm
<1>4. UNCHANGED <<jvmHost, process, channel, requests, agent, incidents>>
  BY DEF EndStaging
<1>5. CASE /\ There(s) /\ jar' = [jar EXCEPT ![j] = "whole"]
           /\ prober' = [prober EXCEPT ![s].pc = "connect"] /\ UNCHANGED handoff
  <2>0. "connect" \in Pcs /\ "connect" \in InHand
    BY DEF InHand, Pcs
  <2>1. /\ prober' \in [Scanners -> Probers] /\ MovesOn(s, "connect")
        /\ \A t \in Scanners : t # s => prober'[t] = prober[t]
    BY <1>3, <1>5, <2>0, MovesOnState
  <2>2. /\ jar' \in [Jvms -> {"none", "partial", "whole"}]
        /\ \A k \in Jvms : k # j => jar'[k] = jar[k]
    BY <1>3, <1>5 DEF JvmTypeOK
  <2>3. JvmTypeOK' /\ Frame(s) /\ OthersHandoffsStay(s)
    BY <1>3, <1>4, <1>5, <2>1, <2>2 DEF JvmTypeOK, Frame, OthersHandoffsStay
  <2>4. TouchesOnly(s)
    BY <1>1, <1>2, <1>4, <1>5, <2>0, <2>1, <2>2 DEF TouchesOnly, Marking, Staged, MovesOn
  <2> QED  BY <1>1, <1>2, <1>3, <1>5, <2>0, <2>1, <2>3, <2>4, HandKeepsInv
<1>6. CASE /\ prober' = [Refused(s) EXCEPT ![s].littered = @ \cup (IF There(s) THEN {j} ELSE {})]
           /\ handoff' = Cleared(s) /\ UNCHANGED jar
  <2>1. PICK r \in Probers :
           /\ Refused(s) = [prober EXCEPT ![s] = r]
           /\ Same(r, prober[s]) /\ r.pc = "next" /\ r.littered = prober[s].littered
           /\ r.outlived = prober[s].outlived
           /\ r.signals[This(s)] = prober[s].signals[This(s)] \cup {"attach-refused"}
           /\ \A k \in Jvms : k # This(s) => r.signals[k] = prober[s].signals[k]
    BY <1>2, <1>3, GivesUpRecord
  <2>2. PICK left \in SUBSET Jvms : left = r.littered \cup (IF There(s) THEN {j} ELSE {})
    BY <1>2 DEF Probers
  <2>3. PICK q : q = [r EXCEPT !.littered = left]
    OBVIOUS
  <2>4. q \in Probers /\ Same(q, r) /\ q.pc = r.pc /\ q.signals = r.signals /\ q.littered = left
         /\ q.outlived = r.outlived
    BY <2>3, OnlyLittered
  <2>5. [prober EXCEPT ![s] = r][s] = r
    BY <1>3 DEF JvmTypeOK
  <2>6. prober' = [[prober EXCEPT ![s] = r] EXCEPT ![s] = q]
    BY <1>6, <2>1, <2>2, <2>3, <2>5
  <2>7. prober' = [prober EXCEPT ![s] = q]
    BY <1>3, <2>6 DEF JvmTypeOK
  <2>8. /\ prober' \in [Scanners -> Probers] /\ prober'[s] = q
        /\ \A t \in Scanners : t # s => prober'[t] = prober[t]
    BY <1>3, <2>4, <2>7, ProberSet
  <2>9. GivesUp(s)
    BY <2>1, <2>2, <2>4, <2>8 DEF GivesUp, Keeps, Same
  <2>10. /\ handoff' \in [Scanners -> [Jvms -> Handoffs]] /\ OthersHandoffsStay(s) /\ Disowned(s)
         /\ \A t \in Scanners : t # s => handoff'[t] = handoff[t]
    BY <1>2, <1>3, <1>6, ClearedState
  <2>11. JvmTypeOK' /\ Frame(s)
    BY <1>3, <1>4, <1>6, <2>8, <2>10 DEF JvmTypeOK, Frame
  <2>12. TouchesOnly(s)
    BY <1>1, <1>2, <1>4, <1>6, <2>2, <2>4, <2>8, <2>10 DEF TouchesOnly, Marking, Staged, Disowned
  <2> QED  BY <1>1, <1>2, <1>3, <2>9, <2>10, <2>11, <2>12, HandKeepsInv DEF Disowned
<1> QED  BY <1>2, <1>5, <1>6 DEF EndStaging

LEMMA UnstagedState ==
  ASSUME JvmTypeOK, NEW s \in Scanners, This(s) \in Jvms, jar' = Unstaged(s)
  PROVE  /\ jar' \in [Jvms -> {"none", "partial", "whole"}]
         /\ There(s) => jar'[This(s)] = "none"
         /\ \A k \in Jvms : k # This(s) => jar'[k] = jar[k]
  BY DEF JvmTypeOK, Unstaged

LEMMA LoadKeepsInv ==
  ASSUME JvmInv, NEW s \in Scanners, Load(s)
  PROVE  JvmInv'
<1>1. prober[s].pc = "connect" /\ prober[s].pc \in InHand
  BY DEF Load, At, InHand, Pcs
<1>2. PICK j \in Jvms : j = This(s)
  BY <1>1, HandIsOnAJvm
<1>3. JvmTypeOK /\ ToldOrLost(handoff[s][j])
  BY <1>1, <1>2, HandIsOnAJvm
<1>4. UNCHANGED <<jvmHost, process, channel, agent, incidents>>
  BY DEF Load
<1>5. CASE /\ requests' = [requests EXCEPT ![j] = Append(@, s)]
           /\ prober' = [prober EXCEPT ![s].pc = "response"] /\ UNCHANGED <<jar, handoff>>
  <2>0. "response" \in Pcs /\ "response" \in InHand
    BY DEF InHand, Pcs
  <2>1. /\ prober' \in [Scanners -> Probers] /\ MovesOn(s, "response")
        /\ \A t \in Scanners : t # s => prober'[t] = prober[t]
    BY <1>3, <1>5, <2>0, MovesOnState
  <2>2. requests' \in [Jvms -> Seq(Scanners)]
    BY <1>3, <1>5 DEF JvmTypeOK
  <2>3. JvmTypeOK' /\ Frame(s) /\ OthersHandoffsStay(s)
    BY <1>3, <1>4, <1>5, <2>1, <2>2 DEF JvmTypeOK, Frame, OthersHandoffsStay
  <2>4. TouchesOnly(s)
    BY <1>1, <1>2, <1>4, <1>5, <2>0, <2>1 DEF TouchesOnly, Marking, Staged, MovesOn
  <2> QED  BY <1>1, <1>2, <1>3, <1>5, <2>0, <2>1, <2>3, <2>4, HandKeepsInv
<1>6. CASE prober' = Refused(s) /\ jar' = Unstaged(s) /\ handoff' = Cleared(s) /\ UNCHANGED requests
  <2>1. /\ prober' \in [Scanners -> Probers] /\ GivesUp(s)
        /\ \A t \in Scanners : t # s => prober'[t] = prober[t]
    BY <1>2, <1>3, <1>6, GivesUpState
  <2>2. /\ handoff' \in [Scanners -> [Jvms -> Handoffs]] /\ OthersHandoffsStay(s) /\ Disowned(s)
        /\ \A t \in Scanners : t # s => handoff'[t] = handoff[t]
    BY <1>2, <1>3, <1>6, ClearedState
  <2>3. /\ jar' \in [Jvms -> {"none", "partial", "whole"}]
        /\ There(s) => jar'[j] = "none"
        /\ \A k \in Jvms : k # j => jar'[k] = jar[k]
    BY <1>2, <1>3, <1>6, UnstagedState
  <2>4. JvmTypeOK' /\ Frame(s)
    BY <1>3, <1>4, <1>6, <2>1, <2>2, <2>3 DEF JvmTypeOK, Frame
  <2>5. TouchesOnly(s)
    BY <1>1, <1>2, <1>4, <2>2, <2>3 DEF TouchesOnly, Marking, Staged, Disowned
  <2> QED  BY <1>1, <1>2, <1>3, <2>1, <2>2, <2>4, <2>5, HandKeepsInv DEF Disowned
<1> QED  BY <1>2, <1>5, <1>6 DEF Load

LEMMA ReadResponseKeepsInv ==
  ASSUME JvmInv, NEW s \in Scanners, ReadResponse(s)
  PROVE  JvmInv'
<1>1. prober[s].pc = "response" /\ prober[s].pc \in InHand
  BY DEF ReadResponse, At, InHand, Pcs
<1>2. PICK j \in Jvms : j = This(s)
  BY <1>1, HandIsOnAJvm
<1>3. JvmTypeOK /\ ToldOrLost(handoff[s][j])
  BY <1>1, <1>2, HandIsOnAJvm
<1>4. UNCHANGED <<jvmHost, process, channel, requests, agent, incidents>> /\ jar' = Unstaged(s)
  BY DEF ReadResponse
<1>5. /\ jar' \in [Jvms -> {"none", "partial", "whole"}]
      /\ There(s) => jar'[j] = "none"
      /\ \A k \in Jvms : k # j => jar'[k] = jar[k]
  BY <1>2, <1>3, <1>4, UnstagedState
<1>6. CASE prober' = [prober EXCEPT ![s].pc = "read"] /\ UNCHANGED handoff
  <2>0. "read" \in Pcs /\ "read" \in InHand
    BY DEF InHand, Pcs
  <2>1. /\ prober' \in [Scanners -> Probers] /\ MovesOn(s, "read")
        /\ \A t \in Scanners : t # s => prober'[t] = prober[t]
    BY <1>3, <1>6, <2>0, MovesOnState
  <2>2. JvmTypeOK' /\ Frame(s) /\ OthersHandoffsStay(s)
    BY <1>3, <1>4, <1>5, <1>6, <2>1 DEF JvmTypeOK, Frame, OthersHandoffsStay
  <2>3. TouchesOnly(s)
    BY <1>1, <1>2, <1>4, <1>5, <1>6, <2>0, <2>1 DEF TouchesOnly, Marking, Staged, MovesOn
  <2> QED  BY <1>1, <1>2, <1>3, <1>6, <2>0, <2>1, <2>2, <2>3, HandKeepsInv
<1>7. CASE prober' = GaveUp(s) /\ handoff' \in ClearedBeside(s)
  <2>1. PICK r \in Probers :
           /\ Refused(s) = [prober EXCEPT ![s] = r]
           /\ Same(r, prober[s]) /\ r.pc = "next" /\ r.littered = prober[s].littered
           /\ r.outlived = prober[s].outlived
           /\ r.signals[This(s)] = prober[s].signals[This(s)] \cup {"attach-refused"}
           /\ \A k \in Jvms : k # This(s) => r.signals[k] = prober[s].signals[k]
    BY <1>2, <1>3, GivesUpRecord
  <2>2. PICK left \in SUBSET Jvms : left = r.outlived \cup (IF Outlives(s) THEN {j} ELSE {})
    BY <1>2 DEF Probers
  <2>3. PICK q : q = [r EXCEPT !.outlived = left]
    OBVIOUS
  <2>4. q \in Probers /\ Same(q, r) /\ q.pc = r.pc /\ q.signals = r.signals /\ q.littered = r.littered
         /\ q.outlived = left
    BY <2>3, OnlyOutlived
  <2>5. [prober EXCEPT ![s] = r][s] = r
    BY <1>3 DEF JvmTypeOK
  <2>6. prober' = [[prober EXCEPT ![s] = r] EXCEPT ![s] = q]
    BY <1>2, <1>7, <2>1, <2>2, <2>3, <2>5 DEF GaveUp
  <2>7. prober' = [prober EXCEPT ![s] = q]
    BY <1>3, <2>6 DEF JvmTypeOK
  <2>8. /\ prober' \in [Scanners -> Probers] /\ prober'[s] = q
        /\ \A t \in Scanners : t # s => prober'[t] = prober[t]
    BY <1>3, <2>4, <2>7, ProberSet
  <2>9. GivesUp(s)
    BY <2>1, <2>2, <2>4, <2>8 DEF GivesUp, Keeps, Same
  <2>10. /\ handoff' \in [Scanners -> [Jvms -> Handoffs]] /\ OthersHandoffsStay(s)
         /\ ToldOrLost(handoff'[s][j])
         /\ There(s) /\ handoff'[s][j].owner # "none" => j \in left
         /\ \A t \in Scanners : t # s => handoff'[t] = handoff[t]
    <3>1. CASE handoff' = Cleared(s)
      <4>1. /\ handoff' \in [Scanners -> [Jvms -> Handoffs]] /\ OthersHandoffsStay(s) /\ Disowned(s)
            /\ \A t \in Scanners : t # s => handoff'[t] = handoff[t]
        BY <1>2, <1>3, <3>1, ClearedState
      <4> QED  BY <1>2, <1>3, <4>1 DEF Disowned
    <3>2. CASE Outlives(s) /\ handoff' = Emptied(s)
      <4>1. PICK h : h = [NoHandoff EXCEPT !.owner = "theirs"]
        OBVIOUS
      <4>2. h \in Handoffs /\ ToldOrLost(h)
        BY <4>1, EmptyHandoff
      <4>3. handoff' = [handoff EXCEPT ![s][j] = h]
        BY <1>2, <3>2, <4>1 DEF Emptied
      <4>4. /\ handoff' \in [Scanners -> [Jvms -> Handoffs]] /\ handoff'[s][j] = h
            /\ \A k \in Jvms : k # j => handoff'[s][k] = handoff[s][k]
            /\ \A t \in Scanners : t # s => handoff'[t] = handoff[t]
        BY <1>3, <4>2, <4>3 DEF JvmTypeOK
      <4> QED  BY <1>2, <2>2, <3>2, <4>2, <4>4 DEF OthersHandoffsStay
    <3> QED  BY <1>7, <3>1, <3>2 DEF ClearedBeside
  <2>11. JvmTypeOK' /\ Frame(s)
    BY <1>3, <1>4, <1>5, <2>8, <2>10 DEF JvmTypeOK, Frame
  <2>12. TouchesOnly(s)
    BY <1>1, <1>2, <1>4, <1>5, <2>4, <2>8, <2>10 DEF TouchesOnly, Marking, Staged
  <2> QED  BY <1>1, <1>2, <2>9, <2>10, <2>11, <2>12, HandKeepsInv
<1> QED  BY <1>6, <1>7 DEF ReadResponse

-----------------------------------------------------------------------------
(* A scan's other steps.                                                    *)

\* A step of a scan that touches no channel and no jar.
LEMMA QuietStepKeepsInv ==
  ASSUME JvmInv, NEW s \in Scanners, JvmTypeOK', Frame(s), UNCHANGED <<channel, jar>>,
         PlaceIsSound(s)' /\ RefusalsAreTold(s)' /\ CapturesAreKept(s)' /\ StatusIsEarned(s)',
         TurnedTo(s) \subseteq TurnedTo(s)',
         prober[s].littered \subseteq prober'[s].littered /\ prober[s].outlived \subseteq prober'[s].outlived,
         \A j \in Jvms :
           /\ Holds(s, j, Marking) => Holds(s, j, Marking)'
           /\ Holds(s, j, Staged) => Holds(s, j, Staged)'
           /\ process[j] # "gone" /\ handoff'[s][j].owner # "none" =>
                j \in prober'[s].outlived \/ Holds(s, j, InHand \ {"handoff"})'
           /\ "attach-listener-already-started" \in prober'[s].signals[j] \ prober[s].signals[j] =>
                jvmHost.processes[j].attachedBefore \/ channel[j].by \ {s} # {}
           /\ "attach-sentinel-present" \in prober'[s].signals[j] \ prober[s].signals[j] =>
                \E u \in Scanners \ {s} : j \in TurnedTo(u)
  PROVE  JvmInv'
<1>1. ASSUME NEW t \in Scanners, t # s
      PROVE  /\ PlaceIsSound(t)' /\ RefusalsAreTold(t)' /\ CapturesAreKept(t)' /\ StatusIsEarned(t)'
             /\ TurnedTo(t)' = TurnedTo(t) /\ This(t)' = This(t)
             /\ prober'[t] = prober[t] /\ handoff'[t] = handoff[t]
  BY <1>1, OthersStay DEF Frame
<1>2. jvmHost' = jvmHost /\ process' = process /\ channel' = channel /\ jar' = jar
  BY DEF Frame
<1>3. \A t \in Scanners : TurnedTo(t) \subseteq TurnedTo(t)'
  BY <1>1
<1>4. ChannelsAreAccountedFor'
  <2>1. \A j \in Jvms : channel[j].by \subseteq Scanners
    BY DEF JvmInv, JvmTypeOK, Channels
  <2> QED  BY <1>2, <1>3, <2>1, ChannelsGoOn
<1>5. OwnFootprintIsNotEvidence'
  <2> SUFFICES ASSUME NEW t \in Scanners, NEW j \in Jvms, NEW e \in ChannelEvidence, e \in prober'[t].signals[j]
               PROVE  /\ e = "attach-listener-already-started" =>
                           jvmHost'.processes[j].attachedBefore \/ channel'[j].by \ {t} # {}
                      /\ e = "attach-sentinel-present" => \E u \in Scanners \ {t} : j \in TurnedTo(u)'
    BY DEF OwnFootprintIsNotEvidence, ChannelEvidence
  <2>1. CASE e \in prober[t].signals[j]
    BY <1>2, <1>3, <2>1, OldEvidenceStays
  <2>2. CASE e \notin prober[t].signals[j]
    <3>1. t = s
      BY <1>1, <2>2
    <3> QED  BY <1>1, <1>2, <2>2, <3>1
  <2> QED  BY <2>1, <2>2
<1>6. LeftoversHaveOwners'
  <2>1. ASSUME NEW t \in Scanners, t # s, NEW j, NEW places
        PROVE  Holds(t, j, places)' <=> Holds(t, j, places)
    BY <1>1, <2>1 DEF Holds
  <2> SUFFICES ASSUME NEW j \in Jvms, process[j] # "gone"
               PROVE  /\ channel[j].sentinel # "none" => \E t \in Scanners : Holds(t, j, Marking)'
                      /\ jar[j] # "none" => \E t \in Scanners :
                           j \in prober'[t].littered \/ Holds(t, j, Staged)'
                      /\ \A t \in Scanners :
                           handoff'[t][j].owner # "none" =>
                                  j \in prober'[t].outlived \/ Holds(t, j, InHand \ {"handoff"})'
    BY <1>2 DEF LeftoversHaveOwners, Marking, Staged
  <2>2. /\ channel[j].sentinel # "none" => \E t \in Scanners : Holds(t, j, Marking)
        /\ jar[j] # "none" => \E t \in Scanners : j \in prober[t].littered \/ Holds(t, j, Staged)
        /\ \A t \in Scanners : handoff[t][j].owner # "none" =>
                j \in prober[t].outlived \/ Holds(t, j, InHand \ {"handoff"})
    BY DEF JvmInv, LeftoversHaveOwners, Marking, Staged
  <2>3. \A t \in Scanners : Holds(t, j, Marking) => Holds(t, j, Marking)'
    BY <2>1
  <2>4. \A t \in Scanners : Holds(t, j, Staged) => Holds(t, j, Staged)'
    BY <2>1
  <2>5. \A t \in Scanners : prober[t].littered \subseteq prober'[t].littered
    BY <1>1
  <2>6. \A t \in Scanners : handoff'[t][j].owner # "none" =>
          j \in prober'[t].outlived \/ Holds(t, j, InHand \ {"handoff"})'
    BY <1>1, <2>1, <2>2
  <2> QED  BY <2>2, <2>3, <2>4, <2>5, <2>6
<1> QED  BY <1>1, <1>4, <1>5, <1>6 DEF JvmInv

LEMMA JvmScanKilledKeepsInv ==
  ASSUME JvmInv, NEW s \in Scanners, JvmScanKilled(s)
  PROVE  JvmInv'
<1>1. /\ prober' = [prober EXCEPT ![s].pc = "killed"] /\ incidents' = incidents + 1
      /\ prober[s].pc \notin {"sweep", "done", "killed"}
      /\ UNCHANGED <<jvmHost, process, channel, jar, requests, agent, handoff>>
  BY DEF JvmScanKilled, Incident, Going, At
<1>2. "killed" \in Pcs
  BY DEF Pcs
<1>3. JvmTypeOK
  BY DEF JvmInv
<1>4. /\ prober' \in [Scanners -> Probers] /\ MovesOn(s, "killed")
      /\ \A t \in Scanners : t # s => prober'[t] = prober[t]
  BY <1>1, <1>2, <1>3, MovesOnState
<1>5. JvmTypeOK' /\ Frame(s)
  BY <1>1, <1>3, <1>4 DEF JvmTypeOK, Frame
<1>6. /\ Targets(s)' = Targets(s) /\ This(s)' = This(s) /\ TurnedTo(s)' = TurnedTo(s)
      /\ Keeps(s) /\ Silent(s) /\ prober'[s].pc = "killed"
  BY <1>1, <1>4 DEF Targets, TurnedTo, This, At, MovesOn, Keeps
<1>7. PlaceIsSound(s)'
  BY <1>1, <1>6 DEF JvmInv, PlaceIsSound, Keeps, At, InHand
<1>8. RefusalsAreTold(s)'
  BY <1>1, <1>6 DEF JvmInv, RefusalsAreTold, Keeps, Silent
<1>9. CapturesAreKept(s)' /\ StatusIsEarned(s)'
  BY <1>1, <1>6 DEF JvmInv, CapturesAreKept, StatusIsEarned, Keeps
<1>10. \A j, places : Holds(s, j, places) => Holds(s, j, places)'
  BY <1>6 DEF Holds
<1>11. \A j \in Jvms : process[j] # "gone" /\ handoff'[s][j].owner # "none" =>
        j \in prober'[s].outlived \/ Holds(s, j, InHand \ {"handoff"})'
  <2>1. prober'[s].outlived = prober[s].outlived /\ handoff' = handoff
    BY <1>1, <1>6 DEF Silent
  <2> QED  BY <1>10, <2>1 DEF JvmInv, LeftoversHaveOwners
<1> QED  BY <1>1, <1>5, <1>6, <1>7, <1>8, <1>9, <1>10, <1>11, QuietStepKeepsInv DEF Silent

LEMMA JvmSweepKeepsInv ==
  ASSUME JvmInv, NEW s \in Scanners, JvmSweep(s)
  PROVE  JvmInv'
<1>1. /\ prober[s].pc = "sweep"
      /\ UNCHANGED <<jvmHost, process, channel, jar, requests, agent, handoff, incidents>>
  BY DEF JvmSweep, At
<1>2. JvmTypeOK
  BY DEF JvmInv
<1>3. PICK r \in Probers : r = prober[s]
  BY <1>2 DEF JvmTypeOK
<1>4. PICK todo \in SUBSET Jvms : todo = Targets(s)
  BY DEF Targets
<1>5. PICK p : p = IF todo = {} THEN "done" ELSE "next"
  OBVIOUS
<1>6. PICK st : st = IF todo = {} THEN "n/a" ELSE r.status
  OBVIOUS
<1>7. p \in Pcs /\ st \in Statuses
  <2>1. r.status \in Statuses
    BY DEF Probers
  <2> QED  BY <1>5, <1>6, <2>1 DEF Pcs, Statuses
<1>8. PICK q : q = [r EXCEPT !.todo = todo, !.pc = p, !.status = st]
  OBVIOUS
<1>9. /\ q \in Probers /\ q.todo = todo /\ q.pc = p /\ q.status = st /\ q.jvm = r.jvm
      /\ q.attached = r.attached /\ q.incomplete = r.incomplete /\ q.facts = r.facts
      /\ q.signals = r.signals /\ q.littered = r.littered /\ q.outlived = r.outlived
  BY <1>7, <1>8 DEF Probers
<1>10. prober' = [prober EXCEPT ![s] = q]
  BY <1>3, <1>4, <1>5, <1>6, <1>8 DEF JvmSweep
<1>11. /\ prober' \in [Scanners -> Probers] /\ prober'[s] = q
       /\ \A t \in Scanners : t # s => prober'[t] = prober[t]
  BY <1>2, <1>9, <1>10, ProberSet
<1>12. JvmTypeOK' /\ Frame(s)
  BY <1>1, <1>2, <1>11 DEF JvmTypeOK, Frame
<1>13. /\ TurnedTo(s) = {} /\ prober[s].attached = {} /\ prober[s].incomplete = {} /\ prober[s].status = "none"
  BY <1>1 DEF JvmInv, PlaceIsSound, TurnedTo, At
<1>14. Targets(s)' = Targets(s) /\ TurnedTo(s)' = {}
  <2>1. Targets(s)' = Targets(s)
    BY <1>1 DEF Targets
  <2> QED  BY <1>4, <1>9, <1>11, <2>1 DEF TurnedTo
<1>15. PlaceIsSound(s)'
  BY <1>3, <1>4, <1>5, <1>6, <1>9, <1>11, <1>13, <1>14 DEF PlaceIsSound, At, InHand
<1>16. RefusalsAreTold(s)'
  BY <1>14 DEF RefusalsAreTold
<1>17. CapturesAreKept(s)'
  BY <1>1, <1>3, <1>9, <1>11 DEF JvmInv, CapturesAreKept
<1>18. StatusIsEarned(s)'
  BY <1>3, <1>6, <1>9, <1>11, <1>13 DEF StatusIsEarned
<1>19. \A j, places : Holds(s, j, places) => "sweep" \in places \cup {"killed"}
  BY <1>1 DEF Holds
<1>20. \A j \in Jvms : process[j] # "gone" /\ handoff'[s][j].owner # "none" => j \in prober[s].outlived
  BY <1>1, <1>19 DEF JvmInv, LeftoversHaveOwners, InHand
<1>21. \A j \in Jvms : ~Holds(s, j, Marking) /\ ~Holds(s, j, Staged)
  BY <1>19 DEF Marking, Staged
<1> QED
  BY <1>1, <1>3, <1>9, <1>11, <1>12, <1>13, <1>15, <1>16, <1>17, <1>18, <1>20, <1>21, QuietStepKeepsInv

LEMMA JvmTriageKeepsInv ==
  ASSUME JvmInv, NEW s \in Scanners, JvmTriage(s)
  PROVE  JvmInv'
<1>1. /\ prober[s].pc = "next"
      /\ UNCHANGED <<jvmHost, process, channel, jar, requests, agent, handoff, incidents>>
  BY DEF JvmTriage, At
<1>2. JvmTypeOK
  BY DEF JvmInv
<1>3. PICK r \in Probers : r = prober[s]
  BY <1>2 DEF JvmTypeOK
<1>4. PICK j : /\ j \in r.todo
               /\ prober' = [prober EXCEPT ![s].jvm = j, ![s].todo = @ \ {j}, ![s].pc = "handoff",
                               ![s].signals[j] = ChannelSignals(j)
                                 \cup (IF process[j] = "gone" THEN {} ELSE jvmHost.processes[j].external)]
  BY <1>3 DEF JvmTriage
<1>5. j \in Jvms /\ j \in Nat /\ r.todo \in SUBSET Jvms
  BY <1>4, JvmAssumption DEF Probers
<1>6. PICK todo \in SUBSET Jvms : todo = r.todo \ {j}
  BY <1>5
<1>7. PICK f : f = ChannelSignals(j) \cup (IF process[j] = "gone" THEN {} ELSE jvmHost.processes[j].external)
  OBVIOUS
<1>8. /\ f \in SUBSET Evidence
      /\ "attach-listener-already-started" \in f => channel[j].socket
      /\ "attach-sentinel-present" \in f => channel[j].sentinel # "none"
  <2>1. jvmHost.processes[j].external \in SUBSET OtherEvidence
    BY <1>2, <1>5 DEF JvmTypeOK, Processes
  <2>2. /\ ChannelSignals(j) \in SUBSET ChannelEvidence
        /\ "attach-listener-already-started" \in ChannelSignals(j) => channel[j].socket
        /\ "attach-sentinel-present" \in ChannelSignals(j) => channel[j].sentinel = "tmp"
    BY DEF ChannelSignals, ChannelEvidence
  <2>3. /\ "attach-listener-already-started" \notin OtherEvidence
        /\ "attach-sentinel-present" \notin OtherEvidence
    BY DEF OtherEvidence
  <2> QED  BY <1>7, <2>1, <2>2, <2>3 DEF Evidence
<1>9. PICK old \in [Jvms -> SUBSET Evidence] : old = r.signals
  BY DEF Probers
<1>10. PICK g : g = [old EXCEPT ![j] = f]
  OBVIOUS
<1>11. g \in [Jvms -> SUBSET Evidence] /\ g[j] = f /\ \A k \in Jvms : k # j => g[k] = old[k]
  BY <1>5, <1>8, <1>10
<1>12. PICK q : q = [r EXCEPT !.jvm = j, !.todo = todo, !.pc = "handoff", !.signals = g]
  OBVIOUS
<1>13. /\ q \in Probers /\ q.todo = todo /\ q.pc = "handoff" /\ q.status = r.status /\ q.jvm = j
       /\ q.attached = r.attached /\ q.incomplete = r.incomplete /\ q.facts = r.facts
       /\ q.littered = r.littered /\ q.outlived = r.outlived /\ q.signals = g
  <2> "handoff" \in Pcs
    BY DEF Pcs
  <2> QED  BY <1>5, <1>11, <1>12 DEF Probers
<1>14. prober' = [prober EXCEPT ![s] = q]
  BY ZenonT(60), <1>3, <1>4, <1>6, <1>7, <1>9, <1>10, <1>12
<1>15. /\ prober' \in [Scanners -> Probers] /\ prober'[s] = q
       /\ \A t \in Scanners : t # s => prober'[t] = prober[t]
  BY <1>2, <1>13, <1>14, ProberSet
<1>16. JvmTypeOK' /\ Frame(s)
  BY <1>1, <1>2, <1>15 DEF JvmTypeOK, Frame
<1>17. /\ PlaceIsSound(s) /\ RefusalsAreTold(s) /\ CapturesAreKept(s) /\ StatusIsEarned(s)
  BY DEF JvmInv
<1>18. /\ TurnedTo(s) = Targets(s) \ r.todo /\ r.todo \subseteq Targets(s)
       /\ r.incomplete \subseteq r.attached /\ r.attached \subseteq TurnedTo(s) /\ r.status = "none"
  BY <1>1, <1>3, <1>17 DEF TurnedTo, At, PlaceIsSound
<1>19. Targets(s)' = Targets(s) /\ TurnedTo(s)' = TurnedTo(s) \cup {j} /\ j \notin TurnedTo(s)
  <2>1. Targets(s)' = Targets(s)
    BY <1>1 DEF Targets
  <2>2. TurnedTo(s)' = Targets(s) \ todo
    BY <1>13, <1>15, <2>1 DEF TurnedTo, At
  <2> QED  BY <1>4, <1>6, <1>18, <2>1, <2>2
<1>20. PlaceIsSound(s)'
  BY <1>6, <1>13, <1>15, <1>18, <1>19 DEF PlaceIsSound, At, This
<1>21. RefusalsAreTold(s)'
  <2> SUFFICES ASSUME NEW k \in TurnedTo(s)' \ r.attached
               PROVE  "attach-refused" \in g[k] \/ j = k
    BY <1>13, <1>15 DEF RefusalsAreTold, This, InHand, Pcs
  <2>1. CASE k # j
    <3>1. k \in TurnedTo(s) \ r.attached
      BY <1>19, <2>1
    <3>2. k \in Jvms
      BY <3>1 DEF TurnedTo, Targets
    <3>3. "attach-refused" \in prober[s].signals[k]
      BY <1>1, <1>3, <1>17, <3>1 DEF RefusalsAreTold, InHand
    <3> QED  BY <1>3, <1>9, <1>11, <2>1, <3>2, <3>3
  <2> QED  BY <2>1
<1>22. CapturesAreKept(s)'
  BY <1>1, <1>3, <1>13, <1>15, <1>17 DEF CapturesAreKept
<1>23. StatusIsEarned(s)'
  BY <1>13, <1>15, <1>18 DEF StatusIsEarned
<1>24. \A k, places : Holds(s, k, places) => "next" \in places \cup {"killed"}
  BY <1>1 DEF Holds
<1>25. \A k \in Jvms : process[k] # "gone" /\ handoff'[s][k].owner # "none" => k \in prober[s].outlived
  BY <1>1, <1>24 DEF JvmInv, LeftoversHaveOwners, InHand
<1>26. \A k \in Jvms : ~Holds(s, k, Marking) /\ ~Holds(s, k, Staged)
  BY <1>24 DEF Marking, Staged
<1>27. ASSUME NEW k \in Jvms
       PROVE  /\ "attach-listener-already-started" \in g[k] \ prober[s].signals[k] =>
                   jvmHost.processes[k].attachedBefore \/ channel[k].by \ {s} # {}
              /\ "attach-sentinel-present" \in g[k] \ prober[s].signals[k] =>
                   \E u \in Scanners \ {s} : k \in TurnedTo(u)
  <2>1. CASE k # j
    BY <1>3, <1>9, <1>11, <2>1
  <2>2. CASE k = j
    <3>1. /\ \A u \in channel[j].by : j \in TurnedTo(u)
          /\ channel[j].socket => jvmHost.processes[j].attachedBefore \/ channel[j].by # {}
          /\ channel[j].sentinel # "none" => \E u \in Scanners : j \in TurnedTo(u)
      BY <1>5 DEF JvmInv, ChannelsAreAccountedFor
    <3>2. s \notin channel[j].by
      BY <1>19, <3>1
    <3>3. channel[j].sentinel # "none" => \E u \in Scanners \ {s} : j \in TurnedTo(u)
      BY <1>19, <3>1
    <3> QED  BY <1>8, <1>11, <2>2, <3>1, <3>2, <3>3
  <2> QED  BY <2>1, <2>2
<1>28. prober'[s].signals = g /\ prober'[s].littered = prober[s].littered
       /\ prober'[s].outlived = prober[s].outlived
  BY <1>3, <1>13, <1>15
<1> QED
  BY <1>1, <1>16, <1>19, <1>20, <1>21, <1>22, <1>23, <1>25, <1>26, <1>27, <1>28, QuietStepKeepsInv

LEMMA JvmReportKeepsInv ==
  ASSUME JvmInv, NEW s \in Scanners, JvmReport(s)
  PROVE  JvmInv'
<1>1. /\ prober[s].pc = "next" /\ prober[s].todo = {}
      /\ UNCHANGED <<jvmHost, process, channel, jar, requests, agent, handoff, incidents>>
  BY DEF JvmReport, At
<1>2. JvmTypeOK
  BY DEF JvmInv
<1>3. PICK r \in Probers : r = prober[s]
  BY <1>2 DEF JvmTypeOK
<1>4. PICK st : st = Covered(s).status
  OBVIOUS
<1>5. PICK b \in BOOLEAN : b = (r.incomplete # {})
  OBVIOUS
<1>6. /\ st \in Statuses
      /\ st = "ran" => r.incomplete = {} /\ Targets(s) \subseteq r.attached
      /\ st = "failed" => Targets(s) \ r.attached = Targets(s)
  <2>1. st = IF r.incomplete = {} /\ Targets(s) \ r.attached = Targets(s) THEN "failed"
             ELSE IF r.incomplete # {} \/ Targets(s) \ r.attached # {} THEN "degraded" ELSE "ran"
    BY <1>3, <1>4 DEF Covered
  <2>2. CASE st = "failed"
    BY <2>1, <2>2 DEF Statuses
  <2>3. CASE st = "degraded"
    BY <2>1, <2>3 DEF Statuses
  <2>4. CASE st = "ran"
    BY <2>1, <2>4 DEF Statuses
  <2> QED  BY <2>1, <2>2, <2>3, <2>4
<1>7. PICK q : q = [r EXCEPT !.pc = "done", !.status = st, !.truncated = b]
  OBVIOUS
<1>8. /\ q \in Probers /\ q.todo = r.todo /\ q.pc = "done" /\ q.status = st /\ q.jvm = r.jvm
      /\ q.attached = r.attached /\ q.incomplete = r.incomplete /\ q.facts = r.facts
      /\ q.signals = r.signals /\ q.littered = r.littered /\ q.outlived = r.outlived
  <2> "done" \in Pcs
    BY DEF Pcs
  <2> QED  BY <1>6, <1>7 DEF Probers
<1>9. prober' = [prober EXCEPT ![s] = q]
  <2>1. Covered(s).truncated = b
    BY <1>3, <1>5 DEF Covered
  <2> QED  BY <1>3, <1>4, <1>7, <2>1 DEF JvmReport
<1>10. /\ prober' \in [Scanners -> Probers] /\ prober'[s] = q
       /\ \A t \in Scanners : t # s => prober'[t] = prober[t]
  BY <1>2, <1>8, <1>9, ProberSet
<1>11. JvmTypeOK' /\ Frame(s)
  BY <1>1, <1>2, <1>10 DEF JvmTypeOK, Frame
<1>12. /\ PlaceIsSound(s) /\ RefusalsAreTold(s) /\ CapturesAreKept(s)
  BY DEF JvmInv
<1>13. Targets(s)' = Targets(s) /\ TurnedTo(s)' = TurnedTo(s)
  <2>1. Targets(s)' = Targets(s)
    BY <1>1 DEF Targets
  <2> QED  BY <1>1, <1>3, <1>8, <1>10, <2>1 DEF TurnedTo, At
<1>14. r.attached \subseteq Targets(s)
  BY <1>3, <1>12 DEF PlaceIsSound, TurnedTo
<1>15. PlaceIsSound(s)'
  BY <1>1, <1>3, <1>8, <1>10, <1>12, <1>13 DEF PlaceIsSound, At, InHand
<1>16. RefusalsAreTold(s)'
  BY <1>1, <1>3, <1>8, <1>10, <1>12, <1>13 DEF RefusalsAreTold, InHand
<1>17. CapturesAreKept(s)'
  BY <1>1, <1>3, <1>8, <1>10, <1>12 DEF CapturesAreKept
<1>18. StatusIsEarned(s)'
  BY <1>6, <1>8, <1>10, <1>13, <1>14 DEF StatusIsEarned
<1>19. \A k, places : Holds(s, k, places) => "next" \in places \cup {"killed"}
  BY <1>1 DEF Holds
<1>20. \A k \in Jvms : process[k] # "gone" /\ handoff'[s][k].owner # "none" => k \in prober[s].outlived
  BY <1>1, <1>19 DEF JvmInv, LeftoversHaveOwners, InHand
<1>21. \A k \in Jvms : ~Holds(s, k, Marking) /\ ~Holds(s, k, Staged)
  BY <1>19 DEF Marking, Staged
<1>22. prober'[s].signals = prober[s].signals /\ prober'[s].littered = prober[s].littered
       /\ prober'[s].outlived = prober[s].outlived
  BY <1>3, <1>8, <1>10
<1> QED
  BY <1>1, <1>11, <1>13, <1>15, <1>16, <1>17, <1>18, <1>20, <1>21, <1>22, QuietStepKeepsInv

LEMMA ReadHandoffKeepsInv ==
  ASSUME JvmInv, NEW s \in Scanners, ReadHandoff(s)
  PROVE  JvmInv'
<1>1. /\ prober[s].pc = "read" /\ prober[s].pc \in InHand
      /\ UNCHANGED <<jvmHost, process, channel, jar, requests, agent, incidents>>
  BY DEF ReadHandoff, At, InHand, Pcs
<1>2. PICK j \in Jvms : j = This(s)
  BY <1>1, HandIsOnAJvm
<1>3. JvmTypeOK /\ ToldOrLost(handoff[s][j])
  BY <1>1, <1>2, HandIsOnAJvm
<1>4. PICK r \in Probers : r = prober[s]
  BY <1>3 DEF JvmTypeOK
<1>5. PICK h \in Handoffs : h = handoff[s][j]
  BY <1>3 DEF JvmTypeOK
<1>6. PICK got \in SUBSET Jvms : got = r.attached \cup {j}
  BY DEF Probers
<1>7. PICK f \in SUBSET Nat : f = IF There(s) THEN h.facts ELSE {}
  BY DEF Handoffs
<1>8. PICK inc \in SUBSET Jvms :
        inc = IF ~There(s) \/ StoppedEarly(h) THEN r.incomplete \cup {j} ELSE r.incomplete
  BY DEF Probers
<1>9. PICK old \in [Jvms -> SUBSET Nat] : old = r.facts
  BY DEF Probers
<1>10. PICK g : g = [old EXCEPT ![j] = f]
  OBVIOUS
<1>11. g \in [Jvms -> SUBSET Nat] /\ g[j] = f /\ \A k \in Jvms : k # j => g[k] = old[k]
  BY <1>10
<1>12. PICK q : q = [r EXCEPT !.pc = "next", !.attached = got, !.facts = g, !.incomplete = inc]
  OBVIOUS
<1>13. /\ q \in Probers /\ q.todo = r.todo /\ q.pc = "next" /\ q.status = r.status /\ q.jvm = r.jvm
       /\ q.attached = got /\ q.incomplete = inc /\ q.signals = r.signals /\ q.littered = r.littered
       /\ q.outlived = r.outlived
       /\ q.facts = g
  <2> "next" \in Pcs
    BY DEF Pcs
  <2> QED  BY <1>11, <1>12 DEF Probers
<1>14. prober' = [prober EXCEPT ![s] = q]
  BY ZenonT(60), <1>2, <1>4, <1>5, <1>6, <1>7, <1>8, <1>9, <1>10, <1>12 DEF ReadHandoff
<1>15. /\ prober' \in [Scanners -> Probers] /\ prober'[s] = q
       /\ \A t \in Scanners : t # s => prober'[t] = prober[t]
  BY <1>3, <1>13, <1>14, ProberSet
<1>16. /\ handoff' \in [Scanners -> [Jvms -> Handoffs]] /\ OthersHandoffsStay(s) /\ Disowned(s)
       /\ \A t \in Scanners : t # s => handoff'[t] = handoff[t]
  <2>1. handoff' = Cleared(s)
    BY DEF ReadHandoff
  <2> QED  BY <1>2, <1>3, <2>1, ClearedState
<1>17. JvmTypeOK' /\ Frame(s)
  BY <1>1, <1>3, <1>15, <1>16 DEF JvmTypeOK, Frame
<1>18. PlaceIsSound(s) /\ RefusalsAreTold(s) /\ CapturesAreKept(s)
  BY DEF JvmInv
<1>19. /\ r.todo \subseteq Targets(s) /\ r.incomplete \subseteq r.attached /\ r.attached \subseteq TurnedTo(s)
       /\ j \in TurnedTo(s) /\ j \notin r.attached /\ r.status = "none"
  BY <1>1, <1>2, <1>4, <1>18 DEF PlaceIsSound, At
<1>20. Targets(s)' = Targets(s) /\ TurnedTo(s)' = TurnedTo(s)
  <2>1. Targets(s)' = Targets(s)
    BY <1>1 DEF Targets
  <2> QED  BY <1>1, <1>4, <1>13, <1>15, <2>1 DEF TurnedTo, At
<1>21. inc \subseteq got
  BY <1>6, <1>8, <1>19
<1>22. PlaceIsSound(s)'
  BY <1>6, <1>13, <1>15, <1>19, <1>20, <1>21 DEF PlaceIsSound, At, InHand
<1>23. RefusalsAreTold(s)'
  <2> SUFFICES ASSUME NEW k \in TurnedTo(s) \ got
               PROVE  "attach-refused" \in r.signals[k]
    BY <1>13, <1>15, <1>20 DEF RefusalsAreTold
  <2>1. k \in TurnedTo(s) \ r.attached /\ k # j
    BY <1>6
  <2> QED  BY <1>2, <1>4, <1>18, <2>1 DEF RefusalsAreTold
<1>24. CapturesAreKept(s)'
  <2> SUFFICES ASSUME NEW k \in Jvms
               PROVE  LET new == handoff'[s][k]
                      IN  /\ ToldOrLost(new)
                          /\ k \in got \ inc =>
                               new.owner = "none" /\ new.done /\ new.log # "incomplete" /\ g[k] = new.facts
    BY <1>13, <1>15 DEF CapturesAreKept
  <2>1. CASE k # j
    <3>1. handoff'[s][k] = handoff[s][k]
      BY <1>2, <1>16, <2>1 DEF OthersHandoffsStay
    <3>2. k \in got \ inc => k \in r.attached \ r.incomplete
      BY <1>6, <1>8, <2>1
    <3> QED  BY <1>4, <1>9, <1>11, <1>18, <2>1, <3>1, <3>2 DEF CapturesAreKept
  <2>2. CASE k = j
    <3>1. /\ handoff'[s][j].done = h.done /\ handoff'[s][j].log = h.log /\ handoff'[s][j].facts = h.facts
          /\ ToldOrLost(handoff'[s][j])
          /\ There(s) => handoff'[s][j].owner = "none"
      BY <1>2, <1>3, <1>5, <1>16 DEF Disowned
    <3>2. j \notin inc => There(s) /\ h.done /\ h.log # "incomplete"
      BY <1>8 DEF StoppedEarly
    <3> QED  BY <1>5, <1>7, <1>11, <2>2, <3>1, <3>2
  <2> QED  BY <2>1, <2>2
<1>25. StatusIsEarned(s)'
  BY <1>13, <1>15, <1>19 DEF StatusIsEarned
<1>26. \A k, places : Holds(s, k, places) => k = j /\ "read" \in places \cup {"killed"}
  BY <1>1, <1>2 DEF Holds
<1>27. \A k \in Jvms : process[k] # "gone" /\ handoff'[s][k].owner # "none" => k \in prober[s].outlived
  <2> SUFFICES ASSUME NEW k \in Jvms, process[k] # "gone", handoff'[s][k].owner # "none"
               PROVE  k \in prober[s].outlived
    OBVIOUS
  <2>1. CASE k # j
    <3>1. handoff[s][k].owner # "none" => k \in prober[s].outlived
      BY <1>26, <2>1 DEF JvmInv, LeftoversHaveOwners
    <3> QED  BY <1>2, <1>16, <2>1, <3>1 DEF OthersHandoffsStay
  <2>2. CASE k = j
    BY <1>2, <1>16, <2>2 DEF Disowned, There
  <2> QED  BY <2>1, <2>2
<1>28. \A k \in Jvms : ~Holds(s, k, Marking) /\ ~Holds(s, k, Staged)
  BY <1>26 DEF Marking, Staged
<1>29. prober'[s].signals = prober[s].signals /\ prober'[s].littered = prober[s].littered
       /\ prober'[s].outlived = prober[s].outlived
  BY <1>4, <1>13, <1>15
<1> QED
  BY <1>1, <1>17, <1>20, <1>22, <1>23, <1>24, <1>25, <1>27, <1>28, <1>29, QuietStepKeepsInv

-----------------------------------------------------------------------------
(* The theorems.                                                            *)

LEMMA JvmInitIsSound ==
  ASSUME JvmInit
  PROVE  JvmInv
<1>1. /\ Jvms \subseteq Nat
      /\ jvmHost \in [processes : [Jvms -> Processes], euid : [Scanners -> Nat],
                      asked : [Scanners -> SUBSET Nat], incidents : Nat]
  BY JvmAssumption DEF JvmInit
<1>2. ASSUME NEW j \in Jvms
      PROVE  /\ channel[j] \in Channels /\ channel[j].by = {} /\ channel[j].sentinel = "none"
             /\ channel[j].quit = FALSE /\ channel[j].socket = jvmHost.processes[j].attachedBefore
  <2>1. PICK b \in BOOLEAN : b = jvmHost.processes[j].attachedBefore
    BY <1>1 DEF Processes
  <2>2. channel[j] = [socket |-> b, by |-> {}, sentinel |-> "none", quit |-> FALSE]
    BY <2>1 DEF JvmInit
  <2> QED  BY <2>1, <2>2 DEF Channels
<1>3. NoHandoff \in Handoffs /\ ToldOrLost(NoHandoff) /\ NoHandoff.owner = "none"
  BY DEF NoHandoff, Handoffs, ToldOrLost
<1>4. Resting \in Agents
  BY DEF Resting, Agents
<1>5. ASSUME NEW s \in Scanners
      PROVE  /\ prober[s] \in Probers /\ prober[s].pc = "sweep" /\ prober[s].todo = {}
             /\ prober[s].attached = {} /\ prober[s].incomplete = {} /\ prober[s].status = "none"
             /\ \A j \in Jvms : prober[s].signals[j] = {}
  <2>1. PICK none \in [Jvms -> {{}}] : none = [j \in Jvms |-> {}]
    OBVIOUS
  <2>2. prober[s] = [pc |-> "sweep", jvm |-> 0, todo |-> {}, late |-> FALSE, reply |-> "none", littered |-> {},
                     outlived |-> {}, signals |-> none, attached |-> {}, facts |-> none,
                     incomplete |-> {}, status |-> "none", truncated |-> FALSE]
    BY <2>1 DEF JvmInit
  <2>3. "sweep" \in Pcs /\ "none" \in Statuses
    BY DEF Pcs, Statuses
  <2>4. none \in [Jvms -> SUBSET Evidence] /\ none \in [Jvms -> SUBSET Nat]
    OBVIOUS
  <2> QED  BY <2>2, <2>3, <2>4 DEF Probers
<1>6. JvmTypeOK
  <2>1. channel \in [Jvms -> Channels]
    <3>1. PICK c : c = channel
      OBVIOUS
    <3>2. c = [j \in Jvms |-> c[j]]
      BY <3>1 DEF JvmInit
    <3>3. \A j \in Jvms : c[j] \in Channels
      BY <1>2, <3>1
    <3> QED  BY <3>1, <3>2, <3>3
  <2>2. prober \in [Scanners -> Probers]
    <3>1. PICK c : c = prober
      OBVIOUS
    <3>2. c = [s \in Scanners |-> c[s]]
      BY <3>1 DEF JvmInit
    <3>3. \A s \in Scanners : c[s] \in Probers
      BY <1>5, <3>1
    <3> QED  BY <3>1, <3>2, <3>3
  <2>3. process \in [Jvms -> {"up", "hung", "gone"}] /\ jar \in [Jvms -> {"none", "partial", "whole"}]
    BY DEF JvmInit
  <2>4. requests \in [Jvms -> Seq(Scanners)]
    BY DEF JvmInit
  <2>5. agent \in [Jvms -> Agents] /\ handoff \in [Scanners -> [Jvms -> Handoffs]]
    BY <1>3, <1>4 DEF JvmInit
  <2>6. incidents \in Nat
    BY DEF JvmInit
  <2> QED  BY <1>1, <2>1, <2>2, <2>3, <2>4, <2>5, <2>6 DEF JvmTypeOK
<1>7. \A s \in Scanners, j \in Jvms : handoff[s][j] = NoHandoff
  BY DEF JvmInit
<1>8. \A s \in Scanners : TurnedTo(s) = {}
  BY <1>5 DEF TurnedTo, At
<1>9. ASSUME NEW s \in Scanners
      PROVE  PlaceIsSound(s) /\ RefusalsAreTold(s) /\ CapturesAreKept(s) /\ StatusIsEarned(s)
  BY <1>3, <1>5, <1>7, <1>8 DEF PlaceIsSound, RefusalsAreTold, CapturesAreKept, StatusIsEarned, At, InHand
<1>10. ChannelsAreAccountedFor
  BY <1>2 DEF ChannelsAreAccountedFor
<1>11. OwnFootprintIsNotEvidence
  BY <1>5 DEF OwnFootprintIsNotEvidence
<1>12. LeftoversHaveOwners
  <2>1. \A j \in Jvms : jar[j] = "none"
    BY DEF JvmInit
  <2> QED  BY <1>2, <1>3, <1>7, <2>1 DEF LeftoversHaveOwners
<1> QED  BY <1>6, <1>9, <1>10, <1>11, <1>12 DEF JvmInv

LEMMA JvmStepKeepsInv ==
  ASSUME JvmInv, [JvmNext]_jvmVars
  PROVE  JvmInv'
<1>0. JvmTypeOK
  BY DEF JvmInv
<1>1. ASSUME NEW s \in Scanners, ScannerStep(s)
      PROVE  JvmInv'
  BY <1>1, JvmSweepKeepsInv, JvmTriageKeepsInv, MakeHandoffKeepsInv, BeginAttachKeepsInv, SignalKeepsInv,
     PollKeepsInv, BeginStagingKeepsInv, EndStagingKeepsInv, LoadKeepsInv, ReadResponseKeepsInv,
     ReadHandoffKeepsInv, JvmReportKeepsInv DEF ScannerStep
<1>2. ASSUME NEW s \in Scanners, JvmScanKilled(s)
      PROVE  JvmInv'
  BY <1>2, JvmScanKilledKeepsInv
<1>3. ASSUME NEW j \in Jvms,
             Listen(j) \/ TakeUp(j) \/ CaptureClass(j) \/ WriteLog(j) \/ EndAgent(j)
               \/ JvmFails(j) \/ ClockSpent(j) \/ DiskFills(j)
      PROVE  JvmInv'
  <2>1. AroundAScan
    BY <1>0, <1>3, ListenAround, TakeUpAround, CaptureAround, WriteLogAround, EndAgentAround, IncidentsAround
  <2> QED  BY <2>1, AroundKeepsInv
<1>4. CASE (\E s \in Scanners : DeadlinePasses(s)) \/ UNCHANGED jvmVars
  <2>1. AroundAScan
    BY <1>0, <1>4, TimeAround
  <2> QED  BY <2>1, AroundKeepsInv
<1> QED  BY <1>1, <1>2, <1>3, <1>4 DEF JvmNext

\* However many scans are at a host, in whatever order their steps and the JVMs' come,
\* whichever JVM hangs or exits and whichever scan is killed: what is on the host and
\* what the scans know of it stay as JvmInv says (cmd/jvmprobe, internal/jvmattach).
THEOREM ScansKeepJvmInv ==
  JvmSpec => []JvmInv
<1>1. JvmInit => JvmInv
  BY JvmInitIsSound
<1>2. JvmInv /\ [JvmNext]_jvmVars => JvmInv'
  BY JvmStepKeepsInv
<1> QED  BY <1>1, <1>2, PTL DEF JvmSpec

\* A listener or a sentinel in a report is never the doing of the scan that reports
\* it: triage looks before the scan touches the channel, and nothing is added later
\* (main.go's preAttachChannel, triage.go).
THEOREM ScansReportOthersOnly ==
  JvmSpec => []OwnFootprintIsNotEvidence
<1>1. JvmInv => OwnFootprintIsNotEvidence
  BY DEF JvmInv
<1> QED  BY <1>1, ScansKeepJvmInv, PTL

\* Once every scan has ended by itself, a JVM that still runs has no sentinel, no jar but
\* one whose write failed, and no hand-off but one that was given up while the JVM owed its
\* scan an agent (attach_linux.go's deferred removals, main_linux.go's RemoveAll).
THEOREM ScansLeaveNothing ==
  JvmSpec => []NothingIsLeftBehind
<1>1. JvmInv => NothingIsLeftBehind
  <2> SUFFICES ASSUME JvmInv, \A s \in Scanners : prober[s].pc \in {"sweep", "done"},
                      NEW j \in Jvms, process[j] # "gone"
               PROVE  /\ channel[j].sentinel = "none"
                      /\ jar[j] # "none" => \E s \in Scanners : j \in prober[s].littered
                      /\ \A s \in Scanners : handoff[s][j].owner # "none" => j \in prober[s].outlived
    BY DEF NothingIsLeftBehind
  <2>1. \A s \in Scanners : /\ ~Holds(s, j, {"signal", "poll"})
                            /\ ~Holds(s, j, {"staging", "connect", "response"})
                            /\ ~Holds(s, j, InHand \ {"handoff"})
    BY DEF Holds, InHand
  <2> QED  BY <2>1 DEF JvmInv, LeftoversHaveOwners
<1> QED  BY <1>1, ScansKeepJvmInv, PTL

\* "ran" means that every agent came to its end, that everything it wrote was read, and
\* that a budget that ended a sweep is untold only because the log of it was not written;
\* "failed" that none was entered, and a JVM that was not entered has refused
\* in the report (readHandoff, main.go's coverage).
THEOREM ScansEarnTheirStatus ==
  JvmSpec => []RanIsEarned
<1>1. JvmInv => RanIsEarned
  <2> SUFFICES ASSUME JvmInv, NEW s \in Scanners, prober[s].pc = "done"
               PROVE  /\ \A j \in Targets(s) \ prober[s].attached : "attach-refused" \in prober[s].signals[j]
                      /\ prober[s].status = "ran" =>
                           \A j \in Targets(s) :
                             LET h == handoff[s][j]
                             IN  /\ j \in prober[s].attached /\ h.done /\ prober[s].facts[j] = h.facts
                                 /\ h.ended = "budget" => h.log \in {"none", "cut"}
                      /\ prober[s].status = "failed" => prober[s].attached = {}
    BY DEF RanIsEarned, At
  <2>1. PlaceIsSound(s) /\ RefusalsAreTold(s) /\ CapturesAreKept(s) /\ StatusIsEarned(s)
    BY DEF JvmInv
  <2>2. TurnedTo(s) = Targets(s)
    BY <2>1 DEF PlaceIsSound, TurnedTo, At
  <2>3. \A j \in Targets(s) \ prober[s].attached : "attach-refused" \in prober[s].signals[j]
    BY <2>1, <2>2 DEF RefusalsAreTold, InHand
  <2>4. Targets(s) \subseteq Jvms
    BY DEF Targets
  <2>5. \A j \in Jvms : handoff[s][j].log \in {"none", "cut", "errors", "incomplete"}
    BY DEF JvmInv, JvmTypeOK, Handoffs
  <2>6. prober[s].status = "ran" =>
          \A j \in Targets(s) : /\ j \in prober[s].attached /\ handoff[s][j].done
                                /\ prober[s].facts[j] = handoff[s][j].facts
                                /\ handoff[s][j].ended = "budget" => handoff[s][j].log \in {"none", "cut"}
    BY <2>1, <2>4, <2>5 DEF CapturesAreKept, StatusIsEarned, ToldOrLost
  <2> QED  BY <2>1, <2>3, <2>6 DEF StatusIsEarned
<1> QED  BY <1>1, ScansKeepJvmInv, PTL

-----------------------------------------------------------------------------
(* What goes unsaid of a captured class.                                    *)

Tiers == {"likely", "suspicious"}

Refs == {"codesource-spoofed", "fileless-pipeline-class", "fileless-capable-class", "fileless-class",
         "unverifiable-origin", "codesource-out-of-contract", "loader-contradiction"}

Rungs == [tier : Tiers, score : Nat, ref : Refs]

EvidenceInv ==
  evidence.made => claim.made /\ evidence.finding = Fused(claim, origin, loaded)

\* The least of some rungs is one of them.
LEMMA LeastRung ==
  ASSUME NEW S, S \subseteq 1..12, S # {}
  PROVE  Min(S) \in S
<1>1. \E x \in S : \A y \in S : x <= y
  <2>1. ASSUME NEW n \in 0..12, \A i \in 1..n : i \notin S, n + 1 \in S
        PROVE  \E x \in S : \A y \in S : x <= y
    <3>1. \A y \in S : n + 1 <= y
      BY <2>1
    <3> QED  BY <2>1, <3>1
  <2>2. CASE \A n \in 0..12 : (\A i \in 1..n : i \notin S) => n + 1 \notin S
    <3>1. 1 \notin S
      BY <2>2
    <3>2. 2 \notin S
      BY <2>2, <3>1
    <3>3. 3 \notin S
      BY <2>2, <3>1, <3>2
    <3>4. 4 \notin S
      BY <2>2, <3>1, <3>2, <3>3
    <3>5. 5 \notin S
      BY <2>2, <3>1, <3>2, <3>3, <3>4
    <3>6. 6 \notin S
      BY <2>2, <3>1, <3>2, <3>3, <3>4, <3>5
    <3>7. 7 \notin S
      BY <2>2, <3>1, <3>2, <3>3, <3>4, <3>5, <3>6
    <3>8. 8 \notin S
      BY <2>2, <3>1, <3>2, <3>3, <3>4, <3>5, <3>6, <3>7
    <3>9. 9 \notin S
      BY <2>2, <3>1, <3>2, <3>3, <3>4, <3>5, <3>6, <3>7, <3>8
    <3>10. 10 \notin S
      BY <2>2, <3>1, <3>2, <3>3, <3>4, <3>5, <3>6, <3>7, <3>8, <3>9
    <3>11. 11 \notin S
      BY <2>2, <3>1, <3>2, <3>3, <3>4, <3>5, <3>6, <3>7, <3>8, <3>9, <3>10
    <3>12. 12 \notin S
      BY <2>2, <3>1, <3>2, <3>3, <3>4, <3>5, <3>6, <3>7, <3>8, <3>9, <3>10, <3>11
    <3>13. \A i \in 1..12 : i \in {1, 2, 3, 4, 5, 6, 7, 8, 9, 10, 11, 12}
      OBVIOUS
    <3> QED
      BY <3>1, <3>2, <3>3, <3>4, <3>5, <3>6, <3>7, <3>8, <3>9, <3>10, <3>11, <3>12, <3>13
  <2> QED  BY <2>1, <2>2
<1> QED  BY <1>1 DEF Min

LEMMA RungsSpeak ==
  ASSUME NEW c, NEW status, NEW caps
  PROVE  /\ DOMAIN Ladder(c, status, caps) = 1..12
         /\ \A i \in 1..12 : Ladder(c, status, caps)[i].rung \in Rungs
<1> DEFINE L == Ladder(c, status, caps)
<1>1. DOMAIN L = 1..12
  BY DEF Ladder
<1>2. L[1].rung \in Rungs /\ L[2].rung \in Rungs /\ L[3].rung \in Rungs
  BY DEF Ladder, Rung, Rungs, Tiers, Refs
<1>3. L[4].rung \in Rungs /\ L[5].rung \in Rungs /\ L[6].rung \in Rungs
  BY DEF Ladder, Rung, Rungs, Tiers, Refs
<1>4. L[7].rung \in Rungs /\ L[8].rung \in Rungs /\ L[9].rung \in Rungs
  BY DEF Ladder, Rung, Rungs, Tiers, Refs
<1>5. L[10].rung \in Rungs /\ L[11].rung \in Rungs /\ L[12].rung \in Rungs
  BY DEF Ladder, Rung, Rungs, Tiers, Refs
<1> QED  BY <1>1, <1>2, <1>3, <1>4, <1>5

\* A class is passed over only if no rung of the ladder holds.
LEMMA SilenceIsOffTheLadder ==
  ASSUME NEW c, NEW o, NEW class, Fused(c, o, class).tier = "none"
  PROVE  \A i \in 1..12 : ~Ladder(c, Verification(c, o), Capabilities(class))[i].holds
<1> DEFINE steps == Ladder(c, Verification(c, o), Capabilities(class))
           held == {i \in DOMAIN steps : steps[i].holds}
<1>1. DOMAIN steps = 1..12 /\ \A i \in 1..12 : steps[i].rung \in Rungs
  BY RungsSpeak
<1>2. CASE held = {}
  BY <1>1, <1>2
<1>3. CASE held # {}
  <2>1. Min(held) \in 1..12
    BY <1>1, <1>3, LeastRung
  <2>2. PICK r \in Rungs : r = steps[Min(held)].rung
    BY <1>1, <2>1
  <2>3. Fused(c, o, class) = IF Contradicted(c, o) THEN [r EXCEPT !.score = @ + 5, !.ref = "loader-contradiction"] ELSE r
    BY <1>3, <2>2 DEF Fused
  <2>4. r.tier # "none"
    BY DEF Rungs, Tiers
  <2>5. PICK q : q = [r EXCEPT !.score = r.score + 5, !.ref = "loader-contradiction"]
    OBVIOUS
  <2>6. q.tier = r.tier
    BY <2>5 DEF Rungs
  <2> QED  BY <2>3, <2>4, <2>5, <2>6
<1> QED  BY <1>2, <1>3

LEMMA OffTheLadder ==
  ASSUME NEW c, NEW o, NEW caps,
         \A i \in 1..12 : ~Ladder(c, Verification(c, o), caps)[i].holds
  PROVE  /\ \/ o \in Backing /\ c.codeSource = "file"
            \/ ~c.wired /\ (c.codeSource = "nested" \/ o = "unreadable")
         /\ c.outside => c.generated /\ ~ActionCapable(caps)
<1> DEFINE status == Verification(c, o)
<1>1. status # "spoofed"
  <2>1. ~Ladder(c, status, caps)[3].holds
    OBVIOUS
  <2> QED  BY <2>1 DEF Ladder, Rung
<1>2. status # "disk-absent-claim"
  <2>1. ~Ladder(c, status, caps)[8].holds
    OBVIOUS
  <2> QED  BY <2>1 DEF Ladder, Rung
<1>3. status = "unverifiable" => ~c.wired
  <2>1. ~Ladder(c, status, caps)[9].holds
    OBVIOUS
  <2> QED  BY <2>1 DEF Ladder, Rung
<1>4. c.outside => ~ActionCapable(caps)
  <2>1. ~Ladder(c, status, caps)[11].holds
    OBVIOUS
  <2> QED  BY <2>1 DEF Ladder, Rung
<1>5. c.outside => c.generated
  <2>1. ~Ladder(c, status, caps)[12].holds
    OBVIOUS
  <2> QED  BY <2>1 DEF Ladder, Rung
<1>6. \/ status = "corroborated" /\ c.codeSource = "file" /\ o \in Backing
      \/ status = "unverifiable" /\ (c.codeSource = "nested" \/ o = "unreadable")
      \/ status = "disk-absent-claim"
      \/ status = "spoofed"
  BY DEF Verification
<1> QED  BY <1>1, <1>2, <1>3, <1>4, <1>5, <1>6

\* Whatever class a JVM holds and whenever the application is redeployed: a class
\* that was captured is passed over only if its file holds it, or cannot be opened
\* and the class is off the request path; and code from outside the declared
\* places only if it was generated and cannot act (fuse.go's ladder, verify.go).
THEOREM SilenceIsAlwaysEarned ==
  EvidenceSpec => []SilenceIsEarned
<1>1. EvidenceInit => EvidenceInv
  BY DEF EvidenceInit, EvidenceInv
<1>2. EvidenceInv /\ [EvidenceNext]_evidenceVars => EvidenceInv'
  <2> SUFFICES ASSUME EvidenceInv, [EvidenceNext]_evidenceVars PROVE EvidenceInv'
    OBVIOUS
  <2>1. CASE AgentClaims
    BY <2>1 DEF AgentClaims, EvidenceInv
  <2>2. CASE Redeploy
    BY <2>2 DEF Redeploy, EvidenceInv
  <2>3. CASE FuseClass
    <3>1. PICK f : f = Fused(claim, origin, loaded)
      OBVIOUS
    <3>2. evidence' = [made |-> TRUE, finding |-> f, family |-> FamilyOf(loaded),
                       status |-> Verification(claim, origin)]
      BY <2>3, <3>1 DEF FuseClass
    <3>3. evidence'.finding = f /\ claim.made /\ claim' = claim /\ origin' = origin /\ loaded' = loaded
      BY <2>3, <3>2 DEF FuseClass
    <3>4. Fused(claim, origin, loaded)' = f
      BY <3>1, <3>3
    <3> QED  BY <3>3, <3>4 DEF EvidenceInv
  <2>4. CASE UNCHANGED evidenceVars
    BY <2>4 DEF evidenceVars, EvidenceInv
  <2> QED  BY <2>1, <2>2, <2>3, <2>4 DEF EvidenceNext
<1>3. EvidenceInv => SilenceIsEarned
  <2> SUFFICES ASSUME EvidenceInv, evidence.made, evidence.finding.tier = "none"
               PROVE  /\ \/ origin \in Backing /\ claim.codeSource = "file"
                         \/ ~claim.wired /\ (claim.codeSource = "nested" \/ origin = "unreadable")
                      /\ claim.outside => claim.generated /\ ~ActionCapable(Capabilities(loaded))
    BY DEF SilenceIsEarned
  <2>1. Fused(claim, origin, loaded).tier = "none"
    BY DEF EvidenceInv
  <2>2. \A i \in 1..12 : ~Ladder(claim, Verification(claim, origin), Capabilities(loaded))[i].holds
    BY <2>1, SilenceIsOffTheLadder
  <2> QED  BY <2>2, OffTheLadder
<1> QED  BY <1>1, <1>2, <1>3, PTL DEF EvidenceSpec

=============================================================================
