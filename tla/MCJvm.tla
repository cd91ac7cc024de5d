------------------------------- MODULE MCJvm -------------------------------
(***************************************************************************)
(* An instance of JvmProbe: two scanners and two JVMs. A host is a pair of  *)
(* processes, the scanners' users and what they were asked for, and may     *)
(* suffer one incident.                                                     *)
(***************************************************************************)
EXTENDS JvmProbe

Jvm == [java |-> TRUE, readable |-> TRUE, attachedBefore |-> FALSE, nspid |-> TRUE, external |-> {},
        tmpWritable |-> TRUE, uid |-> 0, room |-> TRUE, sentinel |-> "cwd", attachable |-> TRUE, loads |-> TRUE,
        classes |-> <<"watched">>]
Alike == [Jvm EXCEPT !.classes = <<"plain">>]
Other == [Jvm EXCEPT !.java = FALSE]
Longer == [Jvm EXCEPT !.attachedBefore = TRUE, !.external = {"deleted-mapping"},
                      !.classes = <<"fixed", "plain", "plain", "plain">>]
AnotherUser == 8

HostOf(a, b, euid, asked, most) == [processes |-> <<a, b>>, euid |-> euid, asked |-> asked, incidents |-> most]
Privileged == [p |-> 0, q |-> 0]
Each(pids) == [s \in {"p", "q"} |-> pids]
OnlyP == [p |-> {}, q |-> {99}]    \* q is asked for a process there is not

MCJvmHosts ==
  { HostOf(Jvm, Longer, Privileged, OnlyP, 0),
    HostOf(Jvm, Other, Privileged, OnlyP, 1),
    HostOf(Other, Longer, Privileged, OnlyP, 1),
    HostOf([Jvm EXCEPT !.classes = <<"hangs", "plain">>], [Jvm EXCEPT !.readable = FALSE], Privileged, OnlyP, 1),
    HostOf([Jvm EXCEPT !.classes = <<"silent">>], Other, Privileged, OnlyP, 0),
    HostOf([Jvm EXCEPT !.uid = AnotherUser, !.sentinel = "none", !.attachedBefore = TRUE],
           [Jvm EXCEPT !.nspid = FALSE, !.attachable = FALSE], Privileged, OnlyP, 1),
    HostOf([Jvm EXCEPT !.uid = AnotherUser], [Jvm EXCEPT !.tmpWritable = FALSE], Each(AnotherUser), OnlyP, 1),
    HostOf([Jvm EXCEPT !.sentinel = "none"], [Jvm EXCEPT !.loads = FALSE], Privileged, OnlyP, 1),
    HostOf([Jvm EXCEPT !.uid = AnotherUser, !.sentinel = "tmp"], Other, Privileged, Each({1}), 0),
    HostOf(Jvm, Other, [p |-> 0, q |-> 9], Each({1}), 0),
    HostOf([Alike EXCEPT !.sentinel = "tmp", !.room = FALSE], [Alike EXCEPT !.tmpWritable = FALSE],
           [p |-> AnotherUser, q |-> 0], [p |-> {1}, q |-> {}], 1),
    HostOf(Alike, [Alike EXCEPT !.room = FALSE], Privileged, OnlyP, 1),
    HostOf([Alike EXCEPT !.room = FALSE], Alike, Privileged, OnlyP, 1),
    HostOf(Other, Other, Privileged, Each({1}), 1) }
=============================================================================
