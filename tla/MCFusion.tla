------------------------------ MODULE MCFusion ------------------------------
(***************************************************************************)
(* Instances of Fusion for TLC: findings that meet every branch of the     *)
(* scoring, duplicates included.                                           *)
(***************************************************************************)
EXTENDS Fusion

Finding(view, basis, tier, score) ==
  [view |-> view, host |-> "", target |-> "a", rule |-> 1, label |-> "", keys |-> {},
   first |-> "", basis |-> basis, tier |-> tier, score |-> score, allow |-> FALSE]

DiskPool ==
  LET F(basis, tier, score) == Finding("disk", basis, tier, score)
  IN  { F("signature", "likely", 70),
        F("signature", "likely", 80),        \* the same content, scored higher
        [F("signature", "likely", 70) EXCEPT !.allow = TRUE, !.rule = 2],
        [F("heuristic", "", 85) EXCEPT !.target = "b"],
        [F("signature", "likely", 70) EXCEPT !.label = "Behinder", !.target = "b"],
        F("structural-heuristic", "confirmed", 90),
        F("taint", "", 0) }

MemoryPool ==
  LET F(basis, tier, score) == Finding("dotnet-mem", basis, tier, score)
  IN  { F("structural-heuristic", "suspicious", 50),
        F("structural-heuristic", "likely", 70),
        F("structural-heuristic", "confirmed", 80),
        [F("structural-heuristic", "suspicious", 50) EXCEPT !.keys = {"Godzilla"}, !.target = "b"],
        [F("structural-heuristic", "suspicious", 50) EXCEPT !.keys = Keyed],
        F("stomp-diff", "likely", 70),
        F("behavioral", "suspicious", 50),
        [F("provenance-anomaly", "likely", 60) EXCEPT !.host = "other"],
        F("unheard-of", "likely", 99) }

\* The 32-bit companion, under the same view: a finding the other probe may have too, with
\* another tier and allowlisted, and one of its own.
CompanionPool ==
  LET F(basis, tier, score) == Finding("dotnet-mem", basis, tier, score)
  IN  { [F("structural-heuristic", "suspicious", 70) EXCEPT !.allow = TRUE],
        [F("structural-heuristic", "suspicious", 50) EXCEPT !.keys = Keyed],
        [F("behavioral", "suspicious", 50) EXCEPT !.label = "AntSword"] }

Probes == {"diskprobe", "dotnetmem", "dotnetmem-x86"}

ThreePools == [v \in Probes |-> CASE v = "diskprobe" -> DiskPool [] v = "dotnetmem" -> MemoryPool [] OTHER -> CompanionPool]
ThreeBounds == [v \in Probes |-> IF v = "diskprobe" THEN 2 ELSE 1]

\* What jvmprov/family.go and javamem's Family.java put on a class that holds
\* the default Behinder key, beside findings with no label of their own.
KeyedPools == [v \in Reporters |->
  IF v = "diskprobe" THEN DiskPool
  ELSE {[Finding("java-mem", "structural-heuristic", "likely", 70) EXCEPT !.keys = {"Behinder"}, !.label = l] :
          l \in {"", "behinder"}}]
OneEach == [v \in Reporters |-> 1]
=============================================================================
