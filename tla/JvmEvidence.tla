---------------------------- MODULE JvmEvidence ----------------------------
(***************************************************************************)
(* What the java-mem probe makes of one captured class: the claim the agent *)
(* wrote about it (jvmprov/claim.go), the archive the claim names as the     *)
(* scanner finds it afterwards (verify.go), what the class's bytes refer to  *)
(* (family.go), and the ladder that turns these into a finding (fuse.go).    *)
(* The application may be redeployed between the claim and the check.        *)
(***************************************************************************)
EXTENDS Naturals, FiniteSets, FiniteSetsExt

CONSTANTS LoadedClasses   \* classes a JVM may hold: see EvidenceInit

VARIABLES loaded,     \* the class: its code source, its bytes and what surrounds it
          origin,     \* what is at the code source now
          claim,      \* what the agent wrote, and whether it has
          evidence    \* the finding, once made

evidenceVars == <<loaded, origin, claim, evidence>>

\* What is found at a code source: nothing, a directory or an archive, each
\* with the class, with it under an agent's relocated name, or without it.
Origins == {"missing", "directory", "emptyDirectory", "archive", "relocated", "otherArchive", "unreadable"}
Backing == {"directory", "archive", "relocated"}

NoFinding == [tier |-> "none", score |-> 0, ref |-> "none"]

\* A class: [codeSource, origin, literals, names, wired, outside, generated,
\* watched, differs, loaderAnswers]. A pipeline contract is "direct", or "deep"
\* if only the closure over its supertypes finds it.
EvidenceInit ==
  /\ loaded \in LoadedClasses
  /\ origin = loaded.origin
  /\ claim = [made |-> FALSE]
  /\ evidence = [made |-> FALSE]

\* Suspicion.isCandidate: watched, fileless, out of contract or wired; code the
\* JVM generates is fileless and outside by design.
Candidate(c) ==
  \/ c.watched
  \/ c.codeSource = "none" /\ ~c.generated
  \/ c.outside /\ ~c.generated
  \/ c.wired = "direct"

\* facts: what the agent sees of a candidate, the closure over its supertypes and
\* its own comparison with the file included.
AgentClaims ==
  /\ ~claim.made /\ Candidate(loaded)
  /\ claim' = [made |-> TRUE, codeSource |-> loaded.codeSource,
               outside |-> loaded.outside /\ loaded.codeSource # "none", generated |-> loaded.generated,
               wired |-> loaded.wired # "no", loaderRead |-> loaded.loaderAnswers /\ loaded.codeSource # "none",
               anomaly |-> loaded.differs /\ loaded.codeSource # "none"]
  /\ UNCHANGED <<loaded, origin, evidence>>

\* The application is redeployed while its classes stay loaded.
Redeploy ==
  /\ ~evidence.made /\ loaded.codeSource = "file"
  /\ \E o \in {"missing", "otherArchive"} : origin' = o
  /\ UNCHANGED <<loaded, claim, evidence>>

\* Verify: nested archives cannot be opened from outside, and what is no archive
\* cannot be judged.
Verification(c, o) ==
  CASE c.codeSource = "nested" -> "unverifiable"
    [] c.codeSource = "none" -> "disk-absent-claim"
    [] c.codeSource = "file" /\ o = "unreadable" -> "unverifiable"
    [] c.codeSource = "file" /\ o \in Backing -> "corroborated"
    [] OTHER -> "spoofed"

\* The loader answered for a class that its file does not back.
Contradicted(c, o) == Verification(c, o) = "spoofed" /\ c.loaderRead

Needles == [exec |-> {"Runtime", "sh"}, tunnel |-> {"X-Accel-Buffering"}, loader |-> {"ClassLoader"},
            reflect |-> {"Method"}]

\* Capabilities come from string literals and from referenced names.
Capabilities(c) == {cap \in DOMAIN Needles : Needles[cap] \cap (c.literals \cup c.names) # {}}

\* A family comes from a literal only.
FamilyOf(c) ==
  CASE "e45e329feb5d925b" \in c.literals -> "behinder"
    [] "e45e329feb5d925b" \notin c.literals /\ "X-Accel-Buffering" \in c.literals -> "suo5"
    [] OTHER -> ""

ActionCapable(caps) == caps \cap {"exec", "tunnel"} # {}

Rung(holds, tier, score, ref) == [holds |-> holds, rung |-> [tier |-> tier, score |-> score, ref |-> ref]]

\* fuse's ladder: the first rung that holds.
Ladder(c, status, caps) ==
  LET spoofed == status = "spoofed"
      absent == status = "disk-absent-claim"
      acts == ActionCapable(caps)
      n == Cardinality(caps)
  IN  << Rung(spoofed /\ c.wired, "likely", 95, "codesource-spoofed"),
         Rung(spoofed /\ acts, "likely", 90, "codesource-spoofed"),
         Rung(spoofed, "suspicious", 60, "codesource-spoofed"),
         Rung(absent /\ c.wired, "likely", 95, "fileless-pipeline-class"),
         Rung(absent /\ acts, "likely", 80, "fileless-capable-class"),
         Rung(absent /\ n >= 2, "likely", 80, "fileless-capable-class"),
         Rung(absent /\ n = 1, "suspicious", 55, "fileless-class"),
         Rung(absent, "suspicious", 50, "fileless-class"),
         Rung(status = "unverifiable" /\ c.wired, "suspicious", 50, "unverifiable-origin"),
         Rung(c.outside /\ c.wired /\ ~c.generated, "likely", 90, "codesource-out-of-contract"),
         Rung(c.outside /\ acts, "likely", 80, "codesource-out-of-contract"),
         Rung(c.outside /\ ~c.generated, "suspicious", 55, "codesource-out-of-contract") >>

\* Mutant for SilenceIsEarned: the exemption of generated code is asked first.
FusedExempting(c, o, class) ==
  LET steps == Ladder(c, Verification(c, o), Capabilities(class))
      held == {i \in DOMAIN steps : steps[i].holds}
  IN  IF held = {} \/ c.generated THEN NoFinding ELSE steps[Min(held)].rung

\* A contradicted loader adds to the score and takes the reference, not the tier.
Fused(c, o, class) ==
  LET steps == Ladder(c, Verification(c, o), Capabilities(class))
      held == {i \in DOMAIN steps : steps[i].holds}
      rung == steps[Min(held)].rung
  IN  IF held = {} THEN NoFinding
      ELSE IF Contradicted(c, o)
        THEN [rung EXCEPT !.score = @ + 5, !.ref = "loader-contradiction"]
        ELSE rung

FuseClass ==
  /\ claim.made /\ ~evidence.made
  /\ evidence' = [made |-> TRUE, finding |-> Fused(claim, origin, loaded), family |-> FamilyOf(loaded),
                  status |-> Verification(claim, origin)]
  /\ UNCHANGED <<loaded, origin, claim>>

EvidenceNext == AgentClaims \/ Redeploy \/ FuseClass

EvidenceSpec == EvidenceInit /\ [][EvidenceNext]_evidenceVars

(***************************************************************************)
(* Properties                                                              *)
(***************************************************************************)

\* Silence is a judgement: a captured class goes unreported only if its file
\* holds it - or cannot be opened and it is not on the request path - and it came
\* from a declared place, or was generated there and cannot act.
SilenceIsEarned ==
  evidence.made /\ evidence.finding.tier = "none" =>
    /\ \/ origin \in Backing /\ claim.codeSource = "file"
       \/ ~claim.wired /\ (claim.codeSource = "nested" \/ origin = "unreadable")
    /\ claim.outside => claim.generated /\ ~ActionCapable(Capabilities(loaded))
=============================================================================
