------------------------- MODULE ProbeProcessProofs -------------------------
(***************************************************************************)
(* Theorems about ProbeProcess, for every size of pipe, capture bound and  *)
(* amount of output. The types alone are inductive. The other properties   *)
(* follow from Order, which says what the runner knows about the child and *)
(* the streams by the place it has got to.                                 *)
(***************************************************************************)
EXTENDS ProbeProcess, TLAPS

\* The places of the runner, the child and the streams agree: no report before
\* the end, nothing spawned that was to be refused or failed to start, a published
\* stream is that of an ended child and is empty, a child that exited 0 has written
\* everything, the runner passes Wait only with both streams in hand and the child
\* ended, and the watcher cancels only what is overdue.
Order ==
  /\ pc # "done" => report = NoReport
  /\ pc \notin {"check", "done"} => ~cannotRun /\ ~notApplicable
  /\ pc \in {"check", "start"} \/ cannotRun \/ notApplicable => child = "none"
  /\ startErr => pc \in {"classify", "done"} /\ child = "none"
  /\ \A s \in Streams : published[s] => Ended /\ pipe[s] = 0
  /\ child = "zero" => \A s \in Streams : left[s] = 0
  /\ pc = "wait" \/ (pc \in {"classify", "done"} /\ child # "none") =>
       \A s \in Streams : published[s]
  /\ Alive => pc \in {"read", "wait"}
  /\ pc \in {"read", "wait"} => child # "none"
  /\ watch \in {"cancelled", "overdue"} => expired

\* A mirror needs a child that started and did not unwind, and a child that can be
\* asked to stop is killed only after the grace period.
Mirrors ==
  /\ mirror => child \in {"running", "crash", "killed"}
  /\ child = "killed" /\ sigterm => watch = "overdue"

\* The inductive invariant. Of the four properties only EveryGapHasAReason needs no
\* more than types; the others lean on Order, and the mirror's on Mirrors.
Inv == /\ TypeOK /\ Order /\ Mirrors
       /\ ReportsAreEarned /\ EveryGapHasAReason /\ NoiseDiscardsNothing

-----------------------------------------------------------------------------
(* What the verdict of the runner is made of.                               *)

\* A verdict is a report.
LEMMA VerdictType ==
  ASSUME TypeOK
  PROVE  Verdict \in Reports /\ Verdict.status # "none"
<1>1. doc \in Documents
  BY DocsAssumption DEF TypeOK
<1>2. Parsed(doc) \in Reports /\ Parsed(doc).status # "none"
  BY <1>1 DEF Parsed, Failed, Documents, Reports, Statuses, Known
<1>3. Degrade(Parsed(doc)) \in Reports /\ Degrade(Parsed(doc)).status # "none"
  BY <1>2 DEF Degrade, Reports, Statuses, Known
<1>4. QED
  BY <1>3 DEF Verdict, Failed, Reports, Statuses, Known

\* A verdict other than the failure is that of an answer in full and in time.
LEMMA VerdictIsEarned ==
  ASSUME TypeOK, Verdict.status # "failed" \/ Verdict.found
  PROVE  /\ ~expired /\ ~startErr /\ child = "zero"
         /\ ~(total["out"] > StdoutLimit)
         /\ doc.form # "garbage" /\ doc.coherent
<1>1. ~expired /\ ~ProcErr /\ ~Overflow("out")
  BY DEF Verdict, Failed
<1>2. Verdict = Degrade(Parsed(doc))
  BY <1>1 DEF Verdict
<1>3. Parsed(doc) # Failed
  BY <1>2 DEF Degrade, Failed
<1>4. doc.form # "garbage" /\ doc.coherent
  <2>1. doc \in Documents
    BY DocsAssumption DEF TypeOK
  <2>2. QED
    BY <1>3, <2>1 DEF Parsed, Documents
<1>5. QED
  BY <1>1, <1>4 DEF ProcErr, Overflow, Limit

\* A verdict that is not "ran" carries a reason.
LEMMA VerdictHasAReason ==
  ASSUME TypeOK, Verdict.status # "ran"
  PROVE  Verdict.reason
<1>1. doc \in Documents
  BY DocsAssumption DEF TypeOK
<1>2. Parsed(doc) \in Reports /\ (Parsed(doc).status # "ran" => Parsed(doc).reason)
  BY <1>1 DEF Parsed, Failed, Documents, Reports, Statuses, Known
<1>3. Degrade(Parsed(doc)).status # "ran" => Degrade(Parsed(doc)).reason
  BY <1>2 DEF Degrade, Reports
<1>4. QED
  BY <1>3 DEF Verdict, Failed

\* The verdict on an answer in full, in time and within the bound is the answer.
LEMMA VerdictKeepsTheAnswer ==
  ASSUME TypeOK, Order, ~startErr, child = "zero", ~expired, ~(total["out"] > StdoutLimit),
         doc.form # "garbage", doc.coherent
  PROVE  /\ Verdict.found = doc.found
         /\ Verdict.status = "failed" => doc.status = "failed"
<1>1. ~ProcErr /\ ~Overflow("out")
  BY DEF ProcErr, Overflow, Limit, Order
<1>2. Verdict = Degrade(Parsed(doc))
  BY <1>1 DEF Verdict
<1>3. doc \in Documents
  BY DocsAssumption DEF TypeOK
<1>4. /\ Parsed(doc) \in Reports
      /\ Parsed(doc).found = doc.found
      /\ Parsed(doc).status = "failed" => doc.status = "failed"
  BY <1>3 DEF Parsed, Failed, Documents, Reports, Statuses, Known
<1>5. QED
  BY <1>2, <1>4 DEF Degrade, Reports

-----------------------------------------------------------------------------
(* Types.                                                                   *)

\* The variables have their types at the start.
LEMMA TypeInit == Init => TypeOK
<1> SUFFICES ASSUME Init PROVE TypeOK
  OBVIOUS
<1>1. /\ left \in [Streams -> Nat] /\ pipe \in [Streams -> 0 .. PipeCap]
      /\ total \in [Streams -> Nat] /\ published \in [Streams -> BOOLEAN]
  BY SizesAssumption DEF Init
<1>2. NoReport \in Reports
  BY DEF NoReport, Reports
<1>3. QED
  BY <1>1, <1>2 DEF Init, TypeOK

\* Every step keeps the types: Drain never reads an empty pipe, Write never overfills one.
LEMMA TypeStep == TypeOK /\ [Next]_vars => TypeOK'
<1> SUFFICES ASSUME TypeOK, [Next]_vars PROVE TypeOK'
  OBVIOUS
<1> USE DEF TypeOK, Probe, Streamv
<1>1. CASE Refuse
  BY <1>1 DEF Refuse, Reports, Statuses, Known
<1>2. CASE Begin
  BY <1>2 DEF Begin
<1>3. CASE StartFails
  BY <1>3 DEF StartFails
<1>4. CASE Start
  BY <1>4 DEF Start
<1>5. CASE StreamsRead
  BY <1>5 DEF StreamsRead
<1>6. CASE Wait
  BY <1>6 DEF Wait
<1>7. CASE Classify
  <2>1. report' \in Reports
    BY <1>7, VerdictType DEF Classify
  <2>2. QED
    BY <1>7, <2>1 DEF Classify
<1>8. CASE Deadline
  BY <1>8 DEF Deadline
<1>9. CASE Cancel
  BY <1>9 DEF Cancel, Alive
<1>10. CASE GraceOver
  BY <1>10 DEF GraceOver, Alive
<1>11. CASE MakeMirror
  BY <1>11 DEF MakeMirror
<1>12. CASE Finish
  BY <1>12 DEF Finish
<1>13. CASE GiveUp
  BY <1>13 DEF GiveUp
<1>14. CASE Crash
  BY <1>14 DEF Crash
<1>15. ASSUME NEW s \in Streams, Drain(s) PROVE TypeOK'
  <2>1. pipe[s] - 1 \in 0 .. PipeCap /\ total[s] + 1 \in Nat
    BY <1>15, SizesAssumption DEF Drain
  <2>2. QED
    BY <1>15, <2>1 DEF Drain
<1>16. ASSUME NEW s \in Streams, EndOfFile(s) PROVE TypeOK'
  BY <1>16 DEF EndOfFile
<1>17. ASSUME NEW s \in Streams, Write(s) PROVE TypeOK'
  <2>1. pipe[s] + 1 \in 0 .. PipeCap /\ left[s] - 1 \in Nat
    BY <1>17, SizesAssumption DEF Write
  <2>2. QED
    BY <1>17, <2>1 DEF Write
<1>18. CASE UNCHANGED vars
  BY <1>18 DEF vars
<1>19. QED
  BY <1>1, <1>2, <1>3, <1>4, <1>5, <1>6, <1>7, <1>8, <1>9,
     <1>10, <1>11, <1>12, <1>13, <1>14, <1>15, <1>16, <1>17, <1>18 DEF Next

\* The variables of a probe run keep their types, whatever the sizes.
THEOREM TypeCorrect == Spec => []TypeOK
<1>1. Init => TypeOK
  BY TypeInit
<1>2. TypeOK /\ [Next]_vars => TypeOK'
  BY TypeStep
<1>3. QED
  BY <1>1, <1>2, PTL DEF Spec

-----------------------------------------------------------------------------
(* The places of the runner, the child, the streams and the mirror.         *)

\* Every step keeps the runner, the child, the streams and the watcher in step with
\* each other (runProbeProcess reads both streams before Wait).
LEMMA OrderStep == TypeOK /\ Order /\ [Next]_vars => Order'
<1> SUFFICES ASSUME TypeOK, Order, [Next]_vars PROVE Order'
  OBVIOUS
<1> USE DEF TypeOK, Order, Probe, Streamv, Ended, Alive, Streams
<1>1. CASE Refuse
  BY <1>1 DEF Refuse
<1>2. CASE Begin
  BY <1>2 DEF Begin
<1>3. CASE StartFails
  BY <1>3 DEF StartFails
<1>4. CASE Start
  BY <1>4 DEF Start
<1>5. CASE StreamsRead
  BY <1>5 DEF StreamsRead
<1>6. CASE Wait
  BY <1>6 DEF Wait
<1>7. CASE Classify
  BY <1>7 DEF Classify
<1>8. CASE Deadline
  BY <1>8 DEF Deadline
<1>9. CASE Cancel
  BY <1>9 DEF Cancel
<1>10. CASE GraceOver
  BY <1>10 DEF GraceOver
<1>11. CASE MakeMirror
  BY <1>11 DEF MakeMirror
<1>12. CASE Finish
  BY <1>12 DEF Finish
<1>13. CASE GiveUp
  BY <1>13 DEF GiveUp
<1>14. CASE Crash
  BY <1>14 DEF Crash
<1>15. ASSUME NEW s \in Streams, Drain(s) PROVE Order'
  BY <1>15 DEF Drain
<1>16. ASSUME NEW s \in Streams, EndOfFile(s) PROVE Order'
  BY <1>16 DEF EndOfFile
<1>17. ASSUME NEW s \in Streams, Write(s) PROVE Order'
  BY <1>17 DEF Write
<1>18. CASE UNCHANGED vars
  BY <1>18 DEF vars
<1>19. QED
  BY <1>1, <1>2, <1>3, <1>4, <1>5, <1>6, <1>7, <1>8, <1>9,
     <1>10, <1>11, <1>12, <1>13, <1>14, <1>15, <1>16, <1>17, <1>18 DEF Next

\* Every step keeps the mirror of a child that ended to the deaths without unwinding.
LEMMA MirrorsStep == TypeOK /\ Order /\ Mirrors /\ [Next]_vars => Mirrors'
<1> SUFFICES ASSUME TypeOK, Order, Mirrors, [Next]_vars PROVE Mirrors'
  OBVIOUS
<1> USE DEF TypeOK, Order, Mirrors, Probe, Streamv, Ended, Alive
<1>1. CASE Refuse
  BY <1>1 DEF Refuse
<1>2. CASE Begin
  BY <1>2 DEF Begin
<1>3. CASE StartFails
  BY <1>3 DEF StartFails
<1>4. CASE Start
  BY <1>4 DEF Start
<1>5. CASE StreamsRead
  BY <1>5 DEF StreamsRead
<1>6. CASE Wait
  BY <1>6 DEF Wait
<1>7. CASE Classify
  BY <1>7 DEF Classify
<1>8. CASE Deadline
  BY <1>8 DEF Deadline
<1>9. CASE Cancel
  BY <1>9 DEF Cancel
<1>10. CASE GraceOver
  BY <1>10 DEF GraceOver
<1>11. CASE MakeMirror
  BY <1>11 DEF MakeMirror
<1>12. CASE Finish
  BY <1>12 DEF Finish
<1>13. CASE GiveUp
  BY <1>13 DEF GiveUp
<1>14. CASE Crash
  BY <1>14 DEF Crash
<1>15. ASSUME NEW s \in Streams, Drain(s) PROVE Mirrors'
  BY <1>15 DEF Drain
<1>16. ASSUME NEW s \in Streams, EndOfFile(s) PROVE Mirrors'
  BY <1>16 DEF EndOfFile
<1>17. ASSUME NEW s \in Streams, Write(s) PROVE Mirrors'
  BY <1>17 DEF Write
<1>18. CASE UNCHANGED vars
  BY <1>18 DEF vars
<1>19. QED
  BY <1>1, <1>2, <1>3, <1>4, <1>5, <1>6, <1>7, <1>8, <1>9,
     <1>10, <1>11, <1>12, <1>13, <1>14, <1>15, <1>16, <1>17, <1>18 DEF Next

-----------------------------------------------------------------------------
(* The record of the run. Only Refuse and Classify write it; the rest of the *)
(* steps must leave what it was earned with as it was.                       *)

\* Every step keeps a report earned: Classify earns it, and the others leave what it
\* was earned with.
LEMMA EarnedStep == TypeOK /\ Order /\ ReportsAreEarned /\ [Next]_vars => ReportsAreEarned'
<1> SUFFICES ASSUME TypeOK, Order, ReportsAreEarned, [Next]_vars PROVE ReportsAreEarned'
  OBVIOUS
<1> USE DEF TypeOK, Order, ReportsAreEarned, Answered, NoReport, Probe, Streamv, Ended, Alive, Streams
<1>1. CASE Refuse
  BY <1>1 DEF Refuse
<1>2. CASE Begin
  BY <1>2 DEF Begin
<1>3. CASE StartFails
  BY <1>3 DEF StartFails
<1>4. CASE Start
  BY <1>4 DEF Start
<1>5. CASE StreamsRead
  BY <1>5 DEF StreamsRead
<1>6. CASE Wait
  BY <1>6 DEF Wait
<1>7. CASE Classify
  <2>1. report' = Verdict /\ UNCHANGED <<Probe, child, Streamv, startErr, expired>>
    BY <1>7 DEF Classify
  <2>2. CASE Verdict.status = "failed" /\ ~Verdict.found
    BY <2>1, <2>2
  <2>3. CASE Verdict.status # "failed" \/ Verdict.found
    <3>1. ~expired /\ ~startErr /\ child = "zero" /\ ~(total["out"] > StdoutLimit)
          /\ doc.form # "garbage" /\ doc.coherent
      BY <2>3, VerdictIsEarned
    <3>2. Answered /\ ~cannotRun /\ ~notApplicable
      BY <1>7, <3>1 DEF Classify
    <3>3. total["out"] <= StdoutLimit
      BY <3>1, SizesAssumption
    <3>4. QED
      BY <2>1, <3>1, <3>2, <3>3
  <2>4. QED
    BY <2>2, <2>3
<1>8. CASE Deadline
  BY <1>8 DEF Deadline
<1>9. CASE Cancel
  BY <1>9 DEF Cancel
<1>10. CASE GraceOver
  BY <1>10 DEF GraceOver
<1>11. CASE MakeMirror
  BY <1>11 DEF MakeMirror
<1>12. CASE Finish
  BY <1>12 DEF Finish
<1>13. CASE GiveUp
  BY <1>13 DEF GiveUp
<1>14. CASE Crash
  BY <1>14 DEF Crash
<1>15. ASSUME NEW s \in Streams, Drain(s) PROVE ReportsAreEarned'
  BY <1>15 DEF Drain
<1>16. ASSUME NEW s \in Streams, EndOfFile(s) PROVE ReportsAreEarned'
  BY <1>16 DEF EndOfFile
<1>17. ASSUME NEW s \in Streams, Write(s) PROVE ReportsAreEarned'
  BY <1>17 DEF Write
<1>18. CASE UNCHANGED vars
  BY <1>18 DEF vars
<1>19. QED
  BY <1>1, <1>2, <1>3, <1>4, <1>5, <1>6, <1>7, <1>8, <1>9,
     <1>10, <1>11, <1>12, <1>13, <1>14, <1>15, <1>16, <1>17, <1>18 DEF Next

\* Every step keeps a reason on every gap.
LEMMA ReasonStep == TypeOK /\ EveryGapHasAReason /\ [Next]_vars => EveryGapHasAReason'
<1> SUFFICES ASSUME TypeOK, EveryGapHasAReason, [Next]_vars PROVE EveryGapHasAReason'
  OBVIOUS
<1> USE DEF EveryGapHasAReason
<1>1. CASE Refuse
  BY <1>1 DEF Refuse
<1>2. CASE Begin
  BY <1>2 DEF Begin
<1>3. CASE StartFails
  BY <1>3 DEF StartFails
<1>4. CASE Start
  BY <1>4 DEF Start
<1>5. CASE StreamsRead
  BY <1>5 DEF StreamsRead
<1>6. CASE Wait
  BY <1>6 DEF Wait
<1>7. CASE Classify
  BY <1>7, VerdictHasAReason DEF Classify
<1>8. CASE Deadline
  BY <1>8 DEF Deadline
<1>9. CASE Cancel
  BY <1>9 DEF Cancel
<1>10. CASE GraceOver
  BY <1>10 DEF GraceOver
<1>11. CASE MakeMirror
  BY <1>11 DEF MakeMirror
<1>12. CASE Finish
  BY <1>12 DEF Finish
<1>13. CASE GiveUp
  BY <1>13 DEF GiveUp
<1>14. CASE Crash
  BY <1>14 DEF Crash
<1>15. ASSUME NEW s \in Streams, Drain(s) PROVE EveryGapHasAReason'
  BY <1>15 DEF Drain
<1>16. ASSUME NEW s \in Streams, EndOfFile(s) PROVE EveryGapHasAReason'
  BY <1>16 DEF EndOfFile
<1>17. ASSUME NEW s \in Streams, Write(s) PROVE EveryGapHasAReason'
  BY <1>17 DEF Write
<1>18. CASE UNCHANGED vars
  BY <1>18 DEF vars
<1>19. QED
  BY <1>1, <1>2, <1>3, <1>4, <1>5, <1>6, <1>7, <1>8, <1>9,
     <1>10, <1>11, <1>12, <1>13, <1>14, <1>15, <1>16, <1>17, <1>18 DEF Next

\* Every step keeps the findings of a child that answered.
LEMMA NoiseStep == TypeOK /\ Order /\ NoiseDiscardsNothing /\ [Next]_vars => NoiseDiscardsNothing'
<1> SUFFICES ASSUME TypeOK, Order, NoiseDiscardsNothing, [Next]_vars PROVE NoiseDiscardsNothing'
  OBVIOUS
<1> USE DEF TypeOK, Order, NoiseDiscardsNothing, Answered, Probe, Streamv, Ended, Alive, Streams
<1>1. CASE Refuse
  BY <1>1 DEF Refuse
<1>2. CASE Begin
  BY <1>2 DEF Begin
<1>3. CASE StartFails
  BY <1>3 DEF StartFails
<1>4. CASE Start
  BY <1>4 DEF Start
<1>5. CASE StreamsRead
  BY <1>5 DEF StreamsRead
<1>6. CASE Wait
  BY <1>6 DEF Wait
<1>7. CASE Classify
  <2>1. report' = Verdict /\ UNCHANGED <<Probe, child, Streamv, startErr, expired>>
    BY <1>7 DEF Classify
  <2>2. child = "zero" => ~startErr
    OBVIOUS
  <2>3. total["out"] <= StdoutLimit => ~(total["out"] > StdoutLimit)
    BY SizesAssumption
  <2>4. QED
    BY <2>1, <2>2, <2>3, VerdictKeepsTheAnswer
<1>8. CASE Deadline
  BY <1>8 DEF Deadline
<1>9. CASE Cancel
  BY <1>9 DEF Cancel
<1>10. CASE GraceOver
  BY <1>10 DEF GraceOver
<1>11. CASE MakeMirror
  BY <1>11 DEF MakeMirror
<1>12. CASE Finish
  BY <1>12 DEF Finish
<1>13. CASE GiveUp
  BY <1>13 DEF GiveUp
<1>14. CASE Crash
  BY <1>14 DEF Crash
<1>15. ASSUME NEW s \in Streams, Drain(s) PROVE NoiseDiscardsNothing'
  BY <1>15 DEF Drain
<1>16. ASSUME NEW s \in Streams, EndOfFile(s) PROVE NoiseDiscardsNothing'
  BY <1>16 DEF EndOfFile
<1>17. ASSUME NEW s \in Streams, Write(s) PROVE NoiseDiscardsNothing'
  BY <1>17 DEF Write
<1>18. CASE UNCHANGED vars
  BY <1>18 DEF vars
<1>19. QED
  BY <1>1, <1>2, <1>3, <1>4, <1>5, <1>6, <1>7, <1>8, <1>9,
     <1>10, <1>11, <1>12, <1>13, <1>14, <1>15, <1>16, <1>17, <1>18 DEF Next

\* The inductive invariant holds of every run.
LEMMA InvCorrect == Spec => []Inv
<1>1. Init => Inv
  <2> SUFFICES ASSUME Init PROVE Inv
    OBVIOUS
  <2>1. TypeOK
    BY TypeInit
  <2>2. Order /\ Mirrors
    BY DEF Init, Order, Mirrors, Ended, Alive, Streams
  <2>3. ReportsAreEarned /\ EveryGapHasAReason /\ NoiseDiscardsNothing
    BY DEF Init, ReportsAreEarned, EveryGapHasAReason, NoiseDiscardsNothing, NoReport
  <2>4. QED
    BY <2>1, <2>2, <2>3 DEF Inv
<1>2. Inv /\ [Next]_vars => Inv'
  BY TypeStep, OrderStep, MirrorsStep, EarnedStep, ReasonStep, NoiseStep DEF Inv
<1>3. QED
  BY <1>1, <1>2, PTL DEF Spec

\* A record other than a failure, and any finding, is that of a child that answered
\* in full, in time and within the capture bound ("any error yields a failed
\* coverage entry and zero findings", the comment on RunProbe).
THEOREM ReportsEarned == Spec => []ReportsAreEarned
<1>1. Inv => ReportsAreEarned
  BY DEF Inv
<1>2. QED
  BY <1>1, InvCorrect, PTL

\* Every record that is not `ran` has a reason (FR-012, the comment on withReason).
THEOREM GapsExplained == Spec => []EveryGapHasAReason
<1>1. Inv => EveryGapHasAReason
  BY DEF Inv
<1>2. QED
  BY <1>1, InvCorrect, PTL

\* Noise on stderr, however much of it, never costs a coherent answer its findings
\* (the stderr branch of runProbe).
THEOREM NoiseHarmless == Spec => []NoiseDiscardsNothing
<1>1. Inv => NoiseDiscardsNothing
  BY DEF Inv
<1>2. QED
  BY <1>1, InvCorrect, PTL

\* A decoded mirror survives a run only after a crash, or after a kill that follows
\* the whole grace period where SIGTERM exists (terminate.go).
THEOREM MirrorsRemoved == Spec => []MirrorOutlivesOnlyAKill
<1>1. Inv => MirrorOutlivesOnlyAKill
  BY DEF Inv, Order, Mirrors, MirrorOutlivesOnlyAKill, Alive
<1>2. QED
  BY <1>1, InvCorrect, PTL

-----------------------------------------------------------------------------
(* The run implements ProbeContract.                                        *)

\* Broken is what a verdict on a child that did not exit with 0 comes to.
LEMMA VerdictOnABrokenChild ==
  ASSUME TypeOK, child # "zero"
  PROVE  Verdict = Failed
BY DEF Verdict, ProcErr

\* The end of a child is the one End of the contract.
LEMMA EndsOnce ==
  ASSUME TypeOK, Order, Alive, child' \in {"zero", "nonzero", "crash", "killed"},
         UNCHANGED <<cannotRun, notApplicable, report>>
  PROVE  Contract!ContractNext
<1>1. child = "running" /\ ~cannotRun /\ ~notApplicable /\ report = NoReport
  BY DEF Order, Alive
<1>2. report.status = "none" /\ report.found = FALSE
  BY <1>1 DEF NoReport
<1>3. QED
  BY <1>1, <1>2 DEF Contract!ContractNext, Contract!End, Contract!NoReport

\* Every step of a run is a step of the contract, or a stutter of it.
LEMMA ContractStep == Inv /\ [Next]_vars => [Contract!ContractNext]_(Contract!contract)
<1> SUFFICES ASSUME Inv, [Next]_vars PROVE [Contract!ContractNext]_(Contract!contract)
  OBVIOUS
<1> USE DEF Inv, TypeOK, Order, Probe, Streamv, Alive
<1>1. CASE Refuse
  <2>1. report.status = "none" /\ report.found = FALSE
    BY <1>1 DEF Refuse, NoReport
  <2>2. report' = [status |-> IF cannotRun THEN "failed" ELSE "n/a", reason |-> TRUE, found |-> FALSE]
    BY <1>1 DEF Refuse
  <2>3. (cannotRun \/ notApplicable) /\ UNCHANGED <<cannotRun, notApplicable, child>>
    BY <1>1 DEF Refuse
  <2>4. CASE cannotRun
    <3>1. report'.status = "failed" /\ report'.found = FALSE
      BY <2>2, <2>4
    <3>2. QED
      BY <2>1, <2>3, <2>4, <3>1 DEF Contract!ContractNext, Contract!Conclude, Contract!Outcomes, Contract!NoReport
  <2>5. CASE ~cannotRun
    <3>1. report'.status = "n/a" /\ report'.found = FALSE
      BY <2>2, <2>5
    <3>2. QED
      BY <2>1, <2>3, <2>5, <3>1 DEF Contract!ContractNext, Contract!Conclude, Contract!Outcomes, Contract!NoReport
  <2>6. QED
    BY <2>4, <2>5
<1>2. CASE Begin
  BY <1>2 DEF Begin, Contract!contract
<1>3. CASE StartFails
  BY <1>3 DEF StartFails, Contract!contract
<1>4. CASE Start
  BY <1>4 DEF Start, Contract!contract
<1>5. CASE StreamsRead
  BY <1>5 DEF StreamsRead, Contract!contract
<1>6. CASE Wait
  BY <1>6 DEF Wait, Contract!contract
<1>7. CASE Classify
  <2>1. report' = Verdict /\ UNCHANGED <<Probe, child>>
    BY <1>7 DEF Classify
  <2>2. Verdict \in Reports /\ Verdict.status # "none"
    BY VerdictType
  <2>3. child # "zero" => Verdict = Failed
    BY VerdictOnABrokenChild
  <2>4. QED
    <3>1. report = NoReport /\ ~cannotRun /\ ~notApplicable
      BY <1>7 DEF Classify
    <3>2. report.status = "none" /\ report.found = FALSE
      BY <3>1 DEF NoReport
    <3>3. /\ report'.status \in Statuses /\ report'.found \in BOOLEAN
          /\ child # "zero" => report'.status = "failed" /\ report'.found = FALSE
      BY <2>1, <2>2, <2>3 DEF Reports, Failed
    <3>4. UNCHANGED <<cannotRun, notApplicable, child>>
      BY <2>1 DEF Probe
    <3>5. QED
      BY <3>1, <3>2, <3>3, <3>4 DEF Statuses, Known, Contract!ContractNext, Contract!Conclude,
         Contract!Outcomes, Contract!NoReport, Contract!Broken, Contract!Statuses, Contract!Known
<1>8. CASE Deadline
  BY <1>8 DEF Deadline, Contract!contract
<1>9. CASE Cancel
  <2>1. UNCHANGED <<cannotRun, notApplicable, report>>
    BY <1>9 DEF Cancel
  <2>2. CASE child' = child
    BY <2>1, <2>2 DEF Contract!contract
  <2>3. CASE Alive /\ child' = "killed"
    BY <2>1, <2>3, EndsOnce
  <2>4. QED
    BY <1>9, <2>2, <2>3 DEF Cancel
<1>10. CASE GraceOver
  <2>1. UNCHANGED <<cannotRun, notApplicable, report>>
    BY <1>10 DEF GraceOver
  <2>2. CASE child' = child
    BY <2>1, <2>2 DEF Contract!contract
  <2>3. CASE Alive /\ child' = "killed"
    BY <2>1, <2>3, EndsOnce
  <2>4. QED
    BY <1>10, <2>2, <2>3 DEF GraceOver
<1>11. CASE MakeMirror
  BY <1>11 DEF MakeMirror, Contract!contract
<1>12. CASE Finish
  <2>1. child' \in {"zero", "nonzero", "crash", "killed"} /\ UNCHANGED <<cannotRun, notApplicable, report>>
    BY <1>12 DEF Finish
  <2>2. Alive
    BY <1>12 DEF Finish
  <2>3. QED
    BY <2>1, <2>2, EndsOnce
<1>13. CASE GiveUp
  <2>1. child' \in {"zero", "nonzero", "crash", "killed"} /\ UNCHANGED <<cannotRun, notApplicable, report>>
    BY <1>13 DEF GiveUp
  <2>2. Alive
    BY <1>13 DEF GiveUp
  <2>3. QED
    BY <2>1, <2>2, EndsOnce
<1>14. CASE Crash
  <2>1. child' \in {"zero", "nonzero", "crash", "killed"} /\ UNCHANGED <<cannotRun, notApplicable, report>>
    BY <1>14 DEF Crash
  <2>2. Alive
    BY <1>14 DEF Crash
  <2>3. QED
    BY <2>1, <2>2, EndsOnce
<1>15. ASSUME NEW s \in Streams, Drain(s) PROVE [Contract!ContractNext]_(Contract!contract)
  BY <1>15 DEF Drain, Contract!contract
<1>16. ASSUME NEW s \in Streams, EndOfFile(s) PROVE [Contract!ContractNext]_(Contract!contract)
  BY <1>16 DEF EndOfFile, Contract!contract
<1>17. ASSUME NEW s \in Streams, Write(s) PROVE [Contract!ContractNext]_(Contract!contract)
  BY <1>17 DEF Write, Contract!contract
<1>18. CASE UNCHANGED vars
  BY <1>18 DEF vars, Contract!contract
<1>19. QED
  BY <1>1, <1>2, <1>3, <1>4, <1>5, <1>6, <1>7, <1>8, <1>9,
     <1>10, <1>11, <1>12, <1>13, <1>14, <1>15, <1>16, <1>17, <1>18 DEF Next

\* A run of a probe, whatever its child does, is a behaviour of the contract: one
\* record, findings only with a child that ended cleanly, a failure otherwise.
THEOREM ContractImplemented == Spec => ImplementsContract
<1>1. Init => Contract!ContractInit
  BY DEF Init, NoReport, Contract!ContractInit, Contract!Kinds, Contract!NoReport
<1>2. Inv /\ [Next]_vars => [Contract!ContractNext]_(Contract!contract)
  BY ContractStep
<1>3. QED
  BY <1>1, <1>2, InvCorrect, PTL DEF Spec, ImplementsContract, Contract!ContractSpec
=============================================================================
