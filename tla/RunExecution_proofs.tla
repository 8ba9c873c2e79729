------------------------ MODULE RunExecution_proofs ------------------------
(***************************************************************************)
(* Proofs about RunExecution, for plans of any length and any number of    *)
(* failures: the verdict and the report of a run agree, and nothing runs   *)
(* after another session has finished it.                                  *)
(***************************************************************************)
EXTENDS RunExecution, TLAPS

-----------------------------------------------------------------------------
(* The inductive invariant.                                                *)

\* One result per step the loop has left behind; a row's results go with it.
OneResultPerStep ==
    /\ status # "gone" => Len(results) = index - 1
    /\ status = "gone" => results = <<>>

\* The loop is left behind its last step, or by a failure.
LoopIsOver ==
    /\ pc \in {"finish", "write", "commit"} => index = Len(plan) + 1 /\ ~cancelled
    /\ pc = "lost" => faults > 0
    /\ pc = "done" => faults > 0 \/ status = "gone" \/ index = Len(plan) + 1

\* A rescue has something to rescue from.
RescueHasItsCause == pc \in {"rescue", "rewrite"} => faults > 0 \/ status = "gone"

\* A verdict of the run's own is the last thing its worker writes, and the row it
\* is flushed to cannot go before the commit.
VerdictIsLast ==
    /\ status \in {"passed", "failed", "error"} => pc = "done"
    /\ pc = "commit" => status # "gone"

\* A run that has not halted has recorded nothing that halts it.
NothingHasHalted ==
    ~halted => \A i \in DOMAIN results : results[i] # "skipped" /\ ~Halts(results[i], plan[i])

\* After a skip, or a result that halts, there are only skips.
OnlySkipsFollow ==
    \A i, j \in DOMAIN results :
        i < j /\ (results[i] = "skipped" \/ Halts(results[i], plan[i])) => results[j] = "skipped"

\* The outcome at hand agrees with what has been recorded.
OutcomeHasItsCause ==
    status # "gone" =>
        /\ outcome = "passed" => /\ ~Recorded({"failed", "error", "timeout"})
                                 /\ halted => cancelled
        /\ outcome = "failed" => Recorded({"failed", "timeout"}) /\ ~Recorded({"error"})
        /\ outcome = "error"  => Recorded({"error"})

IInv == /\ TypeOK /\ OneResultPerStep /\ LoopIsOver /\ RescueHasItsCause /\ VerdictIsLast
        /\ NothingHasHalted /\ OnlySkipsFollow /\ OutcomeHasItsCause /\ VerdictHasItsCause

-----------------------------------------------------------------------------
(* Recording a result.                                                     *)

\* What is recorded after one more result is what was recorded before, and it.
LEMMA RecordedOneMore ==
    ASSUME NEW Kinds, results \in Seq(Kinds), NEW kind \in Kinds, NEW statuses,
           results' = Append(results, kind)
    PROVE  Recorded(statuses)' <=> Recorded(statuses) \/ kind \in statuses
<1>1. /\ DOMAIN results = 1..Len(results) /\ Len(results) \in Nat
      /\ DOMAIN results' = 1..(Len(results) + 1)
      /\ results'[Len(results) + 1] = kind
      /\ \A i \in 1..Len(results) : results'[i] = results[i]
  OBVIOUS
<1>2. ASSUME Recorded(statuses)' PROVE Recorded(statuses) \/ kind \in statuses
  BY <1>1, <1>2 DEF Recorded
<1>3. ASSUME Recorded(statuses) \/ kind \in statuses PROVE Recorded(statuses)'
  BY <1>1, <1>3 DEF Recorded
<1> QED
  BY <1>2, <1>3

\* Nothing else that a step leaves alone changes what is recorded.
LEMMA RecordedUnchanged ==
    ASSUME NEW statuses, results' = results
    PROVE  Recorded(statuses)' <=> Recorded(statuses)
BY DEF Recorded

-----------------------------------------------------------------------------
(* Type correctness.                                                       *)

LEMMA TypeInit == Init => TypeOK
<1> SUFFICES ASSUME Init PROVE TypeOK
  OBVIOUS
<1>1. PICK n \in 0..MaxSteps : plan \in [1..n -> BOOLEAN]
  BY DEF Init
<1>2. plan \in Seq(BOOLEAN) /\ Len(plan) = n
  BY <1>1, MaxStepsAssumption
<1>3. index \in 1..Len(plan) + 1
  BY <1>2, MaxStepsAssumption DEF Init
<1>4. results \in Seq(StepStatuses \cup {"skipped"})
  BY DEF Init
<1>5. plan \in Seq(BOOLEAN) /\ Len(plan) <= MaxSteps
  BY <1>2, MaxStepsAssumption
<1>6. /\ status = "running" /\ outcome = "passed" /\ pc = "loop" /\ faults = 0
      /\ halted = FALSE /\ cancelled = FALSE /\ spent = FALSE
  BY Zenon DEF Init
<1>7. /\ status \in {"running", "gone"} \cup Terminal /\ outcome \in Outcomes
      /\ faults \in 0..MaxFaults
  BY <1>6, MaxFaultsAssumption DEF Outcomes, Terminal
<1>8. halted \in BOOLEAN /\ cancelled \in BOOLEAN /\ spent \in BOOLEAN
  BY <1>6
<1> QED
  BY <1>3, <1>4, <1>5, <1>6, <1>7, <1>8 DEF TypeOK

LEMMA TypeLoop ==
    ASSUME TypeOK, \/ Check \/ Skip \/ LeaveCancelled \/ EndLoop
                   \/ \E result \in StepStatuses : Step(result)
    PROVE  TypeOK'
<1> USE DEF TypeOK, Outcomes, Terminal, StepStatuses
<1>1. CASE Check
  BY <1>1 DEF Check, InLoop
<1>2. CASE Skip
  BY <1>2 DEF Skip, InLoop, Record
<1>3. CASE LeaveCancelled
  BY <1>3 DEF LeaveCancelled
<1>4. CASE EndLoop
  BY <1>4 DEF EndLoop
<1>5. ASSUME NEW result \in StepStatuses, Step(result) PROVE TypeOK'
  <2>1. index \in 1..Len(plan) /\ plan[index] \in BOOLEAN
    BY <1>5 DEF Step
  <2>2. outcome' \in Outcomes
    BY <1>5 DEF Step, OutcomeAfter
  <2>3. halted' \in BOOLEAN
    BY <1>5, <2>1 DEF Step, Halts
  <2>4. results' \in Seq(StepStatuses \cup {"skipped"}) /\ index' \in 1..Len(plan) + 1
    BY <1>5, <2>1 DEF Step, Record
  <2> QED
    BY <1>5, <2>2, <2>3, <2>4 DEF Step
<1> QED
  BY <1>1, <1>2, <1>3, <1>4, <1>5

LEMMA TypeRest ==
    ASSUME TypeOK, \/ FinishRead \/ FinishWrite \/ Commit \/ RowGone \/ RescueRead \/ RescueWrite
                   \/ Intervene \/ DeleteRun \/ DeadlinePasses
                   \/ ExecutionFails \/ RescueFails \/ CommitFails
    PROVE  TypeOK'
<1> USE MaxFaultsAssumption DEF TypeOK, Outcomes, Terminal, StepStatuses
<1>1. CASE FinishRead
  BY <1>1 DEF FinishRead
<1>2. CASE FinishWrite \/ Commit \/ CommitFails
  BY <1>2 DEF FinishWrite, Commit, CommitFails
<1>3. CASE RowGone
  BY <1>3 DEF RowGone, ToRescue
<1>4. CASE RescueRead
  BY <1>4 DEF RescueRead
<1>5. CASE RescueWrite
  BY <1>5 DEF RescueWrite
<1>6. CASE Intervene
  BY <1>6 DEF Intervene
<1>7. CASE DeleteRun
  BY <1>7 DEF DeleteRun
<1>8. CASE DeadlinePasses
  BY <1>8 DEF DeadlinePasses
<1>9. CASE ExecutionFails
  BY <1>9 DEF ExecutionFails, ToRescue
<1>10. CASE RescueFails
  BY <1>10 DEF RescueFails
<1> QED
  BY <1>1, <1>2, <1>3, <1>4, <1>5, <1>6, <1>7, <1>8, <1>9, <1>10

LEMMA TypeNext == TypeOK /\ [Next]_vars => TypeOK'
<1> SUFFICES ASSUME TypeOK, [Next]_vars PROVE TypeOK'
  OBVIOUS
<1>1. CASE UNCHANGED vars
  BY <1>1 DEF vars, TypeOK
<1> QED
  BY <1>1, TypeLoop, TypeRest DEF Next, Execute

\* For plans of any length, the loop is never past its end inside a step, and a
\* step is never begun by a run that has halted.
THEOREM TypeCorrect == Spec => []TypeOK
BY TypeInit, TypeNext, PTL DEF Spec

-----------------------------------------------------------------------------
(* The steps that record a result.                                         *)

LEMMA InvInit == Init => IInv
<1> SUFFICES ASSUME Init PROVE IInv
  OBVIOUS
<1>1. TypeOK
  BY TypeInit
<1>2. /\ status = "running" /\ results = <<>> /\ index = 1 /\ outcome = "passed" /\ pc = "loop"
  BY Zenon DEF Init
<1>3. halted = FALSE
  BY Zenon DEF Init
<1>4. DOMAIN results = {} /\ Len(results) = 0
  BY <1>2
<1> QED
  BY <1>1, <1>2, <1>3, <1>4
     DEF IInv, OneResultPerStep, LoopIsOver, RescueHasItsCause, VerdictIsLast, NothingHasHalted,
         OnlySkipsFollow, OutcomeHasItsCause, VerdictHasItsCause, Recorded

\* The results so far, and one more, for the step the loop is at.
LEMMA OneMore ==
    ASSUME IInv, NEW kind \in StepStatuses \cup {"skipped"}, Record(kind), UNCHANGED plan,
           status # "gone", UNCHANGED status, index <= Len(plan)
    PROVE  /\ index \in 1..Len(plan) /\ DOMAIN results = 1..index - 1 /\ DOMAIN results' = 1..index
           /\ results'[index] = kind
           /\ \A i \in 1..index - 1 : results'[i] = results[i]
           /\ OneResultPerStep'
           /\ \A statuses : Recorded(statuses)' <=> Recorded(statuses) \/ kind \in statuses
<1>1. /\ results \in Seq(StepStatuses \cup {"skipped"}) /\ index \in 1..Len(plan)
      /\ Len(results) = index - 1 /\ Len(plan) \in Nat
  BY DEF IInv, TypeOK, OneResultPerStep
<1>2. results' = Append(results, kind) /\ index' = index + 1
  BY DEF Record
<1>3. Len(results') = index
  BY <1>1, <1>2
<1>4. OneResultPerStep'
  BY <1>1, <1>2, <1>3 DEF OneResultPerStep
<1>5. \A statuses : Recorded(statuses)' <=> Recorded(statuses) \/ kind \in statuses
  BY <1>1, <1>2, RecordedOneMore
<1>6. /\ DOMAIN results = 1..index - 1 /\ DOMAIN results' = 1..index /\ results'[index] = kind
      /\ \A i \in 1..index - 1 : results'[i] = results[i]
  BY <1>1, <1>2
<1> QED
  BY <1>1, <1>4, <1>5, <1>6

\* Recording goes on in the order of the plan: after a halt, skips only.
LEMMA OrderKept ==
    ASSUME IInv, NEW kind \in StepStatuses \cup {"skipped"}, Record(kind), UNCHANGED plan,
           status # "gone", UNCHANGED status, index <= Len(plan),
           halted => kind = "skipped" /\ halted',
           ~halted => kind # "skipped" /\ halted' = Halts(kind, plan[index])
    PROVE  OnlySkipsFollow' /\ NothingHasHalted'
<1> USE OneMore
<1>1. /\ index \in 1..Len(plan) /\ DOMAIN results = 1..index - 1 /\ DOMAIN results' = 1..index
      /\ results'[index] = kind /\ \A i \in 1..index - 1 : results'[i] = results[i]
  BY OneMore
<1>2. ASSUME NEW i \in 1..index, NEW j \in 1..index, i < j,
             results'[i] = "skipped" \/ Halts(results'[i], plan[i])
      PROVE  results'[j] = "skipped"
  <2>1. i \in 1..index - 1 /\ results'[i] = results[i]
    BY <1>1, <1>2
  <2>2. CASE j = index
    <3>1. halted
      BY <1>1, <1>2, <2>1 DEF IInv, NothingHasHalted
    <3> QED
      BY <1>1, <2>2, <3>1
  <2>3. CASE j # index
    <3>1. j \in 1..index - 1 /\ results'[j] = results[j]
      BY <1>1, <2>3
    <3> QED
      BY <1>1, <1>2, <2>1, <3>1 DEF IInv, OnlySkipsFollow
  <2> QED
    BY <2>2, <2>3
<1>3. OnlySkipsFollow'
  BY <1>1, <1>2 DEF OnlySkipsFollow, Halts
<1>4. ASSUME ~halted', NEW i \in 1..index
      PROVE  results'[i] # "skipped" /\ ~Halts(results'[i], plan[i])
  <2>1. ~halted
    BY <1>4
  <2>2. CASE i = index
    BY <1>1, <1>4, <2>1, <2>2
  <2>3. CASE i # index
    <3>1. i \in 1..index - 1 /\ results'[i] = results[i]
      BY <1>1, <2>3
    <3> QED
      BY <1>1, <2>1, <3>1 DEF IInv, NothingHasHalted
  <2> QED
    BY <2>2, <2>3
<1>5. NothingHasHalted'
  BY <1>1, <1>4 DEF NothingHasHalted, Halts
<1> QED
  BY <1>3, <1>5

LEMMA InvSkip == IInv /\ Skip => IInv'
<1> SUFFICES ASSUME IInv, Skip PROVE IInv'
  OBVIOUS
<1>1. /\ index <= Len(plan) /\ halted /\ halted' /\ status # "gone" /\ pc = "loop" /\ Record("skipped")
      /\ UNCHANGED <<plan, status, outcome, cancelled, pc, faults>>
  BY DEF Skip, InLoop
<1>2. TypeOK'
  BY TypeLoop DEF IInv
<1>3. /\ OneResultPerStep' /\ OnlySkipsFollow' /\ NothingHasHalted'
  BY <1>1, OneMore, OrderKept
<1>4. \A statuses : Recorded(statuses)' <=> Recorded(statuses) \/ "skipped" \in statuses
  BY <1>1, OneMore
<1>5. /\ Recorded({"failed", "error", "timeout"})' <=> Recorded({"failed", "error", "timeout"})
      /\ Recorded({"failed", "timeout"})' <=> Recorded({"failed", "timeout"})
      /\ Recorded({"error"})' <=> Recorded({"error"})
  BY <1>4
<1>6. OutcomeHasItsCause'
  BY <1>1, <1>5 DEF IInv, OutcomeHasItsCause
<1>7. VerdictHasItsCause' /\ LoopIsOver' /\ RescueHasItsCause' /\ VerdictIsLast'
  BY <1>1 DEF IInv, VerdictHasItsCause, LoopIsOver, RescueHasItsCause, VerdictIsLast
<1> QED
  BY <1>2, <1>3, <1>6, <1>7 DEF IInv

LEMMA InvStep == ASSUME NEW result \in StepStatuses, IInv, Step(result) PROVE IInv'
<1>1. /\ index <= Len(plan) /\ ~halted /\ status # "gone" /\ pc = "step" /\ Record(result)
      /\ outcome' = OutcomeAfter(outcome, result) /\ halted' = Halts(result, plan[index])
      /\ pc' = "loop" /\ UNCHANGED <<plan, status, cancelled, faults>>
  BY DEF Step, IInv, TypeOK
<1>2. TypeOK'
  BY TypeLoop DEF IInv
<1>3. OneResultPerStep' /\ OnlySkipsFollow' /\ NothingHasHalted'
  BY <1>1, OneMore, OrderKept DEF StepStatuses
<1>4. \A statuses : Recorded(statuses)' <=> Recorded(statuses) \/ result \in statuses
  BY <1>1, OneMore
<1>5. ~Recorded({"error"})
  BY <1>1 DEF IInv, NothingHasHalted, Recorded, Halts
<1>6. /\ Recorded({"failed", "error", "timeout"})' <=>
             Recorded({"failed", "error", "timeout"}) \/ result \in {"failed", "error", "timeout"}
      /\ Recorded({"failed", "timeout"})' <=>
             Recorded({"failed", "timeout"}) \/ result \in {"failed", "timeout"}
      /\ Recorded({"error"})' <=> Recorded({"error"}) \/ result = "error"
  BY <1>4
<1>7. outcome # "error"
  BY <1>1, <1>5 DEF IInv, OutcomeHasItsCause
<1>8. OutcomeHasItsCause'
  <2>1. CASE result = "passed"
    BY <1>1, <1>6, <2>1 DEF IInv, OutcomeHasItsCause, OutcomeAfter, Halts
  <2>2. CASE result = "failed"
    BY <1>1, <1>5, <1>6, <2>2 DEF OutcomeHasItsCause, OutcomeAfter
  <2>3. CASE result = "error"
    BY <1>1, <1>6, <2>3 DEF OutcomeHasItsCause, OutcomeAfter
  <2>4. CASE result = "timeout"
    BY <1>1, <1>5, <1>6, <1>7, <2>4 DEF OutcomeHasItsCause, OutcomeAfter
  <2> QED
    BY <2>1, <2>2, <2>3, <2>4 DEF StepStatuses
<1>9. VerdictHasItsCause' /\ LoopIsOver' /\ RescueHasItsCause' /\ VerdictIsLast'
  BY <1>1 DEF IInv, VerdictHasItsCause, LoopIsOver, RescueHasItsCause, VerdictIsLast
<1> QED
  BY <1>2, <1>3, <1>8, <1>9 DEF IInv

-----------------------------------------------------------------------------
(* The steps that leave the report alone.                                  *)

\* What is said of the report alone.
LEMMA ReportUnchanged ==
    ASSUME IInv, UNCHANGED <<plan, results, index>>, status' = "gone" <=> status = "gone",
           halted => halted'
    PROVE  OneResultPerStep' /\ NothingHasHalted' /\ OnlySkipsFollow'
BY DEF IInv, OneResultPerStep, NothingHasHalted, OnlySkipsFollow, Halts

\* The loop: begin a step, halt, or leave.
LEMMA InvLoop ==
    ASSUME IInv, Check \/ LeaveCancelled \/ EndLoop
    PROVE  IInv'
<1> USE RecordedUnchanged
<1>1. TypeOK'
  BY TypeLoop DEF IInv
<1>2. /\ UNCHANGED <<plan, results, index, status, faults>> /\ pc = "loop"
      /\ pc' \in {"loop", "step", "finish", "done"} /\ (halted => halted')
  BY DEF Check, LeaveCancelled, EndLoop, InLoop, LoopEnded
<1>3. OneResultPerStep' /\ NothingHasHalted' /\ OnlySkipsFollow'
  BY <1>2, ReportUnchanged
<1>4. RescueHasItsCause' /\ VerdictIsLast' /\ VerdictHasItsCause'
  BY <1>2 DEF IInv, RescueHasItsCause, VerdictIsLast, VerdictHasItsCause
<1>5. LoopIsOver'
  BY <1>2 DEF IInv, TypeOK, LoopIsOver, Check, LeaveCancelled, EndLoop, LoopEnded
<1>6. OutcomeHasItsCause'
  <2>1. CASE Check
    BY <1>2, <2>1 DEF IInv, OutcomeHasItsCause, Check
  <2>2. CASE LeaveCancelled
    BY <1>2, <2>2 DEF IInv, OutcomeHasItsCause, LeaveCancelled
  <2>3. CASE EndLoop
    BY <1>2, <2>3 DEF IInv, OutcomeHasItsCause, EndLoop
  <2> QED
    BY <2>1, <2>2, <2>3
<1> QED
  BY <1>1, <1>3, <1>4, <1>5, <1>6 DEF IInv

\* The last commit: a verdict, on a complete report.
LEMMA InvCommit == IInv /\ Commit => IInv'
<1> SUFFICES ASSUME IInv, Commit PROVE IInv'
  OBVIOUS
<1> USE RecordedUnchanged
<1>1. /\ pc = "commit" /\ status # "gone" /\ status' = outcome /\ pc' = "done"
      /\ UNCHANGED <<plan, results, index, outcome, halted, cancelled, faults>>
  BY DEF Commit, IInv, VerdictIsLast
<1>2. TypeOK'
  BY TypeRest DEF IInv
<1>3. status' # "gone"
  BY <1>1 DEF IInv, TypeOK, Outcomes
<1>4. OneResultPerStep' /\ NothingHasHalted' /\ OnlySkipsFollow'
  BY <1>1, <1>3, ReportUnchanged
<1>5. index = Len(plan) + 1 /\ ~cancelled /\ Len(results) = Len(plan)
  BY <1>1 DEF IInv, TypeOK, LoopIsOver, OneResultPerStep
<1>6. LoopIsOver' /\ RescueHasItsCause' /\ VerdictIsLast'
  BY <1>1, <1>5 DEF LoopIsOver, RescueHasItsCause, VerdictIsLast
<1>7. OutcomeHasItsCause'
  BY <1>1 DEF IInv, OutcomeHasItsCause
<1>8. ASSUME outcome = "passed" PROVE ~Recorded({"failed", "error", "timeout", "skipped"})
  <2>1. ~Recorded({"failed", "error", "timeout"}) /\ ~halted
    BY <1>1, <1>5, <1>8 DEF IInv, OutcomeHasItsCause
  <2>2. \A i \in DOMAIN results : results[i] # "skipped"
    BY <2>1 DEF IInv, NothingHasHalted
  <2> QED
    BY <2>1, <2>2 DEF Recorded
<1>9. VerdictHasItsCause'
  BY <1>1, <1>5, <1>8 DEF IInv, OutcomeHasItsCause, VerdictHasItsCause
<1> QED
  BY <1>2, <1>4, <1>6, <1>7, <1>9 DEF IInv

\* The rest of the worker's steps, and the failures.
LEMMA InvRest ==
    ASSUME IInv, \/ FinishRead \/ FinishWrite \/ RowGone \/ RescueRead \/ RescueWrite
                 \/ ExecutionFails \/ RescueFails \/ CommitFails
    PROVE  IInv'
<1> USE RecordedUnchanged, MaxFaultsAssumption
<1>1. TypeOK'
  BY TypeRest DEF IInv
<1>2. /\ UNCHANGED <<plan, results, index, outcome, halted, cancelled>>
      /\ faults' \in Nat /\ faults \in Nat /\ faults' >= faults
      /\ pc' \in {"write", "commit", "done", "rescue", "rewrite", "lost"} /\ pc # "done"
      /\ pc' = "commit" => pc = "write" /\ status # "gone"
      /\ status' = status \/ (status # "gone" /\ status' = "error" /\ faults > 0 /\ pc' = "done")
  BY DEF IInv, TypeOK, RescueHasItsCause, FinishRead, FinishWrite, RowGone, RescueRead,
         RescueWrite, ExecutionFails, RescueFails, CommitFails, ToRescue, InLoop
<1>3. OneResultPerStep' /\ NothingHasHalted' /\ OnlySkipsFollow'
  BY <1>2, ReportUnchanged
<1>4. RescueHasItsCause'
  BY <1>2 DEF IInv, TypeOK, RescueHasItsCause, FinishRead, FinishWrite, RowGone, RescueRead,
              RescueWrite, ExecutionFails, RescueFails, CommitFails, ToRescue
<1>5. VerdictIsLast'
  BY <1>2 DEF IInv, VerdictIsLast
<1>6. LoopIsOver'
  BY <1>2 DEF IInv, TypeOK, LoopIsOver, RescueHasItsCause, FinishRead, FinishWrite, RowGone,
              RescueRead, RescueWrite, ExecutionFails, RescueFails, CommitFails, ToRescue
<1>7. OutcomeHasItsCause'
  BY <1>2 DEF IInv, OutcomeHasItsCause
<1>8. VerdictHasItsCause'
  BY <1>2 DEF IInv, VerdictIsLast, VerdictHasItsCause
<1> QED
  BY <1>1, <1>3, <1>4, <1>5, <1>6, <1>7, <1>8 DEF IInv

-----------------------------------------------------------------------------
(* The other sessions, and the clock.                                      *)

LEMMA InvOthers ==
    ASSUME IInv, Intervene \/ DeadlinePasses
    PROVE  IInv'
<1> USE RecordedUnchanged
<1>1. TypeOK'
  BY TypeRest DEF IInv
<1>2. /\ UNCHANGED <<plan, results, index, outcome, halted, cancelled, pc, faults>>
      /\ status' = status \/ (status = "running" /\ status' \in {"cancelled", "timeout"})
  BY DEF Intervene, Unlocked, DeadlinePasses
<1>3. OneResultPerStep' /\ NothingHasHalted' /\ OnlySkipsFollow'
  BY <1>2, ReportUnchanged
<1>4. LoopIsOver' /\ RescueHasItsCause' /\ VerdictIsLast'
  BY <1>2 DEF IInv, LoopIsOver, RescueHasItsCause, VerdictIsLast
<1>5. OutcomeHasItsCause'
  BY <1>2 DEF IInv, OutcomeHasItsCause
<1>6. VerdictHasItsCause'
  BY <1>2 DEF IInv, VerdictHasItsCause
<1> QED
  BY <1>1, <1>3, <1>4, <1>5, <1>6 DEF IInv

LEMMA InvDelete == IInv /\ DeleteRun => IInv'
<1> SUFFICES ASSUME IInv, DeleteRun PROVE IInv'
  OBVIOUS
<1>1. TypeOK'
  BY TypeRest DEF IInv
<1>2. /\ status' = "gone" /\ results' = <<>> /\ DOMAIN results' = {}
      /\ UNCHANGED <<plan, index, outcome, halted, cancelled, pc, faults>> /\ pc # "commit"
  BY DEF DeleteRun, Unlocked
<1>3. OneResultPerStep' /\ NothingHasHalted' /\ OnlySkipsFollow'
  BY <1>2 DEF OneResultPerStep, NothingHasHalted, OnlySkipsFollow
<1>4. OutcomeHasItsCause' /\ VerdictHasItsCause' /\ VerdictIsLast' /\ RescueHasItsCause'
  BY <1>2 DEF OutcomeHasItsCause, VerdictHasItsCause, VerdictIsLast, RescueHasItsCause
<1>5. LoopIsOver'
  BY <1>2 DEF IInv, LoopIsOver
<1> QED
  BY <1>1, <1>3, <1>4, <1>5 DEF IInv

LEMMA InvNext == IInv /\ [Next]_vars => IInv'
<1> SUFFICES ASSUME IInv, [Next]_vars PROVE IInv'
  OBVIOUS
<1>1. CASE UNCHANGED vars
  BY <1>1 DEF vars, IInv, TypeOK, OneResultPerStep, LoopIsOver, RescueHasItsCause, VerdictIsLast,
              NothingHasHalted, OnlySkipsFollow, OutcomeHasItsCause, VerdictHasItsCause, Recorded, Halts
<1> QED
  BY <1>1, InvSkip, InvStep, InvLoop, InvCommit, InvRest, InvOthers, InvDelete DEF Next, Execute

LEMMA Inductive == Spec => []IInv
BY InvInit, InvNext, PTL DEF Spec

-----------------------------------------------------------------------------
(* What a reader of the run can rely on.                                   *)

\* For plans of any length, a verdict agrees with the report: a green run passed
\* in every step, and a red one has the result that made it red.
THEOREM VerdictsAreEarned == Spec => []VerdictHasItsCause
<1>1. IInv => VerdictHasItsCause
  BY DEF IInv
<1> QED
  BY <1>1, Inductive, PTL

\* An execution that ended without an engine failure has reported every step of
\* its plan, and no step runs after a halt.
THEOREM ReportsAreComplete == Spec => []ReportIsComplete
<1>1. IInv => ReportIsComplete
  BY DEF IInv, TypeOK, LoopIsOver, OneResultPerStep, OnlySkipsFollow, ReportIsComplete
<1> QED
  BY <1>1, Inductive, PTL

\* Once another session has finished the run, no step begins, and what is still
\* recorded are skips.
THEOREM InterventionsStopTheRun == Spec => NoStepAfterIntervention
<1>1. ASSUME IInv, [Next]_vars, status \in Terminal, pc # "step"
      PROVE  pc' # "step" /\ results' \in {results, <<>>, Append(results, "skipped")}
  BY <1>1 DEF Next, vars, Execute, Check, Skip, Step, LeaveCancelled, EndLoop, FinishRead, FinishWrite, Commit,
              RowGone, ToRescue, RescueRead, RescueWrite, RescueFails, ExecutionFails, CommitFails, Intervene,
              DeleteRun, DeadlinePasses, Record
<1>2. IInv /\ [Next]_vars =>
          [(status \in Terminal /\ pc # "step") =>
              (pc' # "step" /\ results' \in {results, <<>>, Append(results, "skipped")})]_vars
  BY <1>1
<1> QED
  BY <1>2, Inductive, PTL DEF Spec, NoStepAfterIntervention
=============================================================================
