---------------------------- MODULE RunExecution ----------------------------
(***************************************************************************)
(* How one claimed run turns its step list into step results and a final   *)
(* status: execute_run, the rescue of run_once and the commit of _loop     *)
(* (scenario_worker.py), with the other sessions that cancel, sweep or     *)
(* delete the run meanwhile.                                               *)
(*                                                                         *)
(* A step is what execute_run looks at: whether it has stop_on_failure,    *)
(* and the status execute_step returns for it.  The clock is the one bit   *)
(* execute_run reads of it, whether the deadline has passed.               *)
(***************************************************************************)
EXTENDS Naturals, Sequences

CONSTANTS
    MaxSteps,   \* bound: steps of the scenario
    MaxFaults   \* bound: failures of the execution or of its rescue

ASSUME MaxStepsAssumption  == MaxSteps \in Nat
ASSUME MaxFaultsAssumption == MaxFaults \in Nat

VARIABLES
    plan,       \* the steps: plan[i] = step i has stop_on_failure
    status,     \* committed status of the run
    results,    \* committed step results, in step_index order
    index,      \* the step the loop is at
    outcome,    \* execute_run's local of that name
    halted,     \* halted_at is not None
    cancelled,  \* execute_run's local of that name
    spent,      \* the deadline has passed
    pc,
    faults

vars == <<plan, status, results, index, outcome, halted, cancelled, spent, pc, faults>>

Outcomes == {"passed", "failed", "error", "timeout"}
Terminal == Outcomes \cup {"cancelled"}

\* What execute_step returns; "skipped" is what execute_run records instead.
StepStatuses == {"passed", "failed", "error", "timeout"}

Init ==
    /\ plan \in UNION {[1..n -> BOOLEAN] : n \in 0..MaxSteps}
    /\ status    = "running"
    /\ results   = <<>>
    /\ index     = 1
    /\ outcome   = "passed"
    /\ halted    = FALSE
    /\ cancelled = FALSE
    /\ spent     = FALSE
    /\ pc        = "loop"
    /\ faults    = 0

-----------------------------------------------------------------------------
(* Other sessions, and the clock.  Each is a committed transaction; what    *)
(* their own stale reads can do is the subject of RunQueue.                 *)

\* Another session's UPDATE or DELETE waits for the commit of a flushed verdict.
Unlocked == pc # "commit"

Intervene ==
    /\ status = "running" /\ Unlocked
    /\ status' \in {"cancelled", "timeout"}
    /\ UNCHANGED <<plan, results, index, outcome, halted, cancelled, spent, pc, faults>>

\* The row's step results go with it, and every later use of the row fails.
DeleteRun ==
    /\ status # "gone" /\ Unlocked
    /\ status' = "gone"
    /\ results' = <<>>
    /\ UNCHANGED <<plan, index, outcome, halted, cancelled, spent, pc, faults>>

DeadlinePasses ==
    /\ ~spent
    /\ spent' = TRUE
    /\ UNCHANGED <<plan, status, results, index, outcome, halted, cancelled, pc, faults>>

-----------------------------------------------------------------------------
(* execute_run.                                                             *)

\* Deviation: the loop runs one step too far.
InLoop_offByOne == pc = "loop" /\ index <= Len(plan) + 1

InLoop == pc = "loop" /\ index <= Len(plan)

\* Deviation: a halt breaks out of the loop instead of skipping.
LoopEnded_break == pc = "loop" /\ (halted \/ index > Len(plan))

LoopEnded == pc = "loop" /\ index > Len(plan)

\* record_step_result and commit.
Record(result) ==
    /\ results' = Append(results, result)
    /\ index' = index + 1

\* Deviation: only the deadline is checked between steps.
Check_noRefresh ==
    /\ InLoop /\ ~halted /\ status # "gone"
    /\ halted' = spent
    /\ outcome' = IF spent THEN "timeout" ELSE outcome
    /\ pc' = IF spent THEN "loop" ELSE "step"
    /\ UNCHANGED <<plan, status, results, index, cancelled, spent, faults>>

\* db.refresh(run), then: go on with the step, or halt because another session
\* has finished the run, or because the deadline has passed.
Check ==
    /\ InLoop /\ ~halted /\ status # "gone"
    /\ cancelled' = (status \in Terminal)
    /\ halted' = (status \in Terminal \/ spent)
    /\ outcome' = IF status \notin Terminal /\ spent THEN "timeout" ELSE outcome
    /\ pc' = IF status \in Terminal \/ spent THEN "loop" ELSE "step"
    /\ UNCHANGED <<plan, status, results, index, spent, faults>>

\* What is left after the run halted is recorded as skipped.
Skip ==
    /\ InLoop /\ halted /\ status # "gone"
    /\ Record("skipped")
    /\ UNCHANGED <<plan, status, outcome, halted, cancelled, spent, pc, faults>>

\* Deviation: a wait that timed out is recorded and otherwise ignored.
OutcomeAfter_ignoresTimeout(before, result) ==
    IF result \in {"error", "failed"} THEN result ELSE before

\* How a step's result changes the outcome, and whether it halts the run.
OutcomeAfter(before, result) ==
    CASE result = "error"   -> "error"
      [] result = "failed"  -> "failed"
      [] result = "timeout" ->
            IF spent THEN IF before = "passed" THEN "timeout" ELSE before
                     ELSE IF before # "error" THEN "failed" ELSE before
      [] OTHER              -> before

\* Deviation: an engine error does not halt the run.
Halts_notOnError(result, stop_on_failure) ==
    result = "timeout" \/ (result = "failed" /\ stop_on_failure)

Halts(result, stop_on_failure) ==
    result \in {"error", "timeout"} \/ (result = "failed" /\ stop_on_failure)

\* Deviation: stop_on_failure is ignored.
Step_neverStops(result) ==
    /\ pc = "step" /\ status # "gone"
    /\ Record(result)
    /\ outcome' = OutcomeAfter(outcome, result)
    /\ halted' = Halts(result, FALSE)
    /\ pc' = "loop"
    /\ UNCHANGED <<plan, status, cancelled, spent, faults>>

Step(result) ==
    /\ pc = "step" /\ status # "gone"
    /\ Record(result)
    /\ outcome' = OutcomeAfter(outcome, result)
    /\ halted' = Halts(result, plan[index])
    /\ pc' = "loop"
    /\ UNCHANGED <<plan, status, cancelled, spent, faults>>

\* After the loop: a run found finished is left as it is.
LeaveCancelled ==
    /\ LoopEnded /\ cancelled
    /\ pc' = "done"
    /\ UNCHANGED <<plan, status, results, index, outcome, halted, cancelled, spent, faults>>

\* Only a "passed" outcome is downgraded by the clock.
EndLoop ==
    /\ LoopEnded /\ ~cancelled
    /\ outcome' = IF outcome = "passed" /\ spent THEN "timeout" ELSE outcome
    /\ pc' = "finish"
    /\ UNCHANGED <<plan, status, results, index, halted, cancelled, spent, faults>>

\* The last refresh, and finish_run's guard.
FinishRead ==
    /\ pc = "finish" /\ status # "gone"
    /\ pc' = IF status \in Terminal THEN "done" ELSE "write"
    /\ UNCHANGED <<plan, status, results, index, outcome, halted, cancelled, spent, faults>>

\* finish_run only flushes: the UPDATE locks the row and nobody sees it yet.
FinishWrite ==
    /\ pc = "write" /\ status # "gone"
    /\ pc' = "commit"
    /\ UNCHANGED <<plan, status, results, index, outcome, halted, cancelled, spent, faults>>

\* run_once has returned, and _loop commits.
Commit ==
    /\ pc = "commit"
    /\ status' = outcome
    /\ pc' = "done"
    /\ UNCHANGED <<plan, results, index, outcome, halted, cancelled, spent, faults>>

\* That is past the rescue: the verdict is rolled back, _loop logs it and goes on.
CommitFails ==
    /\ pc = "commit"
    /\ faults < MaxFaults
    /\ faults' = faults + 1
    /\ pc' = "lost"
    /\ UNCHANGED <<plan, status, results, index, outcome, halted, cancelled, spent>>

-----------------------------------------------------------------------------
(* run_once's rescue.                                                       *)

ToRescue ==
    /\ pc' = "rescue"
    /\ UNCHANGED <<plan, status, results, index, outcome, halted, cancelled, spent>>

\* A refresh, an insert or an update for a row that was deleted raises.
RowGone ==
    /\ status = "gone"
    /\ InLoop \/ pc \in {"step", "finish", "write"}
    /\ ToRescue
    /\ UNCHANGED faults

\* So does a lost connection, anywhere in execute_run.
ExecutionFails ==
    /\ pc \in {"loop", "step", "finish", "write"}
    /\ faults < MaxFaults
    /\ faults' = faults + 1
    /\ ToRescue

\* Deviation: the rescue gives up without recording the failure.
RescueRead_givesUp ==
    /\ pc = "rescue"
    /\ pc' = "done"
    /\ UNCHANGED <<plan, status, results, index, outcome, halted, cancelled, spent, faults>>

\* The re-fetched row decides whether there is a failure left to record.
RescueRead ==
    /\ pc = "rescue"
    /\ pc' = IF status = "gone" \/ status \in Terminal THEN "done" ELSE "rewrite"
    /\ UNCHANGED <<plan, status, results, index, outcome, halted, cancelled, spent, faults>>

RescueWrite ==
    /\ pc = "rewrite"
    /\ status' = IF status = "gone" THEN status ELSE "error"
    /\ pc' = "done"
    /\ UNCHANGED <<plan, results, index, outcome, halted, cancelled, spent, faults>>

\* A rescue that fails itself leaves the row as it is.
RescueFails ==
    /\ pc \in {"rescue", "rewrite"}
    /\ faults < MaxFaults
    /\ faults' = faults + 1
    /\ pc' = "done"
    /\ UNCHANGED <<plan, status, results, index, outcome, halted, cancelled, spent>>

-----------------------------------------------------------------------------
Execute ==
    \/ Check \/ Skip \/ (\E result \in StepStatuses : Step(result))
    \/ LeaveCancelled \/ EndLoop \/ FinishRead \/ FinishWrite \/ Commit
    \/ RowGone \/ RescueRead \/ RescueWrite

Next ==
    \/ Execute
    \/ Intervene \/ DeleteRun \/ DeadlinePasses
    \/ ExecutionFails \/ RescueFails \/ CommitFails

Spec == Init /\ [][Next]_vars

\* The worker's coroutine keeps being scheduled and a step returns: every
\* executor clamps its wait to the remaining budget.
FairSpec == Spec /\ WF_vars(Execute)

-----------------------------------------------------------------------------
(***************************************************************************)
(* Properties.                                                             *)
(***************************************************************************)

\* Every variable has its type.
TypeOK ==
    /\ plan \in Seq(BOOLEAN) /\ Len(plan) <= MaxSteps
    /\ status \in {"running", "gone"} \cup Terminal
    /\ results \in Seq(StepStatuses \cup {"skipped"})
    /\ index \in 1 .. Len(plan) + 1
    /\ pc = "step" => index <= Len(plan) /\ ~halted
    /\ outcome \in Outcomes
    /\ halted \in BOOLEAN
    /\ cancelled \in BOOLEAN
    /\ spent \in BOOLEAN
    /\ pc \in {"loop", "step", "finish", "write", "commit", "rescue", "rewrite", "done", "lost"}
    /\ faults \in 0 .. MaxFaults

Recorded(statuses) == \E i \in DOMAIN results : results[i] \in statuses

\* A verdict agrees with the report.  A green run is green: each of its steps has
\* a result, and none failed, errored, timed out or was skipped.  A red run shows
\* why: `failed` has a step that failed or whose wait timed out, and no step that
\* errored; `error` has one, or the engine failed (execute_run, run_once).
VerdictHasItsCause ==
    /\ status = "passed" => /\ Len(results) = Len(plan)
                            /\ ~Recorded({"failed", "error", "timeout", "skipped"})
    /\ status = "failed" => Recorded({"failed", "timeout"}) /\ ~Recorded({"error"})
    /\ status = "error"  => Recorded({"error"}) \/ faults > 0

\* An execution that ended without an engine failure reports all its steps, also
\* those it skipped after a halt or a cancel ("one report shows every problem"); and
\* nothing runs after a halt: the results behind an error, a timeout, a skip or a
\* failure with stop_on_failure are all skips.
ReportIsComplete ==
    /\ pc = "done" /\ faults = 0 /\ status # "gone" => Len(results) = Len(plan)
    /\ \A i, j \in DOMAIN results :
           i < j /\ (results[i] = "skipped" \/ Halts(results[i], plan[i]))
               => results[j] = "skipped"

\* Once another session has finished the run, at most the step in flight is
\* still executed (the refresh before each step, execute_run): no other step
\* begins, and what is recorded from then on are skips.
NoStepAfterIntervention ==
    [][(status \in Terminal /\ pc # "step") =>
         (pc' # "step" /\ results' \in {results, << >>, Append(results, "skipped")})]_vars

\* An execution comes to an end, whatever happens to its row, and leaves no run
\* behind as `running` for the sweep to collect, but when the rescue itself failed
\* after the engine had, or the commit of the verdict did, which nothing rescues.
ExecutionEnds ==
    <>(pc \in {"done", "lost"} /\ (status = "running" => pc = "lost" \/ faults = 2))
=============================================================================
