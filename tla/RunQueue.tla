------------------------------ MODULE RunQueue ------------------------------
(***************************************************************************)
(* The scenario run queue: the table scenario_runs as the Postgres work    *)
(* queue of services/scenario_run_service.py, the worker loops of          *)
(* services/scenario_worker.py that sweep, claim and execute runs, and the *)
(* request handlers that create, cancel and delete runs while they do.     *)
(*                                                                         *)
(* The database is Postgres at READ COMMITTED: `status` is the committed   *)
(* table, and each worker's uncommitted writes (`swept`, and its claim at  *)
(* pc "commit") are visible to itself only and lock their rows.  Every     *)
(* await between a read and the write based on it is a step boundary here. *)
(*                                                                         *)
(* A transaction that writes ONE row is one action at its UPDATE, commit   *)
(* included: nothing is read in between, and its row lock is only held     *)
(* until that commit.  The sweep-and-claim transaction, which writes       *)
(* several rows and locks a workspace, is spelled out.                     *)
(***************************************************************************)
EXTENDS Naturals, FiniteSets, Sequences

CONSTANTS
    Runs,         \* rows of scenario_runs, numbered by created_at
    Scenarios,
    Workspaces,
    ScenarioOf,   \* [Runs -> Scenarios]        scenario_runs.scenario_id
    WorkspaceOf,  \* [Scenarios -> Workspaces]  scenarios.workspace_id
    Workers,      \* the loops start_worker spawns
    Outcomes,     \* the outcomes execute_run may compute
    Cancellable,  \* bound: the runs some client asks to cancel
    MaxFaults,    \* bound: process restarts, lost connections
    NoRun         \* no run at hand

Verdicts == {"passed", "failed", "error", "timeout"}

ASSUME RunsAssumption     == Runs \subseteq Nat /\ IsFiniteSet(Runs)
ASSUME ScenarioAssumption == ScenarioOf \in [Runs -> Scenarios]
ASSUME WorkspaceAssumption == WorkspaceOf \in [Scenarios -> Workspaces]
ASSUME OutcomesAssumption == Outcomes \subseteq Verdicts
ASSUME CancellableAssumption == Cancellable \subseteq Runs
ASSUME FaultsAssumption   == MaxFaults \in Nat
ASSUME NoRunAssumption    == NoRun \notin Runs

VARIABLES
    status,      \* committed status of each row
    live,        \* scenarios that still exist
    expired,     \* runs older than their scenario's timeout_seconds
    cancelling,  \* runs a cancel request found unfinished, UPDATE not yet sent
    pc,          \* where each worker is
    run,         \* the run each worker has claimed
    todo,        \* stale rows the worker's sweep has still to UPDATE, in order
    swept,       \* rows the worker has timed out and not yet committed
    cand,        \* rows the worker's claim statement has still to try to lock
    faults       \* faults so far

vars == <<status, live, expired, cancelling, pc, run, todo, swept, cand, faults>>

\* TERMINAL_STATUSES
Terminal == {"passed", "failed", "error", "timeout", "cancelled"}

\* "none": no such row yet; "inserting": inserted, not committed;
\* "gone": deleted, or rolled back before its commit.
Statuses == {"none", "inserting", "pending", "running", "gone"} \cup Terminal

Workspace(r) == WorkspaceOf[ScenarioOf[r]]

-----------------------------------------------------------------------------
(***************************************************************************)
(* Row and workspace locks.                                                *)
(***************************************************************************)

\* Worker w has an uncommitted UPDATE of row r.
Holds(w, r) == r \in swept[w] \/ (pc[w] = "commit" /\ run[w] = r)

Unlocked(r)     == \A w \in Workers : ~Holds(w, r)
LockedByOther(w, r) == \E v \in Workers \ {w} : Holds(v, r)

\* FOR UPDATE on workspaces conflicts with the FOR UPDATE of another claim
\* and with the FOR KEY SHARE that an INSERT takes for its foreign key.
WorkspaceLockedByOther(w, ws) ==
    \/ \E v \in Workers \ {w} : pc[v] = "commit" /\ Workspace(run[v]) = ws
    \/ \E r \in Runs : status[r] = "inserting" /\ Workspace(r) = ws

\* The table as worker w sees it: committed rows and its own writes.
Seen(w, r) == IF r \in swept[w] THEN "timeout" ELSE status[r]

-----------------------------------------------------------------------------
Init ==
    /\ status     = [r \in Runs |-> "none"]
    /\ live       = Scenarios
    /\ expired    = {}
    /\ cancelling = {}
    /\ pc         = [w \in Workers |-> "idle"]
    /\ run        = [w \in Workers |-> NoRun]
    /\ todo       = [w \in Workers |-> <<>>]
    /\ swept      = [w \in Workers |-> {}]
    /\ cand       = [w \in Workers |-> {}]
    /\ faults     = 0

-----------------------------------------------------------------------------
(***************************************************************************)
(* Requests: trigger, cancel, delete; retention; the passing of time.      *)
(***************************************************************************)

\* create_run: the INSERT, whose foreign-key check waits for a claim that
\* holds the workspace.  Rows are numbered in the order of created_at; they
\* may commit in any order.
CreateRun(r) ==
    /\ status[r] = "none"
    /\ \A q \in Runs : q < r => status[q] # "none"
    /\ ScenarioOf[r] \in live
    /\ \A w \in Workers : pc[w] = "commit" => Workspace(run[w]) # Workspace(r)
    /\ status' = [status EXCEPT ![r] = "inserting"]
    /\ UNCHANGED <<live, expired, cancelling, pc, run, todo, swept, cand, faults>>

CommitRun(r) ==
    /\ status[r] = "inserting"
    /\ status' = [status EXCEPT ![r] = "pending"]
    /\ UNCHANGED <<live, expired, cancelling, pc, run, todo, swept, cand, faults>>

\* Deviation: the guard takes `running` for a finished run.
Finished_notPending(s) == s \notin {"none", "inserting", "pending", "gone"}

\* finish_run's guard, and cancel_run's, on a status read earlier.
Finished(s) == s \in Terminal

\* cancel_run_endpoint: the SELECT and the two guards; a finished run is a 409.
CancelRead(r) ==
    /\ r \in Cancellable
    /\ status[r] \in {"pending", "running"} \cup Terminal
    /\ ~Finished(status[r])
    /\ r \notin cancelling
    /\ cancelling' = cancelling \cup {r}
    /\ UNCHANGED <<status, live, expired, pc, run, todo, swept, cand, faults>>

\* The UPDATE ... WHERE id = r, which waits for the row's lock, and the commit.
\* Nothing re-reads the status; a row deleted meanwhile makes it a 500.
CancelWrite(r) ==
    /\ r \in cancelling
    /\ Unlocked(r)
    /\ cancelling' = cancelling \ {r}
    /\ status' = IF status[r] = "gone" THEN status
                 ELSE [status EXCEPT ![r] = "cancelled"]
    /\ UNCHANGED <<live, expired, pc, run, todo, swept, cand, faults>>

\* DELETE waits for every row it removes; rows not yet committed are not seen.
Delete(rows) ==
    /\ \A r \in rows : Unlocked(r)
    /\ status' = [r \in Runs |-> IF r \in rows THEN "gone" ELSE status[r]]
    /\ UNCHANGED <<expired, cancelling, pc, run, todo, swept, cand, faults>>

Committed == {r \in Runs : status[r] \notin {"none", "inserting", "gone"}}

\* delete_scenario: ON DELETE CASCADE takes the runs along.  It waits for an
\* INSERT that references the scenario.
DeleteScenario(s) ==
    /\ s \in live
    /\ \A r \in Runs : ScenarioOf[r] = s => status[r] # "inserting"
    /\ live' = live \ {s}
    /\ Delete({r \in Committed : ScenarioOf[r] = s})

\* purge_older_than: every run created before the cutoff, whatever its status.
PurgeOlderThan(k) ==
    /\ \E r \in Committed : r <= k
    /\ Delete({r \in Committed : r <= k})
    /\ UNCHANGED live

\* A running run passes the ceiling of its scenario.
Expire(r) ==
    /\ status[r] = "running"
    /\ r \notin expired
    /\ expired' = expired \cup {r}
    /\ UNCHANGED <<status, live, cancelling, pc, run, todo, swept, cand, faults>>

-----------------------------------------------------------------------------
(***************************************************************************)
(* sweep_timed_out_runs.                                                   *)
(***************************************************************************)

Goto(w, there) == pc' = [pc EXCEPT ![w] = there]

\* Deviation: the sweep selects the queued runs instead of the running ones.
Stale_queued(r) == status[r] = "pending" /\ r \in expired

Stale(r) == status[r] = "running" /\ r \in expired

\* The orders in which a SELECT without ORDER BY may return the rows of S.
Orders(S) == {q \in [1..Cardinality(S) -> S] : \A i, j \in DOMAIN q : q[i] = q[j] => i = j}

SweepRead(w) ==
    /\ pc[w] = "idle"
    /\ Goto(w, "sweep")
    /\ \E order \in Orders({r \in Runs : Stale(r)}) : todo' = [todo EXCEPT ![w] = order]
    /\ UNCHANGED <<status, live, expired, cancelling, run, swept, cand, faults>>

\* finish_run(run, "timeout") on the status the SELECT returned: the UPDATE
\* waits for the row's lock, then times the row out whatever it has become.
SweepWrite(w, r) ==
    /\ pc[w] = "sweep"
    /\ todo[w] # <<>>
    /\ r = Head(todo[w])
    /\ ~LockedByOther(w, r)
    /\ status[r] # "gone"
    /\ swept' = [swept EXCEPT ![w] = @ \cup {r}]
    /\ todo' = [todo EXCEPT ![w] = Tail(@)]
    /\ UNCHANGED <<status, live, expired, cancelling, pc, run, cand, faults>>

\* The iteration ends by an exception that _loop swallows: roll back.
Abort(w) ==
    /\ Goto(w, "idle")
    /\ run'   = [run   EXCEPT ![w] = NoRun]
    /\ todo'  = [todo  EXCEPT ![w] = <<>>]
    /\ swept' = [swept EXCEPT ![w] = {}]
    /\ cand'  = [cand  EXCEPT ![w] = {}]

\* StaleDataError: the row was deleted after the SELECT; the whole
\* iteration, with the timeouts of the other rows, is rolled back.
SweepRowGone(w) ==
    /\ pc[w] = "sweep"
    /\ todo[w] # <<>>
    /\ status[Head(todo[w])] = "gone"
    /\ Abort(w)
    /\ UNCHANGED <<status, live, expired, cancelling, faults>>

\* Two sweeps that lock the same rows in different orders: Postgres aborts
\* one transaction of a waiting cycle.
WaitsFor(v, u) == pc[v] = "sweep" /\ todo[v] # <<>> /\ u # v /\ Holds(u, Head(todo[v]))

SweepDeadlock(w) ==
    /\ \E C \in SUBSET Workers :
         /\ w \in C
         /\ \A v \in C : /\ \E u \in C : WaitsFor(v, u)
                         /\ \E u \in C : WaitsFor(u, v)
    /\ Abort(w)
    /\ UNCHANGED <<status, live, expired, cancelling, faults>>

-----------------------------------------------------------------------------
(***************************************************************************)
(* claim_next_run, mark_running and run_once's commit.                     *)
(***************************************************************************)

\* Deviation: the queue serialises per scenario (SCENARIOS_DESIGN.md, section 8).
WorkspaceFree_perScenario(w, r) ==
    \A q \in Runs : ScenarioOf[q] = ScenarioOf[r] => Seen(w, q) # "running"

\* NOT EXISTS (another run of this workspace that is running)
WorkspaceFree(w, r) ==
    \A q \in Runs : Workspace(q) = Workspace(r) => Seen(w, q) # "running"

\* The statement takes its snapshot: rows that satisfy the WHERE clause.
ClaimSnapshot(w) ==
    /\ pc[w] = "sweep"
    /\ todo[w] = <<>>
    /\ Goto(w, "claim")
    /\ cand' = [cand EXCEPT ![w] = {r \in Runs : Seen(w, r) = "pending" /\ WorkspaceFree(w, r)}]
    /\ UNCHANGED <<status, live, expired, cancelling, run, todo, swept, faults>>

\* ORDER BY created_at: the oldest row not tried yet.
Next1(w, r) == r \in cand[w] /\ \A q \in cand[w] : r <= q

\* Deviation: the locked row is not checked again.
StillPending_unchecked(r) == status[r] # "gone"

\* Postgres re-evaluates status = 'pending' on the row version it has locked;
\* it does not re-evaluate NOT EXISTS, whose rows are not locked.
StillPending(r) == status[r] = "pending"

\* FOR UPDATE SKIP LOCKED of the run's row and of its workspace's.
Lockable(w, r) ==
    /\ ~LockedByOther(w, r)
    /\ ~WorkspaceLockedByOther(w, Workspace(r))
    /\ StillPending(r)

ClaimSkip(w) ==
    /\ pc[w] = "claim"
    /\ \E r \in cand[w] :
         /\ Next1(w, r)
         /\ ~Lockable(w, r)
         /\ cand' = [cand EXCEPT ![w] = @ \ {r}]
    /\ UNCHANGED <<status, live, expired, cancelling, pc, run, todo, swept, faults>>

\* LIMIT 1: the first row that can be locked; mark_running writes it.
ClaimTake(w) ==
    /\ pc[w] = "claim"
    /\ \E r \in cand[w] :
         /\ Next1(w, r)
         /\ Lockable(w, r)
         /\ run' = [run EXCEPT ![w] = r]
    /\ cand' = [cand EXCEPT ![w] = {}]
    /\ Goto(w, "commit")
    /\ UNCHANGED <<status, live, expired, cancelling, todo, swept, faults>>

\* Nothing to claim: run_once returns False and _loop commits the sweep.
ClaimNone(w) ==
    /\ pc[w] = "claim"
    /\ cand[w] = {}
    /\ status' = [r \in Runs |-> Seen(w, r)]
    /\ swept' = [swept EXCEPT ![w] = {}]
    /\ Goto(w, "idle")
    /\ UNCHANGED <<live, expired, cancelling, run, todo, cand, faults>>

\* The commit makes the claim and the sweep visible and releases the locks
\* before anything is executed.  A scenario may have no steps.
ClaimCommit(w) ==
    /\ pc[w] = "commit"
    /\ status' = [r \in Runs |-> IF r = run[w] THEN "running" ELSE Seen(w, r)]
    /\ swept' = [swept EXCEPT ![w] = {}]
    /\ \E there \in {"check", "finish"} : Goto(w, there)
    /\ UNCHANGED <<live, expired, cancelling, run, todo, cand, faults>>

-----------------------------------------------------------------------------
(***************************************************************************)
(* execute_run and run_once's rescue, as far as the table can tell.        *)
(***************************************************************************)

\* Deviation: the worker keeps its run after it has let go of it.
Release_keepsRun(w) == Goto(w, "idle") /\ UNCHANGED run

Release(w) == Goto(w, "idle") /\ run' = [run EXCEPT ![w] = NoRun]

ExecutionOnly == UNCHANGED <<live, expired, cancelling, todo, swept, cand>>

\* Deviation: no refresh, the status is the one of the claim.
Refresh_stale(w, onwards) ==
    /\ \E there \in onwards : Goto(w, there)
    /\ UNCHANGED <<status, run>>

\* db.refresh(run): raises when the row is gone, stops when another session
\* has finished the run, and goes on otherwise.
Refresh(w, onwards) ==
    /\ \/ status[run[w]] = "gone" /\ Goto(w, "rescue") /\ UNCHANGED run
       \/ Finished(status[run[w]]) /\ Release(w)
       \/ /\ status[run[w]] # "gone"
          /\ ~Finished(status[run[w]])
          /\ \E there \in onwards : Goto(w, there)
          /\ UNCHANGED run
    /\ UNCHANGED status

\* The check before the first step; a spent deadline skips every step.
StepCheck(w) ==
    /\ pc[w] = "check"
    /\ Refresh(w, {"step", "finish"})
    /\ ExecutionOnly /\ UNCHANGED faults

\* record_step_result and commit: the insert's foreign key needs the row.
StepRowGone(w) ==
    /\ pc[w] = "step"
    /\ status[run[w]] = "gone"
    /\ Goto(w, "rescue")
    /\ ExecutionOnly /\ UNCHANGED <<status, run, faults>>

\* A step is recorded and the check before the next one passes (which leaves
\* this state as it is), finds the run finished, or the deadline spent.
MiddleStep(w) ==
    /\ pc[w] = "step"
    /\ status[run[w]] # "gone"
    /\ Refresh(w, {"step", "finish"})
    /\ ExecutionOnly /\ UNCHANGED faults

\* The last step, or one that halts the run: no check follows.
LastStep(w) ==
    /\ pc[w] = "step"
    /\ status[run[w]] # "gone"
    /\ Goto(w, "finish")
    /\ ExecutionOnly /\ UNCHANGED <<status, run, faults>>

\* The refresh "immediately before the final write", and finish_run's guard.
FinishRead(w) ==
    /\ pc[w] = "finish"
    /\ Refresh(w, {"write"})
    /\ ExecutionOnly /\ UNCHANGED faults

\* finish_run's UPDATE ... WHERE id = run and _loop's commit.
FinishWrite(w) ==
    /\ pc[w] = "write"
    /\ Unlocked(run[w])
    /\ IF status[run[w]] = "gone"
       THEN Goto(w, "rescue") /\ UNCHANGED <<status, run>>
       ELSE /\ \E o \in Outcomes : status' = [status EXCEPT ![run[w]] = o]
            /\ Release(w)
    /\ ExecutionOnly /\ UNCHANGED faults

\* The rescue re-fetches the row ...
RescueRead(w) ==
    /\ pc[w] = "rescue"
    /\ IF status[run[w]] = "gone" \/ Finished(status[run[w]])
       THEN Release(w)
       ELSE Goto(w, "rewrite") /\ UNCHANGED run
    /\ ExecutionOnly /\ UNCHANGED <<status, faults>>

\* ... and records the failure; its own failure is only logged.
RescueWrite(w) ==
    /\ pc[w] = "rewrite"
    /\ Unlocked(run[w])
    /\ status' = IF status[run[w]] = "gone" THEN status
                 ELSE [status EXCEPT ![run[w]] = "error"]
    /\ Release(w)
    /\ ExecutionOnly /\ UNCHANGED faults

-----------------------------------------------------------------------------
(***************************************************************************)
(* Faults.                                                                 *)
(***************************************************************************)

Fault == faults < MaxFaults /\ faults' = faults + 1

\* execute_run raises (a lost connection, say) and the rescue takes over.
ExecutionFails(w) ==
    /\ pc[w] \in {"check", "step", "finish", "write"}
    /\ Fault
    /\ Goto(w, "rescue")
    /\ ExecutionOnly /\ UNCHANGED <<status, run>>

\* The iteration fails where nothing rescues it: in the sweep or the claim,
\* in the commit of the final status, in the rescue itself.
IterationFails(w) ==
    /\ pc[w] \in {"sweep", "claim", "commit", "write", "rescue", "rewrite"}
    /\ Fault
    /\ Abort(w)
    /\ UNCHANGED <<status, live, expired, cancelling>>

\* The process dies, or stop_worker cancels its tasks: every transaction is
\* rolled back, every request is lost, no rescue runs.
Restart ==
    /\ Fault
    /\ status'     = [r \in Runs |-> IF status[r] = "inserting" THEN "gone" ELSE status[r]]
    /\ cancelling' = {}
    /\ pc'    = [w \in Workers |-> "idle"]
    /\ run'   = [w \in Workers |-> NoRun]
    /\ todo'  = [w \in Workers |-> <<>>]
    /\ swept' = [w \in Workers |-> {}]
    /\ cand'  = [w \in Workers |-> {}]
    /\ UNCHANGED <<live, expired>>

-----------------------------------------------------------------------------
Sweep(w)   == SweepRead(w) \/ (\E r \in Runs : SweepWrite(w, r)) \/ SweepRowGone(w) \/ SweepDeadlock(w)
Claim(w)   == ClaimSnapshot(w) \/ ClaimSkip(w) \/ ClaimTake(w) \/ ClaimNone(w) \/ ClaimCommit(w)
Execute(w) == StepCheck(w) \/ StepRowGone(w) \/ MiddleStep(w) \/ LastStep(w)
                \/ FinishRead(w) \/ FinishWrite(w) \/ RescueRead(w) \/ RescueWrite(w)

Work(w) == Sweep(w) \/ Claim(w) \/ Execute(w)

Requests ==
    \/ \E r \in Runs : CreateRun(r) \/ CommitRun(r) \/ CancelRead(r) \/ CancelWrite(r)
    \/ \E s \in Scenarios : DeleteScenario(s)
    \/ \E k \in Runs : PurgeOlderThan(k)

Next ==
    \/ Requests
    \/ \E r \in Runs : Expire(r)
    \/ \E w \in Workers : Work(w) \/ ExecutionFails(w) \/ IterationFails(w)
    \/ Restart

Spec == Init /\ [][Next]_vars

(***************************************************************************)
(* Each loop keeps being scheduled, and since a step list is finite its    *)
(* run leaves the steps (a step that leads to another step is a stutter    *)
(* here); requests in flight complete; clocks advance.  Postgres grants a  *)
(* row lock in the order of the queue behind it (SweepWrite).              *)
(***************************************************************************)
Fairness ==
    /\ \A w \in Workers :
         /\ WF_vars(Work(w))
         /\ \A r \in Runs : SF_vars(SweepWrite(w, r))
    /\ \A r \in Runs : WF_vars(Expire(r)) /\ WF_vars(CommitRun(r))

FairSpec == Spec /\ Fairness

-----------------------------------------------------------------------------
(***************************************************************************)
(* Properties.                                                             *)
(***************************************************************************)

PcValues == {"idle", "sweep", "claim", "commit", "check", "step", "finish",
             "write", "rescue", "rewrite"}

\* Every variable has its type, and the locals of a worker are those of the
\* place it is at: a run only past the claim, uncommitted rows only before it.
TypeOK ==
    /\ status \in [Runs -> Statuses]
    /\ live \subseteq Scenarios
    /\ expired \subseteq Runs
    /\ cancelling \subseteq Runs
    /\ pc \in [Workers -> PcValues]
    /\ run \in [Workers -> Runs \cup {NoRun}]
    /\ todo \in [Workers -> Seq(Runs)]
    /\ swept \in [Workers -> SUBSET Runs]
    /\ cand \in [Workers -> SUBSET Runs]
    /\ faults \in 0 .. MaxFaults
    /\ \A w \in Workers :
         /\ run[w] = NoRun <=> pc[w] \in {"idle", "sweep", "claim"}
         /\ todo[w] # <<>> => pc[w] = "sweep"
         /\ swept[w] # {} => pc[w] \in {"sweep", "claim", "commit"}
         /\ cand[w] # {} => pc[w] = "claim"

\* Worker w has claimed run r and not let go of it.
Owns(w, r) == pc[w] \notin {"idle", "sweep", "claim"} /\ run[w] = r

\* SKIP LOCKED and the re-check of status = 'pending' keep two workers from
\* ever having the same run, whatever sweeps, cancels, deletes and restarts
\* happen between the snapshot of a claim and its commit (claim_next_run).
SingleExecutor == \A v, w \in Workers, r \in Runs : Owns(v, r) /\ Owns(w, r) => v = w

\* The lock on the joined workspace row: two claims of one workspace are
\* never uncommitted at the same time (claim_next_run, "of=[...]").
ClaimMutex ==
    \A v, w \in Workers :
        /\ pc[v] = "commit"
        /\ pc[w] = "commit"
        /\ Workspace(run[v]) = Workspace(run[w])
        => v = w

\* As long as nothing fails, a run is `running` only while a worker has it:
\* no path through execute_run, the rescue or the sweep drops a run.
NoOrphanWithoutFault ==
    faults = 0 => \A r \in Runs : status[r] = "running" => \E w \in Workers : Owns(w, r)

\* Somebody has read the status of r and is still going to write a status
\* because of what it was.
WorkerWillWrite(w, r) ==
    \/ pc[w] \in {"write", "rewrite"} /\ run[w] = r
    \/ r \in swept[w]
    \/ \E i \in DOMAIN todo[w] : todo[w][i] = r

WriterInFlight(r) == r \in cancelling \/ \E w \in Workers : WorkerWillWrite(w, r)

\* The refresh before the final write (execute_run) narrows the lost update
\* to its last await: once a run is terminal and no writer that read it
\* earlier is in flight, nobody sets out to write it again and its status
\* never changes.
QuiescentVerdictIsFinal ==
    [][\A r \in Runs :
        status[r] \in Terminal /\ ~WriterInFlight(r) =>
            /\ status'[r] \in {status[r], "gone"}
            /\ ~WriterInFlight(r)']_vars

\* A worker's verdict is replaced by a late cancel or a late sweep at most,
\* never by another worker's verdict (finish_run).
VerdictNotFlipped ==
    [][\A r \in Runs : status[r] \in {"passed", "failed", "error"}
                        => status'[r] \in {status[r], "cancelled", "timeout", "gone"}]_vars

\* What a worker or a request may rely on about a row it read before, without
\* reading it again: the row of an uncommitted claim is still pending; a row
\* being executed has been started, and no other worker has given it a verdict;
\* a row selected by a sweep or a cancel never returns to the queue.
StaleReadsAreBounded ==
    /\ \A w \in Workers :
         /\ pc[w] = "commit" => status[run[w]] = "pending"
         /\ pc[w] \in {"check", "step", "finish", "write", "rescue", "rewrite"} =>
                status[run[w]] \in {"running", "cancelled", "timeout", "gone"}
         /\ \A r \in swept[w] : status[r] \in {"running"} \cup Terminal
         /\ \A i \in DOMAIN todo[w] : status[todo[w][i]] \in {"running", "gone"} \cup Terminal
    /\ \A r \in cancelling : status[r] \notin {"none", "inserting"}

\* A row is locked by one transaction at a time.
RowLockIsExclusive ==
    \A v, w \in Workers, r \in Runs : Holds(v, r) /\ Holds(w, r) => v = w

\* The inductive invariant of the proofs.
IInv == TypeOK /\ StaleReadsAreBounded /\ RowLockIsExclusive /\ SingleExecutor /\ ClaimMutex

\* The queue implements the life of a run that RunLifecycle promises: at most
\* one start, no way back into the queue, no resurrection of a deleted row.
Published == [r \in Runs |-> IF status[r] = "inserting" THEN "none" ELSE status[r]]

Lifecycle == INSTANCE RunLifecycle WITH status <- Published

ImplementsLifecycle == Lifecycle!Spec

\* Two runs of one workspace are never `running` at once (claim_next_run:
\* locking the workspace row "closes that").
OneRunningPerWorkspace ==
    \A r, q \in Runs :
        /\ status[r] = "running"
        /\ status[q] = "running"
        /\ Workspace(r) = Workspace(q)
        => r = q

\* Every run that entered the queue leaves it for good, also past crashes: a
\* dead worker's run is timed out and its workspace goes on (sweep_timed_out_runs).
EventuallyFinished ==
    \A r \in Runs : status[r] \in {"pending", "running"} ~> status[r] \in Terminal \cup {"gone"}
=============================================================================
