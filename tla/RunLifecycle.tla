---------------------------- MODULE RunLifecycle ----------------------------
(***************************************************************************)
(* What the run queue promises about ONE table row at a time: the abstract *)
(* specification of a scenario run.                                        *)
(*                                                                         *)
(* A run is submitted, starts at most once, and reaches a terminal status. *)
(* It never starts again and never goes back to the queue, whatever the    *)
(* workers, the sweeper and the cancel requests do to each other; once its *)
(* row is deleted it stays deleted.  The one thing this specification has  *)
(* to concede is Overwrite: the code replaces one terminal status by       *)
(* another when the two writers raced (see RunQueue).  It concedes no more *)
(* than the code needs: a worker's own verdict is only ever replaced by a  *)
(* cancel, by the sweeper, or by nothing.                                  *)
(***************************************************************************)

CONSTANT Runs      \* the rows of scenario_runs

VARIABLE status    \* what a reader of the table sees for each row

(* models/scenario.py: ck_scenario_runs_status, without the two live ones  *)
Verdicts == {"passed", "failed", "error", "timeout"}
Terminal == Verdicts \cup {"cancelled"}

(* "none": not yet visible to anybody; "gone": deleted or never committed. *)
Visible  == {"pending", "running"} \cup Terminal
Statuses == {"none", "gone"} \cup Visible

Init == status = [r \in Runs |-> "none"]

Move(r, from, to) ==
    /\ status[r] \in from
    /\ status' = [status EXCEPT ![r] = to]

Submit(r) == Move(r, {"none"}, "pending")

\* A run nobody started can only be cancelled; a started one gets any verdict.
CancelQueued(r) == Move(r, {"pending"}, "cancelled")
Settle(r)       == \E v \in Terminal : Move(r, {"running"}, v)

\* The sweeper, or a cancel request, that decided while the run was unfinished.
OverwriteByIntervention(r) ==
    \E v \in {"cancelled", "timeout"} : Move(r, Terminal, v)

\* A worker that decided while the run was unfinished: it replaces an
\* intervention, never another verdict of a worker ("timeout" is both).
OverwriteByWorker(r) ==
    \E v \in Verdicts : Move(r, {"cancelled", "timeout"}, v)

Discard == \E D \in SUBSET Runs :
    status' = [r \in Runs |-> IF r \in D THEN "gone" ELSE status[r]]

\* The sweeper times several runs out, and starts another one, in a single
\* transaction, so one committed step may move several rows.
SweepAndStart(T) ==
    /\ \A r \in T : status[r] \in {"running"} \cup Terminal
    /\ \E C \in SUBSET Runs :
         /\ \A r \in C : status[r] = "pending"
         /\ \A r, q \in C : r = q
         /\ status' = [r \in Runs |-> IF r \in T THEN "timeout"
                                      ELSE IF r \in C THEN "running"
                                      ELSE status[r]]

Next ==
    \/ \E r \in Runs : \/ Submit(r)
                       \/ CancelQueued(r)
                       \/ Settle(r)
                       \/ OverwriteByIntervention(r)
                       \/ OverwriteByWorker(r)
    \/ \E T \in SUBSET Runs : SweepAndStart(T)
    \/ Discard

Spec == Init /\ [][Next]_status

TypeOK == status \in [Runs -> Statuses]
=============================================================================
