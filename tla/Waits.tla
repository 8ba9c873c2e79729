-------------------------------- MODULE Waits --------------------------------
(***************************************************************************)
(* The waits of the runs of one workspace: services/scenario_waits.py,     *)
(* under the step loop of services/scenario_worker.py.                     *)
(*                                                                         *)
(* A wait step polls the inbox (or its capture endpoint) for the oldest    *)
(* row stamped after the step began.  A row is stamped when the            *)
(* transaction that stores it begins and seen when that commits, and       *)
(* nothing on it says which run provoked it.  The claim is in its two      *)
(* steps, the statement's snapshot and the locked row, so that runs may    *)
(* overlap here as they may in the code; RunQueue models it in full.       *)
(***************************************************************************)
EXTENDS Integers, FiniteSets

CONSTANTS Runs, Messages,
          Wanted,        \* Wanted[r]: messages that satisfy a wait of r
          Steps,         \* wait steps of a run
          Declared,      \* timeout_seconds of a wait
          RunTimeout,    \* timeout_seconds of the scenario
          PollInterval,  \* POLL_INTERVAL_SECONDS
          None,
          MaxTime,       \* bound: the last tick
          MaxCancelled   \* bound: runs cancelled or swept while they execute

ASSUME WantedIsFunction == Wanted \in [Runs -> SUBSET Messages]
ASSUME NoneIsNoMessage  == None \notin Messages \cup Runs
ASSUME TimesAreNumbers  == /\ Declared \in Nat /\ RunTimeout \in Nat
                           /\ PollInterval \in Nat /\ MaxTime \in Nat
ASSUME BoundsAreNumbers == Steps \in Nat /\ MaxCancelled \in Nat

VARIABLES now,
          status,    \* of a run: queued, running or over
          deadline,  \* of a run: deadline
          pc,        \* where the worker of a run is
          left,      \* wait steps it has not begun
          since, budget,  \* of its wait: started, effective_timeout
          wake,      \* when its sleep ends
          found,     \* what its last fetch returned
          slow,      \* history: time passed during that fetch
          stamp,     \* of a message: received_at; 0 before its transaction
          arrived,   \* history: when that transaction committed; 0 before
          matched,   \* history: the messages that satisfied waits of a run
          cancelled, \* history: the runs cancelled or swept while they executed
          unstarted  \* history: the runs still queued when the claim of a run looked

run   == <<status, deadline>>
wait  == <<since, budget, wake, found, slow>>
mail  == <<stamp, arrived>>
hist  == <<cancelled, unstarted>>
vars  == <<now, run, pc, left, wait, mail, matched, hist>>

Places == {"idle", "claiming", "between", "fetch", "fetched", "asleep", "expired", "done"}
Lesser(a, b) == IF a <= b THEN a ELSE b

Init ==
    /\ now = 1
    /\ status = [r \in Runs |-> "queued"] /\ deadline = [r \in Runs |-> 0]
    /\ pc = [r \in Runs |-> "idle"] /\ left = [r \in Runs |-> Steps]
    /\ since = [r \in Runs |-> 0] /\ budget = [r \in Runs |-> 0]
    /\ wake = [r \in Runs |-> 0] /\ found = [r \in Runs |-> None]
    /\ slow = [r \in Runs |-> FALSE]
    /\ stamp = [m \in Messages |-> 0] /\ arrived = [m \in Messages |-> 0]
    /\ matched = [r \in Runs |-> {}]
    /\ cancelled = {} /\ unstarted = [r \in Runs |-> {}]

Goto(r, place) == pc' = [pc EXCEPT ![r] = place]

\* Deviation: NOT EXISTS is dropped.
ClaimLook_anyRun(r) ==
    /\ pc[r] = "idle" /\ status[r] = "queued"
    /\ unstarted' = [unstarted EXCEPT ![r] = {s \in Runs : status[s] = "queued"}]
    /\ Goto(r, "claiming")
    /\ UNCHANGED <<now, run, left, wait, mail, matched, cancelled>>

\* claim_next_run, the snapshot of its statement: NOT EXISTS is judged on it alone.
ClaimLook(r) ==
    /\ pc[r] = "idle" /\ status[r] = "queued"
    /\ \A s \in Runs : status[s] # "running"
    /\ unstarted' = [unstarted EXCEPT ![r] = {s \in Runs : status[s] = "queued"}]
    /\ Goto(r, "claiming")
    /\ UNCHANGED <<now, run, left, wait, mail, matched, cancelled>>

\* The run's row and the workspace's are locked, and the row is pending still:
\* mark_running and its commit.
ClaimTake(r) ==
    /\ pc[r] = "claiming" /\ status[r] = "queued"
    /\ status' = [status EXCEPT ![r] = "running"]
    /\ deadline' = [deadline EXCEPT ![r] = now + RunTimeout]
    /\ Goto(r, "between")
    /\ UNCHANGED <<now, left, wait, mail, matched, hist>>

\* A locked row, or a workspace another claim holds, is skipped.
ClaimSkip(r) ==
    /\ pc[r] = "claiming"
    /\ Goto(r, "idle")
    /\ UNCHANGED <<now, run, left, wait, mail, matched, hist>>

\* A cancel, or the sweep: the workspace is free, the worker notices between steps.
Cancel(r) ==
    /\ Cardinality(cancelled) < MaxCancelled
    /\ status[r] = "running"
    /\ cancelled' = cancelled \cup {r}
    /\ status' = [status EXCEPT ![r] = "over"]
    /\ UNCHANGED <<now, deadline, pc, left, wait, mail, matched, unstarted>>

\* Deviation: the deadline is not looked at before a step.
HasNextWait_afterDeadline(r) == status[r] = "running" /\ left[r] > 0

HasNextWait(r) == status[r] = "running" /\ now < deadline[r] /\ left[r] > 0

\* The wait clamps itself to what remains of the run's budget.
StartWait(r) ==
    /\ pc[r] = "between" /\ HasNextWait(r)
    /\ left' = [left EXCEPT ![r] = @ - 1]
    /\ since' = [since EXCEPT ![r] = now]
    /\ budget' = [budget EXCEPT ![r] = Lesser(Declared, deadline[r] - now)]
    /\ Goto(r, "fetch")
    /\ UNCHANGED <<now, run, wake, found, slow, mail, matched, hist>>

\* Deviation: `>=`.
Candidates_atLeast(r) ==
    {m \in Wanted[r] : arrived[m] > 0 /\ stamp[m] >= since[r]}

Candidates(r) == {m \in Wanted[r] : arrived[m] > 0 /\ stamp[m] > since[r]}

\* find_email, find_capture: the statement's snapshot.
Fetch(r) ==
    /\ pc[r] = "fetch"
    /\ \E m \in Messages \cup {None} :
          /\ IF Candidates(r) = {} THEN m = None
             ELSE m \in Candidates(r) /\ \A n \in Candidates(r) : stamp[m] <= stamp[n]
          /\ found' = [found EXCEPT ![r] = m]
    /\ slow' = [slow EXCEPT ![r] = FALSE]
    /\ Goto(r, "fetched")
    /\ UNCHANGED <<now, run, left, since, budget, wake, mail, matched, hist>>

\* The wait is over, and the step after it begins.
Match(r) ==
    /\ pc[r] = "fetched" /\ found[r] # None
    /\ matched' = [matched EXCEPT ![r] = @ \cup {found[r]}]
    /\ Goto(r, "between")
    /\ UNCHANGED <<now, run, left, wait, mail, hist>>

\* Deviation: it does not sleep for less than an interval.
Expired_early(r) == now - since[r] + PollInterval >= budget[r]

Expired(r) == now - since[r] >= budget[r]

\* The step is `timeout`, and halts the run.
GiveUp(r) ==
    /\ pc[r] = "fetched" /\ found[r] = None /\ Expired(r)
    /\ Goto(r, "expired")
    /\ status' = [status EXCEPT ![r] = "over"]
    /\ UNCHANGED <<now, deadline, left, wait, mail, matched, hist>>

Sleep(r) ==
    /\ pc[r] = "fetched" /\ found[r] = None /\ ~Expired(r)
    /\ wake' = [wake EXCEPT ![r] =
                  now + Lesser(PollInterval, budget[r] - (now - since[r]))]
    /\ Goto(r, "asleep")
    /\ UNCHANGED <<now, run, left, since, budget, found, slow, mail, matched, hist>>

Wake(r) ==
    /\ pc[r] = "asleep" /\ now >= wake[r]
    /\ Goto(r, "fetch")
    /\ UNCHANGED <<now, run, left, wait, mail, matched, hist>>

\* No wait is left, or the run was cancelled, or its deadline has passed.
Stop(r) ==
    /\ pc[r] = "between" /\ ~HasNextWait(r)
    /\ Goto(r, "done")
    /\ status' = [status EXCEPT ![r] = "over"]
    /\ UNCHANGED <<now, deadline, left, wait, mail, matched, hist>>

\* The application, provoked by a run that has started, sends; handle_DATA or
\* capture_webhook begins its transaction, whose time is the row's stamp.
Send(m) ==
    /\ stamp[m] = 0 /\ \E r \in Runs : status[r] # "queued"
    /\ stamp' = [stamp EXCEPT ![m] = now]
    /\ UNCHANGED <<now, run, pc, left, wait, arrived, matched, hist>>

Store(m) ==
    /\ stamp[m] > 0 /\ arrived[m] = 0
    /\ arrived' = [arrived EXCEPT ![m] = now]
    /\ UNCHANGED <<now, run, pc, left, wait, stamp, matched, hist>>

Tick ==
    /\ now < MaxTime /\ now' = now + 1
    /\ slow' = [r \in Runs |-> slow[r] \/ pc[r] = "fetched"]
    /\ UNCHANGED <<run, pc, left, since, budget, wake, found, mail, matched, hist>>

Worker(r) == ClaimLook(r) \/ ClaimTake(r) \/ ClaimSkip(r) \/ StartWait(r)
             \/ Fetch(r) \/ Match(r) \/ GiveUp(r) \/ Sleep(r) \/ Wake(r) \/ Stop(r)

Next ==
    \/ \E r \in Runs : Worker(r) \/ Cancel(r)
    \/ \E m \in Messages : Send(m) \/ Store(m)
    \/ Tick

Spec == Init /\ [][Next]_vars

-----------------------------------------------------------------------------

TypeOK ==
    /\ now \in Nat
    /\ cancelled \subseteq Runs /\ unstarted \in [Runs -> SUBSET Runs]
    /\ status \in [Runs -> {"queued", "running", "over"}]
    /\ deadline \in [Runs -> Nat]
    /\ pc \in [Runs -> Places] /\ left \in [Runs -> Nat]
    /\ since \in [Runs -> Nat] /\ budget \in [Runs -> Nat]
    /\ wake \in [Runs -> Nat]
    /\ found \in [Runs -> Messages \cup {None}] /\ slow \in [Runs -> BOOLEAN]
    /\ stamp \in [Messages -> Nat] /\ arrived \in [Messages -> Nat]
    /\ matched \in [Runs -> SUBSET Messages]
    /\ \A r \in Runs : pc[r] = "asleep" => wake[r] <= since[r] + budget[r]

\* Waits of one run take messages in the order of their stamps: a message that
\* satisfied one wait never satisfies a later one, and no wait goes back.
MatchesAdvance ==
    [][ \A r \in Runs : \A m \in matched[r] : \A n \in matched'[r] :
          n \in matched[r] \/ stamp[m] < stamp[n] ]_vars

\* A wait that expires saw everything that was stamped after it began and
\* committed before its timeout, unless its last query was still running then.
NoFalseTimeout ==
    \A r \in Runs : pc[r] = "expired" /\ ~slow[r] =>
        \A m \in Wanted[r] :
            stamp[m] > since[r] /\ arrived[m] > 0 => arrived[m] >= since[r] + budget[r]

\* "two runs of one workspace never overlap and cannot race for the same message"
\* (find_email): when a message did satisfy waits of two runs, each of them was
\* cancelled or swept while it executed, or had not started when the claim of the
\* other looked.  Runs queued one after the other never share, however late a commit.
SharingHasItsCause ==
    \A r, s \in Runs :
        r # s /\ matched[r] \cap matched[s] # {} => s \in cancelled \cup unstarted[r]
=============================================================================
