--------------------------- MODULE RunQueue_proofs ---------------------------
(***************************************************************************)
(* Theorems about RunQueue, for any number of runs, scenarios, workspaces, *)
(* workers and faults.                                                     *)
(***************************************************************************)
EXTENDS RunQueue, FiniteSetTheorems, TLAPS

-----------------------------------------------------------------------------
(***************************************************************************)
(* Type correctness.                                                       *)
(***************************************************************************)

\* A SELECT of rows returns a sequence of rows.
LEMMA OrdersType ==
    ASSUME NEW S \in SUBSET Runs
    PROVE  Orders(S) \subseteq Seq(Runs)
<1>1. IsFiniteSet(S)
  BY RunsAssumption, FS_Subset
<1>2. Cardinality(S) \in Nat
  BY <1>1, FS_CardinalityType
<1>3. ASSUME NEW q \in [1 .. Cardinality(S) -> S]
      PROVE  q \in Seq(Runs)
  BY <1>2
<1> QED
  BY <1>3 DEF Orders

\* The state of a worker that gives its iteration up.
LEMMA AbortType ==
    ASSUME TypeOK, NEW w \in Workers, Abort(w),
           status' \in [Runs -> Statuses], live' \subseteq Scenarios,
           expired' \subseteq Runs, cancelling' \subseteq Runs,
           faults' \in 0 .. MaxFaults
    PROVE  TypeOK'
BY NoRunAssumption DEF TypeOK, Abort, Goto, PcValues

LEMMA InitType == Init => TypeOK
BY NoRunAssumption, FaultsAssumption DEF Init, TypeOK, PcValues, Statuses

LEMMA RequestType ==
    ASSUME TypeOK, Requests \/ \E r \in Runs : Expire(r)
    PROVE  TypeOK'
<1> USE DEF TypeOK
<1>1. ASSUME NEW r \in Runs, CreateRun(r) PROVE TypeOK'
  BY <1>1 DEF CreateRun, Statuses
<1>2. ASSUME NEW r \in Runs, CommitRun(r) PROVE TypeOK'
  BY <1>2 DEF CommitRun, Statuses
<1>3. ASSUME NEW r \in Runs, CancelRead(r) PROVE TypeOK'
  BY <1>3 DEF CancelRead
<1>4. ASSUME NEW r \in Runs, CancelWrite(r) PROVE TypeOK'
  BY <1>4 DEF CancelWrite, Statuses, Terminal
<1>5. ASSUME NEW s \in Scenarios, DeleteScenario(s) PROVE TypeOK'
  BY <1>5 DEF DeleteScenario, Delete, Statuses
<1>6. ASSUME NEW k \in Runs, PurgeOlderThan(k) PROVE TypeOK'
  BY <1>6 DEF PurgeOlderThan, Delete, Statuses
<1>7. ASSUME NEW r \in Runs, Expire(r) PROVE TypeOK'
  BY <1>7 DEF Expire
<1> QED
  BY <1>1, <1>2, <1>3, <1>4, <1>5, <1>6, <1>7 DEF Requests

LEMMA SweepType ==
    ASSUME TypeOK, NEW w \in Workers, Sweep(w)
    PROVE  TypeOK'
<1>1. CASE SweepRead(w)
  <2>1. PICK order \in Orders({r \in Runs : Stale(r)}) : todo' = [todo EXCEPT ![w] = order]
    BY <1>1 DEF SweepRead
  <2>2. order \in Seq(Runs)
    BY <2>1, OrdersType
  <2> QED
    BY <1>1, <2>1, <2>2 DEF TypeOK, SweepRead, Goto, PcValues
<1>2. ASSUME NEW r \in Runs, SweepWrite(w, r) PROVE TypeOK'
  <2>1. Tail(todo[w]) \in Seq(Runs)
    BY <1>2 DEF TypeOK, SweepWrite
  <2> QED
    BY <1>2, <2>1 DEF TypeOK, SweepWrite
<1>3. CASE SweepRowGone(w)
  BY <1>3, AbortType DEF TypeOK, SweepRowGone
<1>4. CASE SweepDeadlock(w)
  BY <1>4, AbortType DEF TypeOK, SweepDeadlock
<1> QED
  BY <1>1, <1>2, <1>3, <1>4 DEF Sweep

LEMMA ClaimType ==
    ASSUME TypeOK, NEW w \in Workers, Claim(w)
    PROVE  TypeOK'
<1> USE DEF TypeOK, Goto, PcValues
<1>1. CASE ClaimSnapshot(w)
  BY <1>1 DEF ClaimSnapshot
<1>2. CASE ClaimSkip(w)
  BY <1>2 DEF ClaimSkip
<1>3. CASE ClaimTake(w)
  BY <1>3, NoRunAssumption DEF ClaimTake
<1>4. CASE ClaimNone(w)
  BY <1>4 DEF ClaimNone, Seen, Statuses, Terminal
<1>5. CASE ClaimCommit(w)
  BY <1>5 DEF ClaimCommit, Seen, Statuses, Terminal
<1> QED
  BY <1>1, <1>2, <1>3, <1>4, <1>5 DEF Claim

LEMMA OwnerHasRun ==
    ASSUME TypeOK, NEW w \in Workers, pc[w] \notin {"idle", "sweep", "claim"}
    PROVE  run[w] \in Runs
BY DEF TypeOK

LEMMA ExecuteType ==
    ASSUME TypeOK, NEW w \in Workers, Execute(w)
    PROVE  TypeOK'
<1> USE DEF TypeOK, Goto, PcValues, Release, ExecutionOnly
<1>1. ASSUME NEW onwards \in SUBSET {"step", "finish", "write"},
             pc[w] \in {"check", "step", "finish"},
             Refresh(w, onwards), ExecutionOnly, UNCHANGED faults
      PROVE  TypeOK'
  <2>1. CASE status[run[w]] = "gone" /\ Goto(w, "rescue") /\ UNCHANGED run
    BY <1>1, <2>1 DEF Refresh
  <2>2. CASE Release(w)
    BY <1>1, <2>2 DEF Refresh
  <2>3. CASE (\E there \in onwards : Goto(w, there)) /\ UNCHANGED run
    <3>1. PICK there \in {"step", "finish", "write"} : Goto(w, there)
      BY <1>1, <2>3
    <3> QED
      BY <1>1, <2>3, <3>1 DEF Refresh
  <2> HIDE DEF TypeOK, Goto, PcValues, Release, ExecutionOnly
  <2> QED
    BY <1>1, <2>1, <2>2, <2>3 DEF Refresh
<1>2. CASE StepCheck(w) \/ MiddleStep(w) \/ FinishRead(w)
  BY <1>1, <1>2 DEF StepCheck, MiddleStep, FinishRead
<1>3. CASE StepRowGone(w) \/ LastStep(w)
  <2>1. CASE StepRowGone(w)
    BY <2>1 DEF StepRowGone
  <2>2. CASE LastStep(w)
    BY <2>2 DEF LastStep
  <2> QED
    BY <1>3, <2>1, <2>2
<1>4. CASE FinishWrite(w)
  <2>0. pc[w] = "write"
    BY <1>4 DEF FinishWrite
  <2>1. run[w] \in Runs /\ pc[w] = "write"
    BY <2>0, OwnerHasRun
  <2>2. CASE status[run[w]] = "gone"
    <3>1. Goto(w, "rescue") /\ UNCHANGED <<status, run, faults>> /\ ExecutionOnly
      BY <1>4, <2>2 DEF FinishWrite
    <3> QED
      BY <2>1, <3>1
  <2>3. CASE status[run[w]] # "gone"
    <3>1. PICK o \in Outcomes : status' = [status EXCEPT ![run[w]] = o]
      BY <1>4, <2>3 DEF FinishWrite
    <3>2. o \in Statuses
      BY OutcomesAssumption DEF Verdicts, Statuses, Terminal
    <3> QED
      BY <1>4, <2>1, <2>3, <3>1, <3>2 DEF FinishWrite
  <2> QED
    BY <2>2, <2>3
<1>5. CASE RescueRead(w)
  BY <1>5 DEF RescueRead
<1>6. CASE RescueWrite(w)
  BY <1>6 DEF RescueWrite, Statuses, Terminal
<1> QED
  BY <1>2, <1>3, <1>4, <1>5, <1>6 DEF Execute

LEMMA FaultType ==
    ASSUME TypeOK,
           Restart \/ \E w \in Workers : ExecutionFails(w) \/ IterationFails(w)
    PROVE  TypeOK'
<1>1. ASSUME Fault PROVE faults' \in 0 .. MaxFaults
  BY <1>1, FaultsAssumption DEF TypeOK, Fault
<1>2. ASSUME NEW w \in Workers, ExecutionFails(w) PROVE TypeOK'
  BY <1>1, <1>2 DEF ExecutionFails, TypeOK, Goto, PcValues, ExecutionOnly
<1>3. ASSUME NEW w \in Workers, IterationFails(w) PROVE TypeOK'
  BY <1>1, <1>3, AbortType DEF IterationFails, TypeOK
<1>4. CASE Restart
  BY <1>1, <1>4, NoRunAssumption DEF Restart, TypeOK, PcValues, Statuses
<1> QED
  BY <1>2, <1>3, <1>4

\* Every reachable state is well formed: in particular a worker has a run at
\* hand exactly from its claim to the end of the execution (run_once).
THEOREM TypeCorrect == Spec => []TypeOK
<1>1. TypeOK /\ [Next]_vars => TypeOK'
  <2>1. CASE UNCHANGED vars
    BY <2>1 DEF TypeOK, vars
  <2> QED
    BY <2>1, RequestType, SweepType, ClaimType, ExecuteType, FaultType DEF Next, Work
<1> QED
  BY <1>1, InitType, PTL DEF Spec

-----------------------------------------------------------------------------
(***************************************************************************)
(* The inductive invariant.                                                *)
(*                                                                         *)
(* SingleExecutor is not inductive by itself: a claim must not take a row  *)
(* that a worker past its commit is still executing, and what tells is the *)
(* row's status (StaleReadsAreBounded).  That status survives other        *)
(* transactions because of the row locks (RowLockIsExclusive).             *)
(***************************************************************************)

LEMMA InitInv == Init => IInv
BY InitType, NoRunAssumption
   DEF Init, IInv, StaleReadsAreBounded, RowLockIsExclusive, SingleExecutor,
       ClaimMutex, Holds, Owns

\* An action that leaves workers alone keeps what is only about workers.
LEMMA WorkersUntouched ==
    ASSUME IInv, UNCHANGED <<pc, run, swept>>
    PROVE  RowLockIsExclusive' /\ SingleExecutor' /\ ClaimMutex'
BY DEF IInv, RowLockIsExclusive, SingleExecutor, ClaimMutex, Holds, Owns

LEMMA RequestStale ==
    ASSUME IInv, Requests \/ \E r \in Runs : Expire(r)
    PROVE  StaleReadsAreBounded'
<1> USE DEF IInv, TypeOK, StaleReadsAreBounded, Terminal
<1>1. ASSUME NEW r \in Runs, CreateRun(r) PROVE StaleReadsAreBounded'
  BY <1>1 DEF CreateRun
<1>2. ASSUME NEW r \in Runs, CommitRun(r) PROVE StaleReadsAreBounded'
  BY <1>2 DEF CommitRun
<1>3. ASSUME NEW r \in Runs, CancelRead(r) PROVE StaleReadsAreBounded'
  BY <1>3 DEF CancelRead
<1>4. ASSUME NEW r \in Runs, CancelWrite(r) PROVE StaleReadsAreBounded'
  BY <1>4 DEF CancelWrite, Unlocked, Holds
<1>5. ASSUME NEW rows \in SUBSET Runs, Delete(rows) PROVE StaleReadsAreBounded'
  <2>1. /\ \A r \in Runs : status'[r] = IF r \in rows THEN "gone" ELSE status[r]
        /\ UNCHANGED <<cancelling, pc, run, todo, swept>>
    BY <1>5 DEF Delete
  <2>2. \A v \in Workers :
            /\ \A r \in swept[v] : r \notin rows
            /\ pc[v] = "commit" => run[v] \notin rows
    BY <1>5 DEF Delete, Unlocked, Holds
  <2>3. ASSUME NEW v \in Workers
        PROVE  /\ pc[v] = "commit" => status'[run[v]] = "pending"
               /\ pc[v] \in {"check", "step", "finish", "write", "rescue", "rewrite"} =>
                      status'[run[v]] \in {"running", "cancelled", "timeout", "gone"}
    <3>1. pc[v] \notin {"idle", "sweep", "claim"} => run[v] \in Runs
      OBVIOUS
    <3> QED
      BY <2>1, <2>2, <3>1
  <2>4. ASSUME NEW v \in Workers
        PROVE  /\ \A r \in swept[v] : status'[r] \in {"running"} \cup Terminal
               /\ \A i \in DOMAIN todo[v] :
                      status'[todo[v][i]] \in {"running", "gone"} \cup Terminal
    BY <2>1, <2>2
  <2>5. \A r \in cancelling : status'[r] \notin {"none", "inserting"}
    BY <2>1
  <2> QED
    BY <2>1, <2>3, <2>4, <2>5
<1>6. ASSUME NEW r \in Runs, Expire(r) PROVE StaleReadsAreBounded'
  BY <1>6 DEF Expire
<1> QED
  BY <1>1, <1>2, <1>3, <1>4, <1>5, <1>6
     DEF Requests, DeleteScenario, PurgeOlderThan, Committed

LEMMA RequestInv ==
    ASSUME IInv, Requests \/ \E r \in Runs : Expire(r)
    PROVE  IInv'
<1>1. UNCHANGED <<pc, run, swept>>
  BY DEF Requests, CreateRun, CommitRun, CancelRead, CancelWrite, DeleteScenario,
         PurgeOlderThan, Delete, Expire
<1> QED
  BY <1>1, RequestType, RequestStale, WorkersUntouched DEF IInv

\* A worker that gives up, and lets go of whatever it had.
LEMMA AbortInv ==
    ASSUME IInv, NEW w \in Workers, Abort(w), TypeOK', UNCHANGED <<status, cancelling>>
    PROVE  IInv'
BY DEF IInv, TypeOK, StaleReadsAreBounded, RowLockIsExclusive, SingleExecutor,
       ClaimMutex, Holds, Owns, Abort, Goto

LEMMA SweepInv ==
    ASSUME IInv, NEW w \in Workers, Sweep(w)
    PROVE  IInv'
<1>0. TypeOK /\ TypeOK'
  BY SweepType DEF IInv
<1>1. CASE SweepRead(w)
  <2>1. PICK order \in Orders({r \in Runs : Stale(r)}) : todo' = [todo EXCEPT ![w] = order]
    BY <1>1 DEF SweepRead
  <2>2. \A i \in DOMAIN order : status[order[i]] = "running"
    BY <2>1 DEF Orders, Stale
  <2> QED
    BY <1>0, <1>1, <2>1, <2>2
       DEF SweepRead, IInv, TypeOK, StaleReadsAreBounded, RowLockIsExclusive,
           SingleExecutor, ClaimMutex, Holds, Owns, Goto
<1>2. ASSUME NEW r \in Runs, SweepWrite(w, r) PROVE IInv'
  <2>1. RowLockIsExclusive'
    BY <1>0, <1>2 DEF SweepWrite, IInv, TypeOK, RowLockIsExclusive, LockedByOther, Holds
  <2>2. SingleExecutor' /\ ClaimMutex'
    BY <1>2 DEF SweepWrite, IInv, SingleExecutor, ClaimMutex, Owns
  <2>3. StaleReadsAreBounded'
    <3>1. todo[w] \in Seq(Runs) /\ todo[w] # <<>> /\ r = todo[w][1]
      BY <1>0, <1>2 DEF SweepWrite, TypeOK
    <3>2. status[r] \in {"running"} \cup Terminal
      BY <1>2, <3>1 DEF SweepWrite, IInv, StaleReadsAreBounded
    <3>3. \A i \in DOMAIN Tail(todo[w]) :
              i + 1 \in DOMAIN todo[w] /\ Tail(todo[w])[i] = todo[w][i + 1]
      BY <3>1
    <3> QED
      BY <1>0, <1>2, <3>2, <3>3 DEF SweepWrite, IInv, TypeOK, StaleReadsAreBounded
  <2> QED
    BY <1>0, <2>1, <2>2, <2>3 DEF IInv
<1>3. CASE SweepRowGone(w) \/ SweepDeadlock(w)
  BY <1>0, <1>3, AbortInv DEF SweepRowGone, SweepDeadlock
<1> QED
  BY <1>1, <1>2, <1>3 DEF Sweep

LEMMA ClaimInv ==
    ASSUME IInv, NEW w \in Workers, Claim(w)
    PROVE  IInv'
<1>0. TypeOK /\ TypeOK'
  BY ClaimType DEF IInv
<1>1. CASE ClaimSnapshot(w) \/ ClaimSkip(w)
  <2>1. /\ UNCHANGED <<status, cancelling, run, todo, swept>>
        /\ \A v \in Workers :
               \/ pc'[v] = pc[v]
               \/ pc[v] = "sweep" /\ pc'[v] = "claim"
    <3>1. CASE ClaimSnapshot(w)
      BY <1>0, <3>1 DEF ClaimSnapshot, TypeOK, Goto
    <3>2. CASE ClaimSkip(w)
      BY <3>2 DEF ClaimSkip
    <3> QED
      BY <1>1, <3>1, <3>2
  <2>2. RowLockIsExclusive' /\ SingleExecutor' /\ ClaimMutex'
    BY <2>1 DEF IInv, RowLockIsExclusive, SingleExecutor, ClaimMutex, Holds, Owns
  <2>3. StaleReadsAreBounded'
    BY <2>1 DEF IInv, StaleReadsAreBounded
  <2> QED
    BY <1>0, <2>2, <2>3 DEF IInv
<1>2. CASE ClaimTake(w)
  <2>1. PICK r \in cand[w] : Lockable(w, r) /\ run' = [run EXCEPT ![w] = r]
    BY <1>2 DEF ClaimTake
  <2>2. r \in Runs /\ status[r] = "pending" /\ ~LockedByOther(w, r)
    BY <1>0, <2>1 DEF TypeOK, Lockable, StillPending
  <2>3. StaleReadsAreBounded'
    BY <1>0, <1>2, <2>1, <2>2 DEF ClaimTake, IInv, TypeOK, StaleReadsAreBounded, Goto
  <2>4. RowLockIsExclusive'
    BY <1>0, <1>2, <2>1, <2>2
       DEF ClaimTake, IInv, TypeOK, RowLockIsExclusive, LockedByOther, Holds, Goto
  <2>5. \A v \in Workers \ {w} : ~Owns(v, r)
    <3> SUFFICES ASSUME NEW v \in Workers \ {w}, Owns(v, r) PROVE FALSE
      OBVIOUS
    <3>1. pc[v] # "commit"
      BY <2>2 DEF LockedByOther, Holds, Owns
    <3>2. pc[v] \in {"check", "step", "finish", "write", "rescue", "rewrite"} /\ run[v] = r
      BY <1>0, <3>1 DEF TypeOK, PcValues, Owns
    <3> QED
      BY <2>2, <3>2 DEF IInv, StaleReadsAreBounded
  <2>6. SingleExecutor'
    <3>1. /\ run'[w] = r
          /\ \A v \in Workers \ {w} : pc'[v] = pc[v] /\ run'[v] = run[v]
      BY <1>0, <1>2, <2>1 DEF ClaimTake, TypeOK, Goto
    <3>2. \A v \in Workers \ {w}, q \in Runs : Owns(v, q)' => Owns(v, q) /\ q # r
      BY <2>5, <3>1 DEF Owns
    <3>3. \A q \in Runs : Owns(w, q)' => q = r
      BY <3>1 DEF Owns
    <3> QED
      BY <3>2, <3>3 DEF IInv, SingleExecutor
  <2>7. ~WorkspaceLockedByOther(w, Workspace(r))
    BY <2>1 DEF Lockable
  <2>8. ClaimMutex'
    BY <1>0, <1>2, <2>1, <2>2, <2>7
       DEF ClaimTake, IInv, TypeOK, ClaimMutex, WorkspaceLockedByOther, Workspace, Goto
  <2> QED
    BY <1>0, <2>3, <2>4, <2>6, <2>8 DEF IInv
<1>3. CASE ClaimNone(w) \/ ClaimCommit(w)
  <2> USE DEF ClaimNone, ClaimCommit, Goto
  <2>1. pc' \in [Workers -> PcValues] /\ \A v \in Workers : v # w => pc'[v] = pc[v]
    BY <1>0, <1>3 DEF TypeOK
  <2>2. /\ pc[w] \in {"claim", "commit"} /\ pc'[w] \in {"idle", "check", "finish"}
        /\ pc'[w] # "idle" => pc[w] = "commit"
        /\ run' = run /\ todo' = todo /\ cancelling' = cancelling
        /\ swept' = [swept EXCEPT ![w] = {}]
    BY <1>0, <1>3 DEF TypeOK
  <2>3. RowLockIsExclusive' /\ SingleExecutor' /\ ClaimMutex'
    <3>1. \A v \in Workers : swept'[v] \subseteq swept[v] /\ run'[v] = run[v]
      BY <1>0, <2>2 DEF TypeOK
    <3>2. \A v \in Workers : pc'[v] = "commit" => pc[v] = "commit"
      BY <2>1, <2>2
    <3>3. \A v \in Workers : pc'[v] \notin {"idle", "sweep", "claim"} =>
                               pc[v] \notin {"idle", "sweep", "claim"}
      BY <2>1, <2>2
    <3>4. \A v \in Workers, r \in Runs :
              (Holds(v, r)' => Holds(v, r)) /\ (Owns(v, r)' => Owns(v, r))
      BY <3>1, <3>2, <3>3 DEF Holds, Owns
    <3> QED
      BY <3>1, <3>2, <3>4 DEF IInv, RowLockIsExclusive, SingleExecutor, ClaimMutex
  <2>4. \A r \in Runs :
            \/ status'[r] = status[r]
            \/ r \in swept[w] /\ status'[r] = "timeout"
            \/ pc[w] = "commit" /\ r = run[w] /\ status'[r] = "running"
    <3>1. CASE ClaimNone(w)
      <4>1. \A r \in Runs : status'[r] = Seen(w, r)
        BY <3>1
      <4> QED
        BY <4>1 DEF Seen
    <3>2. CASE ClaimCommit(w)
      <4>1. \A r \in Runs : status'[r] = IF r = run[w] THEN "running" ELSE Seen(w, r)
        BY <3>2
      <4> QED
        BY <3>2, <4>1 DEF Seen
    <3> QED
      BY <1>3, <3>1, <3>2
  <2>5. pc[w] = "commit" => status'[run[w]] = "running"
    BY <1>0, <1>3 DEF TypeOK
  <2>6. \A v \in Workers \ {w} : pc[v] = "commit" => status'[run[v]] = status[run[v]]
    BY <1>0, <2>2, <2>4 DEF IInv, TypeOK, RowLockIsExclusive, Holds
  <2>7. \A v \in Workers \ {w}, r \in Runs :
            Owns(v, r) => ~(pc[w] = "commit" /\ r = run[w])
    BY <1>0, <2>2 DEF IInv, TypeOK, SingleExecutor, Owns
  <2>8. StaleReadsAreBounded'
    <3>1. ASSUME NEW v \in Workers, pc'[v] = "commit" PROVE status'[run'[v]] = "pending"
      BY <2>1, <2>2, <2>6, <3>1 DEF IInv, StaleReadsAreBounded
    <3>2. ASSUME NEW v \in Workers,
                 pc'[v] \in {"check", "step", "finish", "write", "rescue", "rewrite"}
          PROVE  status'[run'[v]] \in {"running", "cancelled", "timeout", "gone"}
      <4>1. CASE v = w
        BY <2>2, <2>5, <3>2, <4>1
      <4>2. CASE v # w
        <5>1. run[v] \in Runs /\ pc[v] = pc'[v] /\ run'[v] = run[v]
          BY <1>0, <2>1, <2>2, <3>2, <4>2 DEF TypeOK
        <5>2. status[run[v]] \in {"running", "cancelled", "timeout", "gone"}
          BY <3>2, <5>1 DEF IInv, StaleReadsAreBounded
        <5> QED
          BY <2>4, <5>1, <5>2
      <4> QED
        BY <4>1, <4>2
    <3>3. ASSUME NEW v \in Workers, NEW r \in swept'[v]
          PROVE  status'[r] \in {"running"} \cup Terminal
      BY <1>0, <2>2, <2>4 DEF IInv, TypeOK, StaleReadsAreBounded, Terminal
    <3>4. ASSUME NEW v \in Workers, NEW i \in DOMAIN todo'[v]
          PROVE  status'[todo'[v][i]] \in {"running", "gone"} \cup Terminal
      <4>1. todo[v][i] \in Runs
        BY <1>0, <2>2 DEF TypeOK
      <4> QED
        BY <2>2, <2>4, <4>1 DEF IInv, StaleReadsAreBounded, Terminal
    <3>5. ASSUME NEW r \in cancelling' PROVE status'[r] \notin {"none", "inserting"}
      BY <1>0, <2>2, <2>4 DEF IInv, TypeOK, StaleReadsAreBounded
    <3> QED
      BY <3>1, <3>2, <3>3, <3>4, <3>5 DEF StaleReadsAreBounded
  <2> QED
    BY <1>0, <2>3, <2>8 DEF IInv
<1> QED
  BY <1>1, <1>2, <1>3 DEF Claim

\* Past the claim a worker only moves on, or writes the row it executes.
LEMMA ExecuteStep ==
    ASSUME TypeOK, NEW w \in Workers, Execute(w)
    PROVE  /\ pc[w] \in {"check", "step", "finish", "write", "rescue", "rewrite"}
           /\ pc'[w] \in {"idle", "step", "finish", "write", "rescue", "rewrite"}
           /\ \A v \in Workers \ {w} : pc'[v] = pc[v] /\ run'[v] = run[v]
           /\ pc'[w] # "idle" => run'[w] = run[w]
           /\ UNCHANGED <<todo, swept, cancelling>>
           /\ \/ status' = status
              \/ /\ pc[w] \in {"write", "rewrite"} /\ pc'[w] = "idle"
                 /\ Unlocked(run[w])
                 /\ status[run[w]] # "gone"
                 /\ \E o \in Verdicts : status' = [status EXCEPT ![run[w]] = o]
<1> USE DEF TypeOK, Goto, Release, ExecutionOnly
<1>1. CASE StepCheck(w) \/ MiddleStep(w) \/ FinishRead(w)
  BY <1>1 DEF StepCheck, MiddleStep, FinishRead, Refresh
<1>2. CASE StepRowGone(w) \/ LastStep(w) \/ RescueRead(w)
  BY <1>2 DEF StepRowGone, LastStep, RescueRead
<1>3. CASE FinishWrite(w)
  BY <1>3, OutcomesAssumption DEF FinishWrite
<1>4. CASE RescueWrite(w)
  BY <1>4 DEF RescueWrite, Verdicts
<1> QED
  BY <1>1, <1>2, <1>3, <1>4 DEF Execute

LEMMA ExecuteInv ==
    ASSUME IInv, NEW w \in Workers, Execute(w)
    PROVE  IInv'
<1>0. TypeOK /\ TypeOK'
  BY ExecuteType DEF IInv
<1>1. /\ pc[w] \in {"check", "step", "finish", "write", "rescue", "rewrite"}
      /\ pc'[w] \in {"idle", "step", "finish", "write", "rescue", "rewrite"}
      /\ pc'[w] # "idle" => run'[w] = run[w]
      /\ UNCHANGED <<todo, swept, cancelling>>
  BY <1>0, ExecuteStep
<1>2. \A v \in Workers \ {w} : pc'[v] = pc[v] /\ run'[v] = run[v]
  BY <1>0, ExecuteStep
<1>3. CASE status' = status
  <2>1. RowLockIsExclusive' /\ SingleExecutor' /\ ClaimMutex'
    BY <1>1, <1>2 DEF IInv, RowLockIsExclusive, SingleExecutor, ClaimMutex, Holds, Owns
  <2>2. StaleReadsAreBounded'
    BY <1>1, <1>2, <1>3 DEF IInv, StaleReadsAreBounded
  <2> QED
    BY <1>0, <2>1, <2>2 DEF IInv
<1>4. CASE status' # status
  <2>1. /\ pc'[w] = "idle"
        /\ Unlocked(run[w])
        /\ run[w] \in Runs
    BY <1>0, <1>4, ExecuteStep DEF TypeOK
  <2>2. PICK o \in Terminal : status' = [status EXCEPT ![run[w]] = o]
    BY <1>0, <1>4, ExecuteStep DEF Verdicts, Terminal
  <2>3. RowLockIsExclusive' /\ SingleExecutor' /\ ClaimMutex'
    BY <1>1, <1>2 DEF IInv, RowLockIsExclusive, SingleExecutor, ClaimMutex, Holds, Owns
  <2>4. \A r \in Runs : r # run[w] => status'[r] = status[r]
    BY <1>0, <2>2 DEF TypeOK
  <2>5. status'[run[w]] \in Terminal
    BY <1>0, <2>1, <2>2 DEF TypeOK
  <2>6. ASSUME NEW v \in Workers, pc'[v] \notin {"idle", "sweep", "claim"}
        PROVE  /\ pc'[v] = pc[v] /\ run'[v] = run[v]
               /\ run[v] \in Runs /\ run[v] # run[w]
    BY <1>0, <1>1, <1>2, <2>1, <2>6 DEF IInv, TypeOK, SingleExecutor, Owns
  <2>7. StaleReadsAreBounded'
    <3>1. ASSUME NEW v \in Workers
          PROVE  /\ pc'[v] = "commit" => status'[run'[v]] = "pending"
                 /\ pc'[v] \in {"check", "step", "finish", "write", "rescue", "rewrite"} =>
                        status'[run'[v]] \in {"running", "cancelled", "timeout", "gone"}
      BY <2>4, <2>6 DEF IInv, StaleReadsAreBounded
    <3>2. \A v \in Workers : \A r \in swept'[v] : status'[r] \in {"running"} \cup Terminal
      BY <1>0, <1>1, <2>4, <2>5 DEF IInv, TypeOK, StaleReadsAreBounded
    <3>3. ASSUME NEW v \in Workers, NEW i \in DOMAIN todo'[v]
          PROVE  status'[todo'[v][i]] \in {"running", "gone"} \cup Terminal
      <4>1. todo[v][i] \in Runs
        BY <1>0, <1>1 DEF TypeOK
      <4> QED
        BY <1>1, <2>4, <2>5, <4>1 DEF IInv, StaleReadsAreBounded
    <3>4. \A r \in cancelling' : status'[r] \notin {"none", "inserting"}
      BY <1>0, <1>1, <2>4, <2>5 DEF IInv, TypeOK, StaleReadsAreBounded, Terminal
    <3> QED
      BY <3>1, <3>2, <3>3, <3>4 DEF StaleReadsAreBounded
  <2> QED
    BY <1>0, <2>3, <2>7 DEF IInv
<1> QED
  BY <1>3, <1>4

LEMMA FaultInv ==
    ASSUME IInv,
           Restart \/ \E w \in Workers : ExecutionFails(w) \/ IterationFails(w)
    PROVE  IInv'
<1>0. TypeOK /\ TypeOK'
  BY FaultType DEF IInv
<1>1. ASSUME NEW w \in Workers, ExecutionFails(w) PROVE IInv'
  BY <1>0, <1>1
     DEF ExecutionFails, ExecutionOnly, IInv, TypeOK, StaleReadsAreBounded,
         RowLockIsExclusive, SingleExecutor, ClaimMutex, Holds, Owns, Goto
<1>2. ASSUME NEW w \in Workers, IterationFails(w) PROVE IInv'
  BY <1>0, <1>2, AbortInv DEF IterationFails
<1>3. CASE Restart
  BY <1>0, <1>3
     DEF Restart, IInv, TypeOK, StaleReadsAreBounded, RowLockIsExclusive,
         SingleExecutor, ClaimMutex, Holds, Owns
<1> QED
  BY <1>1, <1>2, <1>3

LEMMA NextInv == IInv /\ [Next]_vars => IInv'
<1>1. ASSUME IInv, UNCHANGED vars PROVE IInv'
  BY <1>1 DEF vars, IInv, TypeOK, StaleReadsAreBounded, RowLockIsExclusive,
             SingleExecutor, ClaimMutex, Holds, Owns, Workspace
<1> QED
  BY <1>1, RequestInv, SweepInv, ClaimInv, ExecuteInv, FaultInv DEF Next, Work

LEMMA Invariance == Spec => []IInv
BY InitInv, NextInv, PTL DEF Spec

\* No two workers ever have the same run, whatever happens between the
\* snapshot of a claim and its commit (claim_next_run).
THEOREM RunsHaveOneExecutor == Spec => []SingleExecutor
BY Invariance, PTL DEF IInv

\* No two claims of one workspace are ever uncommitted at once
\* (claim_next_run, the lock on the joined workspace row).
THEOREM ClaimsExclude == Spec => []ClaimMutex
BY Invariance, PTL DEF IInv

-----------------------------------------------------------------------------
(***************************************************************************)
(* The queue implements RunLifecycle: each step of the queue is a step of  *)
(* the life of some runs, or changes nothing a reader of the table sees.   *)
(***************************************************************************)

\* An UPDATE of one committed row, seen from outside.
LEMMA PublishedUpdate ==
    ASSUME TypeOK, NEW r \in Runs, NEW v, v # "inserting",
           status' = [status EXCEPT ![r] = v]
    PROVE  Published' = [Published EXCEPT ![r] = v]
BY DEF TypeOK, Published

LEMMA PublishedValue ==
    ASSUME NEW r \in Runs, status[r] # "inserting"
    PROVE  Published[r] = status[r]
BY DEF Published

LEMMA RequestRefines ==
    ASSUME IInv, Requests \/ \E r \in Runs : Expire(r)
    PROVE  Lifecycle!Next \/ UNCHANGED Published
<1>0. TypeOK
  BY DEF IInv
<1>1. ASSUME NEW r \in Runs, CreateRun(r) PROVE UNCHANGED Published
  BY <1>0, <1>1 DEF CreateRun, Published, TypeOK
<1>2. ASSUME NEW r \in Runs, CommitRun(r) PROVE Lifecycle!Next
  <2>1. Published[r] = "none"
    BY <1>2 DEF CommitRun, Published
  <2>2. Published' = [Published EXCEPT ![r] = "pending"]
    BY <1>0, <1>2, PublishedUpdate DEF CommitRun
  <2> QED
    BY <2>1, <2>2 DEF Lifecycle!Next, Lifecycle!Submit, Lifecycle!Move
<1>3. ASSUME NEW r \in Runs, CancelRead(r) \/ Expire(r) PROVE UNCHANGED Published
  BY <1>3 DEF CancelRead, Expire, Published
<1>4. ASSUME NEW r \in Runs, CancelWrite(r), status[r] # "gone" PROVE Lifecycle!Next
  <2>1. status[r] \in {"pending", "running"} \cup Terminal
    BY <1>0, <1>4 DEF CancelWrite, IInv, StaleReadsAreBounded, TypeOK, Statuses
  <2>2. Published[r] = status[r]
    BY <2>1, PublishedValue DEF Terminal
  <2>3. Published' = [Published EXCEPT ![r] = "cancelled"]
    BY <1>0, <1>4, PublishedUpdate DEF CancelWrite
  <2>4. CASE status[r] = "pending"
    BY <2>2, <2>3, <2>4 DEF Lifecycle!Next, Lifecycle!CancelQueued, Lifecycle!Move
  <2>5. CASE status[r] = "running"
    BY <2>2, <2>3, <2>5
       DEF Lifecycle!Next, Lifecycle!Settle, Lifecycle!Move, Lifecycle!Terminal
  <2>6. CASE status[r] \in Terminal
    BY <2>2, <2>3, <2>6
       DEF Lifecycle!Next, Lifecycle!OverwriteByIntervention, Lifecycle!Move,
           Lifecycle!Terminal, Lifecycle!Verdicts, Terminal
  <2> QED
    BY <2>1, <2>4, <2>5, <2>6
<1>5. ASSUME NEW r \in Runs, CancelWrite(r), status[r] = "gone" PROVE UNCHANGED Published
  BY <1>5 DEF CancelWrite, Published
<1>6. ASSUME NEW rows \in SUBSET Committed, Delete(rows) PROVE Lifecycle!Next
  <2>1. rows \in SUBSET Runs
    BY DEF Committed
  <2>2. Published' = [r \in Runs |-> IF r \in rows THEN "gone" ELSE Published[r]]
    BY <1>6, <2>1 DEF Delete, Published
  <2> QED
    BY <2>1, <2>2 DEF Lifecycle!Next, Lifecycle!Discard
<1> QED
  BY <1>1, <1>2, <1>3, <1>4, <1>5, <1>6 DEF Requests, DeleteScenario, PurgeOlderThan

\* The commit of a sweep, and of a claim if there is one.
LEMMA SweepAndClaimRefines ==
    ASSUME TypeOK, NEW T \in SUBSET Runs, NEW C \in SUBSET Runs,
           \A r \in T : status[r] \in {"running"} \cup Terminal,
           \A r \in C : status[r] = "pending",
           \A r, q \in C : r = q,
           status' = [r \in Runs |-> IF r \in C THEN "running"
                                     ELSE IF r \in T THEN "timeout" ELSE status[r]]
    PROVE  Lifecycle!Next
<1>1. \A r \in T : Published[r] \in {"running"} \cup Lifecycle!Terminal
  BY DEF Published, Terminal, Lifecycle!Terminal, Lifecycle!Verdicts
<1>2. \A r \in C : Published[r] = "pending" /\ r \notin T
  BY DEF Published, Terminal
<1>3. Published' = [r \in Runs |-> IF r \in T THEN "timeout"
                                   ELSE IF r \in C THEN "running"
                                   ELSE Published[r]]
  BY <1>2 DEF Published
<1>4. Lifecycle!SweepAndStart(T)
  BY <1>1, <1>2, <1>3 DEF Lifecycle!SweepAndStart
<1> QED
  BY <1>4 DEF Lifecycle!Next

\* A worker's verdict, on a run nobody or only an intervention has finished.
LEMMA VerdictRefines ==
    ASSUME TypeOK, NEW r \in Runs, NEW o \in Verdicts,
           status[r] \in {"running", "cancelled", "timeout"},
           status' = [status EXCEPT ![r] = o]
    PROVE  Lifecycle!Next
<1>1. Published[r] = status[r]
  BY PublishedValue
<1>2. Published' = [Published EXCEPT ![r] = o]
  BY PublishedUpdate DEF Verdicts
<1>3. CASE status[r] = "running"
  BY <1>1, <1>2, <1>3
     DEF Verdicts, Lifecycle!Next, Lifecycle!Settle, Lifecycle!Move,
         Lifecycle!Terminal, Lifecycle!Verdicts
<1>4. CASE status[r] \in {"cancelled", "timeout"}
  BY <1>1, <1>2, <1>4
     DEF Verdicts, Lifecycle!Next, Lifecycle!OverwriteByWorker, Lifecycle!Move,
         Lifecycle!Verdicts
<1> QED
  BY <1>3, <1>4

LEMMA WorkRefines ==
    ASSUME IInv, NEW w \in Workers, Work(w)
    PROVE  Lifecycle!Next \/ UNCHANGED Published
<1>0. TypeOK
  BY DEF IInv
<1>1. ASSUME UNCHANGED status PROVE UNCHANGED Published
  BY <1>1 DEF Published
<1>2. CASE Sweep(w)
  BY <1>1, <1>2 DEF Sweep, SweepRead, SweepWrite, SweepRowGone, SweepDeadlock
<1>3. CASE ClaimSnapshot(w) \/ ClaimSkip(w) \/ ClaimTake(w)
  BY <1>1, <1>3 DEF ClaimSnapshot, ClaimSkip, ClaimTake
<1>4. swept[w] \in SUBSET Runs /\ \A r \in swept[w] : status[r] \in {"running"} \cup Terminal
  BY <1>0 DEF TypeOK, IInv, StaleReadsAreBounded
<1>5. CASE ClaimNone(w)
  <2>1. status' = [r \in Runs |-> IF r \in {} THEN "running"
                                  ELSE IF r \in swept[w] THEN "timeout" ELSE status[r]]
    BY <1>5 DEF ClaimNone, Seen
  <2>2. /\ {} \in SUBSET Runs
        /\ \A r \in {} : status[r] = "pending"
        /\ \A r, q \in {} : r = q
    OBVIOUS
  <2> QED
    BY <1>0, <1>4, <2>1, <2>2, SweepAndClaimRefines
<1>6. CASE ClaimCommit(w)
  <2>1. run[w] \in Runs /\ status[run[w]] = "pending"
    BY <1>0, <1>6 DEF ClaimCommit, TypeOK, IInv, StaleReadsAreBounded
  <2>2. status' = [r \in Runs |-> IF r \in {run[w]} THEN "running"
                                  ELSE IF r \in swept[w] THEN "timeout" ELSE status[r]]
    BY <1>6 DEF ClaimCommit, Seen
  <2>3. \A r, q \in {run[w]} : r = q
    OBVIOUS
  <2>4. {run[w]} \in SUBSET Runs /\ \A r \in {run[w]} : status[r] = "pending"
    BY <2>1
  <2> QED
    BY <1>0, <1>4, <2>2, <2>3, <2>4, SweepAndClaimRefines
<1>7. CASE Execute(w) /\ status' # status
  <2>1. /\ pc[w] \in {"write", "rewrite"}
        /\ run[w] \in Runs
        /\ status[run[w]] # "gone"
    BY <1>0, <1>7, ExecuteStep DEF TypeOK
  <2>2. PICK o \in Verdicts : status' = [status EXCEPT ![run[w]] = o]
    BY <1>0, <1>7, ExecuteStep
  <2>3. status[run[w]] \in {"running", "cancelled", "timeout"}
    BY <2>1 DEF IInv, StaleReadsAreBounded
  <2> QED
    BY <1>0, <2>1, <2>2, <2>3, VerdictRefines
<1> QED
  BY <1>1, <1>2, <1>3, <1>5, <1>6, <1>7 DEF Work, Claim

LEMMA FaultRefines ==
    ASSUME IInv,
           Restart \/ \E w \in Workers : ExecutionFails(w) \/ IterationFails(w)
    PROVE  Lifecycle!Next \/ UNCHANGED Published
<1>1. ASSUME NEW w \in Workers, ExecutionFails(w) \/ IterationFails(w)
      PROVE  UNCHANGED Published
  BY <1>1 DEF ExecutionFails, IterationFails, Published
<1>2. CASE Restart
  <2> DEFINE D == {r \in Runs : status[r] = "inserting"}
  <2>1. Published' = [r \in Runs |-> IF r \in D THEN "gone" ELSE Published[r]]
    BY <1>2 DEF Restart, Published
  <2>2. D \in SUBSET Runs
    OBVIOUS
  <2> HIDE DEF D
  <2> QED
    BY <2>1, <2>2 DEF Lifecycle!Next, Lifecycle!Discard
<1> QED
  BY <1>1, <1>2

\* The queue implements the life of a run: at most one start, no way back into
\* the queue, no resurrection of a deleted row (scenario_run_service).
THEOREM QueueImplementsLifecycle == Spec => ImplementsLifecycle
<1>1. Init => Lifecycle!Init
  BY DEF Init, Lifecycle!Init, Published
<1>2. IInv /\ [Next]_vars => [Lifecycle!Next]_Published
  <2>1. ASSUME UNCHANGED vars PROVE UNCHANGED Published
    BY <2>1 DEF vars, Published
  <2> QED
    BY <2>1, RequestRefines, WorkRefines, FaultRefines DEF Next
<1> QED
  BY <1>1, <1>2, Invariance, PTL DEF Spec, ImplementsLifecycle, Lifecycle!Spec

-----------------------------------------------------------------------------
(***************************************************************************)
(* A worker's verdict is never flipped by another worker.                  *)
(***************************************************************************)

LEMMA VerdictStep ==
    ASSUME IInv, [Next]_vars, NEW r \in Runs,
           status[r] \in {"passed", "failed", "error"}
    PROVE  status'[r] \in {status[r], "cancelled", "timeout", "gone"}
<1>0. TypeOK
  BY DEF IInv
<1>1. CASE UNCHANGED status
  BY <1>1
<1>2. CASE Requests \/ \E q \in Runs : Expire(q)
  BY <1>0, <1>2
     DEF TypeOK, Requests, CreateRun, CommitRun, CancelRead, CancelWrite,
         DeleteScenario, PurgeOlderThan, Delete, Expire
<1>3. ASSUME NEW w \in Workers, ClaimNone(w) \/ ClaimCommit(w)
      PROVE  status'[r] \in {status[r], "timeout"}
  <2>1. pc[w] = "commit" => run[w] # r
    BY DEF IInv, StaleReadsAreBounded
  <2>2. status'[r] = Seen(w, r)
    BY <1>3, <2>1 DEF ClaimNone, ClaimCommit
  <2> QED
    BY <2>2 DEF Seen
<1>4. ASSUME NEW w \in Workers, Execute(w) PROVE status'[r] = status[r]
  <2>1. CASE status' = status
    BY <2>1
  <2>2. CASE status' # status
    <3>1. /\ pc[w] \in {"write", "rewrite"}
          /\ \E o \in Verdicts : status' = [status EXCEPT ![run[w]] = o]
      BY <1>0, <1>4, <2>2, ExecuteStep
    <3>2. run[w] # r
      BY <3>1 DEF IInv, StaleReadsAreBounded
    <3> QED
      BY <1>0, <3>1, <3>2 DEF TypeOK
  <2> QED
    BY <2>1, <2>2
<1>5. CASE Restart
  BY <1>5 DEF Restart
<1>6. ASSUME NEW w \in Workers,
             Sweep(w) \/ ClaimSnapshot(w) \/ ClaimSkip(w) \/ ClaimTake(w)
                \/ ExecutionFails(w) \/ IterationFails(w)
      PROVE  UNCHANGED status
  BY <1>6 DEF Sweep, SweepRead, SweepWrite, SweepRowGone, SweepDeadlock, ClaimSnapshot,
              ClaimSkip, ClaimTake, ExecutionFails, IterationFails
<1> QED
  BY <1>1, <1>2, <1>3, <1>4, <1>5, <1>6 DEF Next, Work, Claim, vars

\* A worker's verdict is replaced by a late cancel or sweep at most (finish_run).
THEOREM VerdictsStand == Spec => VerdictNotFlipped
<1>1. IInv /\ [Next]_vars =>
          \A r \in Runs : status[r] \in {"passed", "failed", "error"}
                          => status'[r] \in {status[r], "cancelled", "timeout", "gone"}
  BY VerdictStep
<1> QED
  BY <1>1, Invariance, PTL DEF Spec, VerdictNotFlipped

-----------------------------------------------------------------------------
(***************************************************************************)
(* A verdict nobody is about to write stays, and nobody sets out again.    *)
(***************************************************************************)

Quiet(r) == status[r] \in Terminal /\ ~WriterInFlight(r)

\* What a step of the others leaves of worker v.
LEMMA WorkerStaysQuiet ==
    ASSUME NEW v \in Workers, NEW r \in Runs, ~WorkerWillWrite(v, r),
           pc'[v] \in {"write", "rewrite"} => pc'[v] = pc[v] /\ run'[v] = run[v],
           swept'[v] \subseteq swept[v], todo'[v] = todo[v] \/ todo'[v] = <<>>
    PROVE  ~WorkerWillWrite(v, r)'
BY DEF WorkerWillWrite

LEMMA QuietRequest ==
    ASSUME TypeOK, Requests \/ \E q \in Runs : Expire(q), NEW r \in Runs, Quiet(r)
    PROVE  status'[r] \in {status[r], "gone"} /\ ~WriterInFlight(r)'
<1>1. UNCHANGED <<pc, run, swept, todo>>
  BY DEF Requests, CreateRun, CommitRun, CancelRead, CancelWrite, DeleteScenario,
         PurgeOlderThan, Delete, Expire
<1>2. \A w \in Workers : ~WorkerWillWrite(w, r)'
  BY <1>1 DEF Quiet, WriterInFlight, WorkerWillWrite
<1>3. status'[r] \in {status[r], "gone"} /\ r \notin cancelling'
  BY DEF TypeOK, Quiet, WriterInFlight, Terminal, Requests, CreateRun, CommitRun, CancelRead,
         Finished, CancelWrite, DeleteScenario, PurgeOlderThan, Delete, Expire
<1> QED
  BY <1>2, <1>3 DEF WriterInFlight

LEMMA QuietSweep ==
    ASSUME TypeOK, NEW w \in Workers, Sweep(w), NEW r \in Runs, Quiet(r)
    PROVE  status'[r] = status[r] /\ ~WriterInFlight(r)'
<1>1. UNCHANGED <<status, cancelling>>
  BY DEF Sweep, SweepRead, SweepWrite, SweepRowGone, SweepDeadlock
<1>2. \A v \in Workers : ~WorkerWillWrite(v, r)
  BY DEF Quiet, WriterInFlight
<1>3. ASSUME NEW v \in Workers PROVE ~WorkerWillWrite(v, r)'
  <2>1. CASE v # w
    BY <1>2, <2>1, WorkerStaysQuiet
       DEF TypeOK, Sweep, SweepRead, SweepWrite, SweepRowGone, SweepDeadlock, Abort, Goto
  <2>2. CASE v = w /\ SweepRead(w)
    <3>1. PICK order \in Orders({q \in Runs : Stale(q)}) : todo' = [todo EXCEPT ![w] = order]
      BY <2>2 DEF SweepRead
    <3>2. \A i \in DOMAIN order : status[order[i]] = "running"
      BY <3>1 DEF Orders, Stale
    <3>3. \A i \in DOMAIN todo'[w] : todo'[w][i] # r
      BY <3>1, <3>2 DEF TypeOK, Quiet, Terminal
    <3>4. pc'[w] = "sweep" /\ r \notin swept'[w]
      BY <1>2, <2>2 DEF TypeOK, SweepRead, Goto, WorkerWillWrite
    <3> QED
      BY <2>2, <3>3, <3>4 DEF WorkerWillWrite
  <2>3. ASSUME NEW q \in Runs, v = w, SweepWrite(w, q) PROVE ~WorkerWillWrite(v, r)'
    <3>1. todo[w] \in Seq(Runs) /\ todo[w] # <<>> /\ q = todo[w][1]
      BY <2>3 DEF SweepWrite, TypeOK
    <3>2. \A i \in DOMAIN Tail(todo[w]) :
              i + 1 \in DOMAIN todo[w] /\ Tail(todo[w])[i] = todo[w][i + 1]
      BY <3>1
    <3>3. q # r /\ 1 \in DOMAIN todo[w]
      BY <1>2, <3>1 DEF WorkerWillWrite
    <3>4. \A i \in DOMAIN todo'[w] : todo'[w][i] # r
      BY <1>2, <2>3, <3>2 DEF TypeOK, SweepWrite, WorkerWillWrite
    <3>5. pc'[w] = "sweep" /\ r \notin swept'[w]
      BY <1>2, <2>3, <3>3 DEF TypeOK, SweepWrite, WorkerWillWrite
    <3> QED
      BY <2>3, <3>4, <3>5 DEF WorkerWillWrite
  <2>4. CASE v = w /\ (SweepRowGone(w) \/ SweepDeadlock(w))
    BY <1>2, <2>4, WorkerStaysQuiet DEF TypeOK, SweepRowGone, SweepDeadlock, Abort, Goto
  <2> QED
    BY <2>1, <2>2, <2>3, <2>4 DEF Sweep
<1> QED
  BY <1>1, <1>3 DEF Quiet, WriterInFlight

LEMMA QuietClaim ==
    ASSUME IInv, NEW w \in Workers, Claim(w), NEW r \in Runs, Quiet(r)
    PROVE  status'[r] = status[r] /\ ~WriterInFlight(r)'
<1>0. TypeOK
  BY DEF IInv
<1>1. \A v \in Workers : ~WorkerWillWrite(v, r)
  BY DEF Quiet, WriterInFlight
<1>2. status'[r] = status[r]
  <2>1. Seen(w, r) = status[r]
    BY <1>1 DEF Seen, WorkerWillWrite
  <2>2. pc[w] = "commit" => run[w] # r
    BY DEF IInv, StaleReadsAreBounded, Quiet, Terminal
  <2> QED
    BY <2>1, <2>2 DEF Claim, ClaimSnapshot, ClaimSkip, ClaimTake, ClaimNone, ClaimCommit
<1>3. UNCHANGED <<cancelling, todo>> /\ \A v \in Workers : swept'[v] \subseteq swept[v]
  BY <1>0 DEF TypeOK, Claim, ClaimSnapshot, ClaimSkip, ClaimTake, ClaimNone, ClaimCommit
<1>4. ASSUME NEW v \in Workers
      PROVE  pc'[v] \in {"write", "rewrite"} => pc'[v] = pc[v] /\ run'[v] = run[v]
  BY <1>0 DEF TypeOK, Claim, ClaimSnapshot, ClaimSkip, ClaimTake, ClaimNone, ClaimCommit, Goto
<1> QED
  BY <1>1, <1>2, <1>3, <1>4, WorkerStaysQuiet DEF Quiet, WriterInFlight

LEMMA QuietExecute ==
    ASSUME TypeOK, NEW w \in Workers, Execute(w), NEW r \in Runs, Quiet(r)
    PROVE  status'[r] = status[r] /\ ~WriterInFlight(r)'
<1>1. \A v \in Workers : ~WorkerWillWrite(v, r)
  BY DEF Quiet, WriterInFlight
<1>2. UNCHANGED <<cancelling, todo, swept>>
  BY ExecuteStep
<1>3. status'[r] = status[r]
  <2>1. pc[w] \in {"write", "rewrite"} => run[w] # r
    BY <1>1 DEF WorkerWillWrite
  <2> QED
    BY <2>1, ExecuteStep DEF TypeOK
<1>4. ~(pc'[w] \in {"write", "rewrite"} /\ run'[w] = r)
  <2>1. CASE StepCheck(w) \/ MiddleStep(w) \/ LastStep(w) \/ StepRowGone(w)
    BY <2>1 DEF TypeOK, StepCheck, MiddleStep, LastStep, StepRowGone, Refresh, Release, Goto
  <2>2. CASE FinishRead(w)
    BY <2>2 DEF TypeOK, FinishRead, Refresh, Release, Finished, Goto, Quiet
  <2>3. CASE FinishWrite(w) \/ RescueWrite(w)
    BY <2>3 DEF TypeOK, FinishWrite, RescueWrite, Release, Goto
  <2>4. CASE RescueRead(w)
    BY <2>4 DEF TypeOK, RescueRead, Release, Finished, Goto, Quiet
  <2> QED
    BY <2>1, <2>2, <2>3, <2>4 DEF Execute
<1>5. ~WorkerWillWrite(w, r)'
  BY <1>1, <1>2, <1>4 DEF WorkerWillWrite
<1>6. \A v \in Workers \ {w} : pc'[v] = pc[v] /\ run'[v] = run[v]
  BY ExecuteStep
<1>7. \A v \in Workers \ {w} : ~WorkerWillWrite(v, r)'
  BY <1>1, <1>2, <1>6 DEF WorkerWillWrite
<1> QED
  BY <1>2, <1>3, <1>5, <1>7 DEF Quiet, WriterInFlight

LEMMA QuietFault ==
    ASSUME TypeOK, NEW r \in Runs, Quiet(r),
           Restart \/ \E w \in Workers : ExecutionFails(w) \/ IterationFails(w)
    PROVE  status'[r] = status[r] /\ ~WriterInFlight(r)'
<1>1. \A v \in Workers : ~WorkerWillWrite(v, r)
  BY DEF Quiet, WriterInFlight
<1>2. CASE Restart
  BY <1>2 DEF Restart, Quiet, Terminal, WriterInFlight, WorkerWillWrite
<1>3. ASSUME NEW w \in Workers, ExecutionFails(w) \/ IterationFails(w)
      PROVE  status'[r] = status[r] /\ ~WriterInFlight(r)'
  <2>1. UNCHANGED <<status, cancelling>>
    BY <1>3 DEF ExecutionFails, IterationFails, ExecutionOnly
  <2>2. ASSUME NEW v \in Workers
        PROVE  /\ pc'[v] \in {"write", "rewrite"} => pc'[v] = pc[v] /\ run'[v] = run[v]
               /\ swept'[v] \subseteq swept[v]
               /\ todo'[v] = todo[v] \/ todo'[v] = <<>>
    <3>1. CASE ExecutionFails(w)
      BY <3>1 DEF TypeOK, ExecutionFails, ExecutionOnly, Goto
    <3>2. CASE IterationFails(w)
      BY <3>2 DEF TypeOK, IterationFails, Abort, Goto
    <3> QED
      BY <1>3, <3>1, <3>2
  <2>3. \A v \in Workers : ~WorkerWillWrite(v, r)'
    BY <1>1, <2>2, WorkerStaysQuiet
  <2> QED
    BY <2>1, <2>3 DEF Quiet, WriterInFlight
<1> QED
  BY <1>2, <1>3

\* The lost update is confined to the writers that were already on their way:
\* past them a terminal status is final (execute_run's refresh, finish_run's guard).
THEOREM VerdictsSettle == Spec => QuiescentVerdictIsFinal
<1>1. ASSUME IInv, [Next]_vars, NEW r \in Runs, Quiet(r)
      PROVE  status'[r] \in {status[r], "gone"} /\ ~WriterInFlight(r)'
  <2>1. CASE UNCHANGED vars
    BY <1>1, <2>1 DEF vars, Quiet, WriterInFlight, WorkerWillWrite
  <2>2. CASE Next
    BY <1>1, <2>2, QuietRequest, QuietSweep, QuietClaim, QuietExecute, QuietFault
       DEF IInv, Next, Work
  <2> QED
    BY <1>1, <2>1, <2>2
<1>2. IInv /\ [Next]_vars =>
          \A r \in Runs : status[r] \in Terminal /\ ~WriterInFlight(r) =>
              /\ status'[r] \in {status[r], "gone"}
              /\ ~WriterInFlight(r)'
  BY <1>1 DEF Quiet
<1> QED
  BY <1>2, Invariance, PTL DEF Spec, QuiescentVerdictIsFinal

-----------------------------------------------------------------------------
(***************************************************************************)
(* Without a failure no run is dropped.                                    *)
(***************************************************************************)

\* Only the commit of a claim makes a run `running`.
LEMMA NoNewRunning ==
    ASSUME IInv, [Next]_vars, ~ \E w \in Workers : ClaimCommit(w)
    PROVE  \A r \in Runs : status'[r] = "running" => status[r] = "running"
<1>0. TypeOK
  BY DEF IInv
<1>1. CASE UNCHANGED status
  BY <1>1
<1>2. CASE Requests \/ \E q \in Runs : Expire(q)
  BY <1>0, <1>2
     DEF TypeOK, Requests, CreateRun, CommitRun, CancelRead, CancelWrite,
         DeleteScenario, PurgeOlderThan, Delete, Expire
<1>3. ASSUME NEW w \in Workers, ClaimNone(w)
      PROVE  \A r \in Runs : status'[r] = "running" => status[r] = "running"
  BY <1>3 DEF ClaimNone, Seen
<1>4. ASSUME NEW w \in Workers, Execute(w), status' # status
      PROVE  \A r \in Runs : status'[r] = "running" => status[r] = "running"
  <2>1. PICK o \in Verdicts : status' = [status EXCEPT ![run[w]] = o]
    BY <1>0, <1>4, ExecuteStep
  <2> QED
    BY <1>0, <2>1 DEF TypeOK, Verdicts
<1>5. CASE Restart
  BY <1>5 DEF Restart
<1>6. ASSUME NEW w \in Workers,
             Sweep(w) \/ ClaimSnapshot(w) \/ ClaimSkip(w) \/ ClaimTake(w)
                \/ ExecutionFails(w) \/ IterationFails(w)
      PROVE  UNCHANGED status
  BY <1>6 DEF Sweep, SweepRead, SweepWrite, SweepRowGone, SweepDeadlock, ClaimSnapshot,
              ClaimSkip, ClaimTake, ExecutionFails, IterationFails
<1> QED
  BY <1>1, <1>2, <1>3, <1>4, <1>5, <1>6 DEF Next, Work, Claim, vars

\* A worker lets go of its run only once the row is no longer `running`.
LEMMA ReleaseAfterVerdict ==
    ASSUME IInv, NEW w \in Workers, Execute(w), pc'[w] = "idle"
    PROVE  status'[run[w]] # "running"
<1> USE DEF TypeOK, Goto, Release
<1>0. TypeOK /\ run[w] \in Runs
  <2>1. TypeOK
    BY DEF IInv
  <2>2. pc[w] \notin {"idle", "sweep", "claim"}
    BY <2>1, ExecuteStep
  <2> QED
    BY <2>1, <2>2, OwnerHasRun
<1>1. CASE StepCheck(w) \/ MiddleStep(w) \/ FinishRead(w)
  <2>1. Finished(status[run[w]]) /\ status' = status
    BY <1>0, <1>1 DEF StepCheck, MiddleStep, FinishRead, Refresh
  <2> QED
    BY <2>1 DEF Finished, Terminal
<1>2. CASE StepRowGone(w) \/ LastStep(w)
  BY <1>0, <1>2 DEF StepRowGone, LastStep
<1>3. CASE FinishWrite(w)
  <2>1. status[run[w]] # "gone"
    BY <1>0, <1>3 DEF FinishWrite
  <2>2. PICK o \in Outcomes : status' = [status EXCEPT ![run[w]] = o]
    BY <1>3, <2>1 DEF FinishWrite
  <2> QED
    BY <1>0, <2>2, OutcomesAssumption DEF Verdicts
<1>4. CASE RescueRead(w)
  BY <1>0, <1>4 DEF RescueRead, Finished, Terminal
<1>5. CASE RescueWrite(w)
  BY <1>0, <1>5 DEF RescueWrite
<1> QED
  BY <1>1, <1>2, <1>3, <1>4, <1>5 DEF Execute

\* An owner stays one, through every step that is not a failure, while its
\* row is `running`.
LEMMA OwnerStays ==
    ASSUME IInv, Requests \/ (\E q \in Runs : Expire(q)) \/ \E w \in Workers : Work(w),
           NEW v \in Workers, NEW r \in Runs, Owns(v, r), status'[r] = "running"
    PROVE  Owns(v, r)'
<1>0. TypeOK
  BY DEF IInv
<1>1. CASE Requests \/ \E q \in Runs : Expire(q)
  BY <1>1 DEF Owns, Requests, CreateRun, CommitRun, CancelRead, CancelWrite, DeleteScenario,
              PurgeOlderThan, Delete, Expire
<1>2. ASSUME NEW w \in Workers, Sweep(w) PROVE Owns(v, r)'
  BY <1>0, <1>2
     DEF TypeOK, Owns, Sweep, SweepRead, SweepWrite, SweepRowGone, SweepDeadlock, WaitsFor,
         Abort, Goto
<1>3. ASSUME NEW w \in Workers, Claim(w) PROVE Owns(v, r)'
  BY <1>0, <1>3
     DEF TypeOK, Owns, Claim, ClaimSnapshot, ClaimSkip, ClaimTake, ClaimNone, ClaimCommit, Goto
<1>4. ASSUME NEW w \in Workers, Execute(w) PROVE Owns(v, r)'
  <2>1. CASE v # w
    BY <1>0, <1>4, <2>1, ExecuteStep DEF Owns
  <2>2. CASE v = w
    <3>1. pc'[w] # "idle"
      BY <1>4, <2>2, ReleaseAfterVerdict DEF Owns
    <3> QED
      BY <1>0, <1>4, <2>2, <3>1, ExecuteStep DEF Owns
  <2> QED
    BY <2>1, <2>2
<1> QED
  BY <1>1, <1>2, <1>3, <1>4 DEF Work

\* As long as nothing fails, every `running` row has a worker (execute_run and
\* its rescue lose none, neither do the sweep and the claim).
THEOREM NothingIsDropped == Spec => []NoOrphanWithoutFault
<1>1. Init => NoOrphanWithoutFault
  BY DEF Init, NoOrphanWithoutFault
<1>2. ASSUME IInv, NoOrphanWithoutFault, [Next]_vars PROVE NoOrphanWithoutFault'
  <2>0. TypeOK
    BY <1>2 DEF IInv
  <2>1. CASE UNCHANGED vars
    BY <1>2, <2>1 DEF vars, NoOrphanWithoutFault, Owns
  <2>2. CASE Restart \/ \E w \in Workers : ExecutionFails(w) \/ IterationFails(w)
    <3>1. faults' = faults + 1 /\ faults \in Nat
      BY <2>0, <2>2 DEF TypeOK, Restart, ExecutionFails, IterationFails, Fault
    <3>2. faults' # 0
      BY <3>1
    <3> QED
      BY <3>2 DEF NoOrphanWithoutFault
  <2>3. ASSUME Requests \/ (\E q \in Runs : Expire(q)) \/ \E w \in Workers : Work(w),
               faults' = 0,
               NEW r \in Runs, status'[r] = "running"
        PROVE  \E w \in Workers : Owns(w, r)'
    <3>1. faults = 0
      BY <2>3 DEF Requests, CreateRun, CommitRun, CancelRead, CancelWrite, DeleteScenario,
                  PurgeOlderThan, Delete, Expire, Work, Sweep, SweepRead, SweepWrite,
                  SweepRowGone, SweepDeadlock, Claim, ClaimSnapshot, ClaimSkip, ClaimTake,
                  ClaimNone, ClaimCommit, Execute, StepCheck, MiddleStep, FinishRead,
                  StepRowGone, LastStep, FinishWrite, RescueRead, RescueWrite
    <3>2. CASE status[r] = "running"
      <4>1. PICK v \in Workers : Owns(v, r)
        BY <1>2, <3>1, <3>2 DEF NoOrphanWithoutFault
      <4> QED
        BY <1>2, <2>3, <4>1, OwnerStays
    <3>3. CASE status[r] # "running"
      <4>1. PICK w \in Workers : ClaimCommit(w)
        BY <1>2, <2>3, <3>3, NoNewRunning
      <4>2. r = run[w]
        BY <2>3, <3>3, <4>1 DEF ClaimCommit, Seen
      <4>3. Owns(w, r)'
        BY <2>0, <4>1, <4>2 DEF TypeOK, ClaimCommit, Owns, Goto
      <4> QED
        BY <4>3
    <3> QED
      BY <3>2, <3>3
  <2> QED
    BY <1>2, <2>1, <2>2, <2>3 DEF Next, NoOrphanWithoutFault
<1> QED
  BY <1>1, <1>2, Invariance, PTL DEF Spec
=============================================================================
