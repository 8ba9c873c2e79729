----------------------------- MODULE MCRunQueue -----------------------------
(***************************************************************************)
(* Small instances of RunQueue for TLC.                                    *)
(***************************************************************************)
EXTENDS RunQueue, TLC

CONSTANTS w1, w2, a, b, wsA, wsB

\* Two scenarios of one workspace: runs 1 and 3 of a, run 2 of b.
MCScenarioOf == [r \in Runs |-> IF r = 2 THEN b ELSE a]
SameWorkspace == [s \in Scenarios |-> wsA]

\* The age of a row only matters while it is running.
LiveView == <<status, live, {r \in expired : status[r] = "running"}, cancelling,
              pc, run, todo, swept, cand, faults>>

WorkerSymmetry == Permutations(Workers)
=============================================================================
