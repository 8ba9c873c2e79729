-------------------------- MODULE MCScenarioPages --------------------------
(***************************************************************************)
(* A small instance of ScenarioPages for TLC.                              *)
(***************************************************************************)
EXTENDS ScenarioPages

CONSTANTS s1, s2, n1, n2, r1

\* The runs belong to the scenario that is there from the start.
MCScenarioOf == [r \in Runs |-> s1]
=============================================================================
