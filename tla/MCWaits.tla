------------------------------ MODULE MCWaits ------------------------------
(***************************************************************************)
(* Small instances of Waits for TLC.                                       *)
(***************************************************************************)
EXTENDS Waits, TLC

\* Every run waits for the same mail: the same recipient, or none.
MCWanted == [r \in Runs |-> Messages]

Symmetry == Permutations(Runs) \cup Permutations(Messages)
=============================================================================
