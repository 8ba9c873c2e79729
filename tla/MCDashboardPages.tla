-------------------------- MODULE MCDashboardPages --------------------------
(***************************************************************************)
(* A small instance of DashboardPages for TLC.                             *)
(***************************************************************************)
EXTENDS DashboardPages, TLC

CONSTANTS m1, m2, b1, b2, p1, p2, e1, e2, k1, k2, s1

\* The endpoints are methods of one path.
MCPath == [k \in Keys |-> None]

\* Addresses are alike, and so are methods and paths.
Interchangeable == Permutations(Prefixes) \cup Permutations(Keys)
=============================================================================
