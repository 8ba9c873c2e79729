--------------------------- MODULE MCSmtpSession ---------------------------
(***************************************************************************)
(* A small instance of SmtpSession for TLC.                                *)
(***************************************************************************)
EXTENDS SmtpSession, TLC

CONSTANTS u1, u2, ws, sa

\* A workspace and a sandbox of u1; u2 is a member of the workspace.
MCOwner   == [b \in Boxes |-> u1]
MCCounted == [u \in Users |-> IF u = u1 THEN Boxes ELSE Workspaces]

ConnectionSymmetry == Permutations(Connections)
=============================================================================
