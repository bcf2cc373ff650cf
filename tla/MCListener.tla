----------------------------- MODULE MCListener -----------------------------
(***************************************************************************)
(* The processes with which Listener is model-checked.                     *)
(***************************************************************************)
EXTENDS Listener

CONSTANTS p1, p2, p3

=============================================================================
