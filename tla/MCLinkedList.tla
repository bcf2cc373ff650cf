---------------------------- MODULE MCLinkedList ----------------------------
(***************************************************************************)
(* The heap with which LinkedList is model-checked.                        *)
(***************************************************************************)
EXTENDS LinkedList

CONSTANTS a1, a2, a3, a4, p1, p2

=============================================================================
