--------------------------- MODULE MCCoordinator ---------------------------
(***************************************************************************)
(* The instances of Coordinator that TLC checks.  ROOT and two more nodes  *)
(* are enough for a pending leaf, a stale leaf and an inner node at once;  *)
(* a budget of two lets the loop end both by the budget and for want of    *)
(* work; two crashes let a process die on the node another one died on.    *)
(***************************************************************************)
EXTENDS Coordinator
=============================================================================
