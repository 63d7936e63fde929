--------------------------- MODULE MCVerdictLedger ---------------------------
(***************************************************************************)
(* Model checking of VerdictLedger.  Five entries and three interruptions  *)
(* are enough for a torn tail, a line glued to it, a whole line without    *)
(* its newline, and a repetition of each after a restart.                  *)
(***************************************************************************)
EXTENDS VerdictLedger
=============================================================================
