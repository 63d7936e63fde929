----------------------------- MODULE MCLitMiner -----------------------------
(***************************************************************************)
(* The instances of LitMiner that TLC checks: two papers, so that one is   *)
(* mined while the other is skipped or repeated in a batch; two facts, so  *)
(* that one can be lost and one flushed later; one crash, two failures.    *)
(* MaxId leaves room for the topics of every dispatch of both processes.   *)
(***************************************************************************)
EXTENDS LitMiner
=============================================================================
