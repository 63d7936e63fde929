------------------------- MODULE HypothesisLifecycle -------------------------
(***************************************************************************)
(* What the hypothesis engine promises about one hypothesis: it is judged  *)
(* at most once, is settled as its verdict says and stays settled.  One    *)
(* that falls into a closed region is pruned without ever being judged.    *)
(*                                                                         *)
(* Rounds, cards, files and crashes are details of the implementation.     *)
(***************************************************************************)
EXTENDS Sequences

CONSTANT Hyps

VARIABLES
  status,               \* of each hypothesis, as the idea tree shows it
  verdicts              \* the verdicts issued on each hypothesis, in order

vars == <<status, verdicts>>

Init ==
  /\ status = [h \in Hyps |-> "absent"]
  /\ verdicts = [h \in Hyps |-> <<>>]

Propose(h) ==
  /\ status[h] = "absent"
  /\ status' = [status EXCEPT ![h] = "pending"]
  /\ UNCHANGED verdicts

Judge(h, v) ==
  /\ status[h] = "pending"
  /\ verdicts[h] = <<>>
  /\ verdicts' = [verdicts EXCEPT ![h] = <<v>>]
  /\ UNCHANGED status

Accept(h) ==
  /\ status[h] = "pending"
  /\ verdicts[h] = <<"UP">>
  /\ status' = [status EXCEPT ![h] = "accepted"]
  /\ UNCHANGED verdicts

\* Killed by a DOWN verdict, or never judged because its region is closed.
Prune(h) ==
  /\ status[h] = "pending"
  /\ verdicts[h] # <<"UP">>
  /\ status' = [status EXCEPT ![h] = "pruned"]
  /\ UNCHANGED verdicts

Next ==
  \E h \in Hyps :
    \/ Propose(h)
    \/ \E v \in {"UP", "DOWN"} : Judge(h, v)
    \/ Accept(h)
    \/ Prune(h)

Spec == Init /\ [][Next]_vars
=============================================================================
