----------------------------- MODULE RunJournal -----------------------------
(***************************************************************************)
(* What a run directory promises whoever inspects or resumes it: a journal *)
(* of work items.  An item is opened at most once, closed at most once and *)
(* stays closed (what is known already is entered closed), and once the    *)
(* run is complete nothing in the journal moves.                           *)
(* There is no process, no memory and no crash here: those are details of  *)
(* the module that implements it.                                          *)
(***************************************************************************)
CONSTANT Items

VARIABLES item,         \* "none", "open" or "closed" for each item
          complete      \* the run has been declared complete

vars == <<item, complete>>

TypeOK ==
  /\ item \in [Items -> {"none", "open", "closed"}]
  /\ complete \in BOOLEAN

Init ==
  /\ item = [i \in Items |-> "none"]
  /\ complete = FALSE

Open(i) ==
  /\ ~complete
  /\ item[i] = "none"
  /\ item' = [item EXCEPT ![i] = "open"]
  /\ UNCHANGED complete

Close(i) ==
  /\ ~complete
  /\ item[i] # "closed"
  /\ item' = [item EXCEPT ![i] = "closed"]
  /\ UNCHANGED complete

\* A run is complete only after some work item has been closed.
Complete ==
  /\ ~complete
  /\ \E i \in Items : item[i] = "closed"
  /\ complete' = TRUE
  /\ UNCHANGED item

Next ==
  \/ \E i \in Items : Open(i) \/ Close(i)
  \/ Complete

Spec == Init /\ [][Next]_vars
=============================================================================
