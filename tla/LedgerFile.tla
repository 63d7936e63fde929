----------------------------- MODULE LedgerFile -----------------------------
(***************************************************************************)
(* What a reader of verdict-ledger.jsonl can still see, and what the next  *)
(* append will do to it.  An append adds a line; an interrupted one leaves *)
(* a tail without a newline, and the line appended next is glued to that   *)
(* tail and parses no more.                                                *)
(*                                                                         *)
(* This is the ledger as the rest of the system needs to know it; module   *)
(* VerdictLedger implements it line by line.                               *)
(***************************************************************************)
EXTENDS Naturals

CONSTANT Entry

VARIABLE ledger

(***************************************************************************)
(* readable: the entries a re-opened ledger loads.                         *)
(* open:     of these, the one (if any) whose line has no newline yet.     *)
(* torn:     the file ends in a line that does not parse.                  *)
(***************************************************************************)
Ledger == [readable : SUBSET Entry, open : SUBSET Entry, torn : BOOLEAN]

Empty == [readable |-> {}, open |-> {}, torn |-> FALSE]

\* The file ends in a newline, or is empty.
EndsClean(l) == ~l.torn /\ l.open = {}

\* What is left when something is glued to the tail.
Glued(l) == [readable |-> l.readable \ l.open, open |-> {}, torn |-> TRUE]

\* The whole line of e, newline included, is written.
Appended(l, e) ==
  IF EndsClean(l)
  THEN [l EXCEPT !.readable = @ \cup {e}]
  ELSE [Glued(l) EXCEPT !.torn = FALSE]

\* The write of e is cut short: nothing of it, a part of its object, or the
\* whole object without the newline reaches the file.
CutShort(l, e) ==
  {l, Glued(l)} \cup
    IF EndsClean(l)
    THEN {[l EXCEPT !.readable = @ \cup {e}, !.open = {e}]}
    ELSE {}

Init == ledger = Empty

Next ==
  \E e \in Entry \ ledger.readable :
    \/ ledger' = Appended(ledger, e)
    \/ ledger' \in CutShort(ledger, e)

Spec == Init /\ [][Next]_ledger
=============================================================================
