------------------------ MODULE MCHypothesisExecutor ------------------------
(***************************************************************************)
(* Model checking of HypothesisExecutor: three hypotheses, two below one   *)
(* card and one below another, and two regions, so that a region can be    *)
(* closed by two kills and meet a third candidate, of another card; the    *)
(* runs that show a violation are content with one card.                   *)
(***************************************************************************)
EXTENDS HypothesisExecutor

CONSTANTS c1, c2, h1, h2, h3, r1, r2

OneCard == {c1}
TwoCards == {c1, c2}
TwoHyps == {h1, h2}
ThreeHyps == {h1, h2, h3}
TwoRegions == {r1, r2}
AllOfC1 == [h \in Hyps |-> c1]
TwoAndOne == [h \in Hyps |-> IF h = h3 THEN c2 ELSE c1]
=============================================================================
