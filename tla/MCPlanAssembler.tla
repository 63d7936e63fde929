-------------------------- MODULE MCPlanAssembler --------------------------
(***************************************************************************)
(* Model checking of PlanAssembler: a hypothesis that cites two facts of   *)
(* one paper, only one of which mentions a dataset, and a hypothesis that  *)
(* cites nothing.                                                          *)
(***************************************************************************)
EXTENDS PlanAssembler

CONSTANTS n1, n2, f1, f2, p1

TwoNodes == {n1, n2}
TwoFacts == {f1, f2}
OnePaper == {p1}
AllOfP1 == [f \in Facts |-> p1]
Citations == [n \in Nodes |-> IF n = n1 THEN {f1, f2} ELSE {}]
FirstFact == {f1}
FewDerivations == {<<"paper", "other">>, <<"guess", "inferred">>}
=============================================================================
