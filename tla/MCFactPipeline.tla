--------------------------- MODULE MCFactPipeline ---------------------------
(***************************************************************************)
(* An instance of FactPipeline for TLC.  The second source is configured   *)
(* under another name than its papers carry.                               *)
(***************************************************************************)
EXTENDS FactPipeline

CONSTANTS p1, p2, p3, p4, p5, i1, i2, i3, i4, n1, n2, n3, d1, y1, y2, a1, a2

MCPapers == {p1, p2, p3, p4, p5}

\* The ids of p1 and p2 give the same node.
MCNodeId == [i \in {i1, i2, i3, i4} |-> CASE i \in {i1, i2} -> n1 [] i = i3 -> n2 [] i = i4 -> n3]

\* p5 has the id of p1, no year, one author less and no abstract: p1 as its source
\* has it when asked for the id.  p2 has no authors; p3 is another record of the work
\* that p1 is; p4, of another year, has no DOI.
MCRecord ==
  [p \in MCPapers |->
     CASE p = p1 -> [source |-> 1, id |-> i1, doi |-> d1, year |-> y1,
                     authors |-> {a1, a2}, abstract |-> TRUE]
       [] p = p2 -> [source |-> 1, id |-> i2, doi |-> NoDoi, year |-> y1,
                     authors |-> {}, abstract |-> TRUE]
       [] p = p3 -> [source |-> 2, id |-> i3, doi |-> d1, year |-> y1,
                     authors |-> {a1}, abstract |-> TRUE]
       [] p = p4 -> [source |-> 2, id |-> i4, doi |-> NoDoi, year |-> y2,
                     authors |-> {a1, a2}, abstract |-> FALSE]
       [] p = p5 -> [source |-> 1, id |-> i1, doi |-> d1, year |-> NoYear,
                     authors |-> {a1}, abstract |-> FALSE]]
=============================================================================
