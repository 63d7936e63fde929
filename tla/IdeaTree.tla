------------------------------ MODULE IdeaTree ------------------------------
(***************************************************************************)
(* The research-state tree: what IdeaTree and Node hold, and the reads and *)
(* mutations the coordinator and the executors make of them                *)
(* (src/loop_sci/_vendor/arbor/idea_tree.py, src/loop_sci/state).          *)
(*                                                                         *)
(* A tree is a function from node ids to node records.  Every mutation of  *)
(* the class ends in save(), which replaces idea_tree.json atomically, so  *)
(* the value of a mutation is both the new tree in memory and the new file *)
(* content; the modules that use these operators assign it to both.        *)
(*                                                                         *)
(* Ids are numbers: what the code sorts as strings only needs to be a      *)
(* total order.  Texts, scores and attempt counts are abstracted away.     *)
(***************************************************************************)
EXTENDS Integers

CONSTANT MaxId          \* ids other than ROOT are 1..MaxId

ASSUME MaxIdAssumption == MaxId \in Nat

ROOT == 0
Ids == 0 .. MaxId
NoNode == -1            \* parent_id is None, or no node at all

(***************************************************************************)
(* NodeStatus, as far as this repository writes it; "absent" is an id that *)
(* no node uses.  A node is open until some actor has recorded an outcome. *)
(***************************************************************************)
OpenStatus == {"pending", "running"}
ClosedStatus == {"done", "needs_retry", "accepted", "pruned"}
Status == OpenStatus \cup ClosedStatus \cup {"absent"}

\* refs says only whether the result's references are attached to the node.
NodeRecord == [status : Status, parent : Ids \cup {NoNode}, refs : BOOLEAN]
Trees == [Ids -> NodeRecord]

Absent == [status |-> "absent", parent |-> NoNode, refs |-> FALSE]

\* No file on disk, or no tree in memory.
NoTree == [n \in Ids |-> Absent]

\* The tree RunSession.create saves: a pending ROOT and nothing else.
FreshTree ==
  [NoTree EXCEPT ![ROOT] = [status |-> "pending", parent |-> NoNode, refs |-> FALSE]]

Present(t) == {n \in Ids : t[n].status # "absent"}
Children(t, n) == {c \in Present(t) : t[c].parent = n}

\* Leaves below ROOT with a given status: get_pending_leaves() for "pending",
\* and the comprehension over "running" nodes in Coordinator._observe.
LeavesWith(t, s) ==
  {n \in Present(t) \ {ROOT} : t[n].status = s /\ Children(t, n) = {}}

PendingLeaves(t) == LeavesWith(t, "pending")
StaleLeaves(t) == LeavesWith(t, "running")

\* Node ids of the first element after sorting by id (at most one).
First(S) == {n \in S : \A m \in S : n <= m}

\* The children list of the parent is derived from the parent fields.
AddNode(t, n, p, s) ==
  [t EXCEPT ![n] = [status |-> s, parent |-> p, refs |-> FALSE]]

SetStatus(t, n, s) == [t EXCEPT ![n].status = s]

SetRefs(t, n) == [t EXCEPT ![n].refs = TRUE]
=============================================================================
