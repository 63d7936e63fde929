------------------------- MODULE CoordinatorProofs -------------------------
(***************************************************************************)
(* Proofs about Coordinator, for every tree size, budget and bound: type   *)
(* correctness, the inductive invariant, the safety invariants that follow *)
(* from it, and the refinement of RunJournal.                              *)
(***************************************************************************)
EXTENDS Coordinator, FiniteSetTheorems, TLAPS

-----------------------------------------------------------------------------
(***************************************************************************)
(* Lemmas about the tree operators                                         *)
(***************************************************************************)

\* ROOT is an id and NoNode is not.
LEMMA IdFacts == ROOT \in Ids /\ NoNode \notin Ids /\ ROOT # NoNode
  BY MaxIdAssumption DEF ROOT, Ids, NoNode

\* The two trees the session starts from are trees.
LEMMA InitialTrees == NoTree \in Trees /\ FreshTree \in Trees
  BY IdFacts DEF NoTree, FreshTree, Trees, NodeRecord, Absent, Status,
                 OpenStatus, ClosedStatus

\* The fresh tree has a pending ROOT and nothing else; no tree has no node.
LEMMA InitialStatuses ==
  /\ \A n \in Ids : NoTree[n].status = "absent"
  /\ FreshTree[ROOT].status = "pending"
  /\ \A n \in Ids \ {ROOT} : FreshTree[n].status = "absent"
  BY IdFacts DEF NoTree, FreshTree, Absent

\* _observe returns only nodes that are pending or running.
LEMMA ObservedIsOpen ==
  ASSUME NEW t \in Trees, NEW n \in Observed(t)
  PROVE  n \in Ids /\ t[n].status \in OpenStatus
  BY IdFacts DEF Observed, PendingLeaves, StaleLeaves, LeavesWith, First,
                 Present, OpenStatus

\* A mutation of a tree is a tree, and touches the status of one node only.
LEMMA SetStatusFacts ==
  ASSUME NEW t \in Trees, NEW n \in Ids, NEW s \in Status
  PROVE  /\ SetStatus(t, n, s) \in Trees
         /\ \A m \in Ids :
              SetStatus(t, n, s)[m].status = IF m = n THEN s ELSE t[m].status
  BY DEF SetStatus, Trees, NodeRecord

\* Attaching references leaves every status alone.
LEMMA SetRefsFacts ==
  ASSUME NEW t \in Trees, NEW n \in Ids
  PROVE  /\ SetRefs(t, n) \in Trees
         /\ \A m \in Ids : SetRefs(t, n)[m].status = t[m].status
  BY DEF SetRefs, Trees, NodeRecord

\* An added node has the status it was added with; no other status changes.
LEMMA AddNodeFacts ==
  ASSUME NEW t \in Trees, NEW n \in Ids, NEW p \in Ids, NEW s \in Status
  PROVE  /\ AddNode(t, n, p, s) \in Trees
         /\ \A m \in Ids :
              AddNode(t, n, p, s)[m].status = IF m = n THEN s ELSE t[m].status
  BY DEF AddNode, Trees, NodeRecord

\* The file after the executor has added a node.
LEMMA AddedStatus ==
  ASSUME mem \in Trees, NEW n \in Ids, NEW p \in Ids, NEW s \in {"pending", "done"},
         ExecutorAddsNode(n, p, s)
  PROVE  /\ mem' \in Trees
         /\ mem' = disk'
         /\ \A m \in Ids : disk'[m].status = IF m = n THEN s ELSE mem[m].status
<1>1. s \in Status
  BY DEF Status, OpenStatus, ClosedStatus
<1> QED
  BY <1>1, AddNodeFacts DEF ExecutorAddsNode, SaveTree

\* The file after the executor has settled a node.
LEMMA SettledStatus ==
  ASSUME mem \in Trees, NEW n \in Ids, NEW s \in {"done", "accepted", "pruned"},
         ExecutorSettlesNode(n, s)
  PROVE  /\ mem' \in Trees
         /\ mem' = disk'
         /\ \A m \in Ids : disk'[m].status = IF m = n THEN s ELSE mem[m].status
<1>1. s \in Status
  BY DEF Status, ClosedStatus
<1> QED
  BY <1>1, SetStatusFacts DEF ExecutorSettlesNode, SaveTree

-----------------------------------------------------------------------------
(***************************************************************************)
(* Type correctness                                                        *)
(***************************************************************************)

\* The empty directory, with no process, is well typed.
LEMMA TypeInit == Init => TypeOK
  BY IdFacts, InitialTrees
  DEF Init, TypeOK, Busy, NoCursor, Cursor, NoResult, Result

\* Every step of the loop, the executor, a resume or a crash keeps the types.
LEMMA TypeStep ==
  ASSUME TypeOK, [Next]_vars
  PROVE  TypeOK'
<1> USE DEF TypeOK, Live, Busy
<1>1. CASE CreateTree
  BY <1>1, InitialTrees DEF CreateTree, SaveTree, history
<1>2. CASE CreateCursor
  BY <1>2 DEF CreateCursor, SaveCursor, Cursor, history
<1>3. CASE Resume
  BY <1>3 DEF Resume, history
<1>4. CASE ResumeWithoutEffect
  BY <1>4 DEF ResumeWithoutEffect, vars
<1>5. CASE Dispatch
  <2>1. PICK n \in Observed(mem) :
           /\ SaveTree(SetStatus(mem, n, "running"))
           /\ node' = n
           /\ attempts' = [attempts EXCEPT ![n] = @ + 1]
    BY <1>5 DEF Dispatch
  <2>2. n \in Ids /\ SetStatus(mem, n, "running") \in Trees
    BY ObservedIsOpen, SetStatusFacts DEF Status, OpenStatus
  <2>3. QED
    BY <1>5, <2>1, <2>2 DEF Dispatch, SaveTree
<1>6. CASE Complete
  BY <1>6, InitialTrees
  DEF Complete, ProcessEnds, NoCursor, Cursor, NoResult, Result, history
<1>7. ASSUME NEW n \in Ids, NEW p \in Ids, NEW s \in {"pending", "done"},
             ExecutorAddsNode(n, p, s)
      PROVE  TypeOK'
  <2>1. mem' \in Trees /\ mem' = disk'
    BY <1>7, AddedStatus
  <2>2. QED
    BY <1>7, <2>1 DEF ExecutorAddsNode, process, history
<1>8. ASSUME NEW n \in Ids, NEW s \in {"done", "accepted", "pruned"},
             ExecutorSettlesNode(n, s)
      PROVE  TypeOK'
  <2>1. mem' \in Trees /\ mem' = disk'
    BY <1>8, SettledStatus
  <2>2. QED
    BY <1>8, <2>1 DEF ExecutorSettlesNode, process, history
<1>9. CASE ExecutorAdvances
  BY <1>9 DEF ExecutorAdvances, SaveCursor, Advanced, Cursor, process
<1>10. CASE \E r \in Result : ExecutorReturns(r)
  BY <1>10 DEF ExecutorReturns, history
<1>11. CASE RecordOutcome
  <2>1. SetStatus(mem, node, OutcomeOf(result)) \in Trees
    BY <1>11, SetStatusFacts DEF RecordOutcome, OutcomeOf, Status, ClosedStatus
  <2>2. QED
    BY <1>11, <2>1 DEF RecordOutcome, SaveTree
<1>12. CASE RecordRefs
  <2>1. SetRefs(mem, node) \in Trees
    BY <1>12, SetRefsFacts DEF RecordRefs
  <2>2. QED
    BY <1>12, <2>1 DEF RecordRefs, SaveTree, history
<1>13. CASE Advance
  BY <1>13 DEF Advance, SaveCursor, Advanced, Cursor, NoResult, Result, history
<1>14. CASE Crash
  BY <1>14, InitialTrees
  DEF Crash, ProcessEnds, NoCursor, Cursor, NoResult, Result
<1>15. CASE UNCHANGED vars
  BY <1>15 DEF vars
<1> QED
  BY <1>1, <1>2, <1>3, <1>4, <1>5, <1>6, <1>7, <1>8, <1>9, <1>10, <1>11,
     <1>12, <1>13, <1>14, <1>15 DEF Next, LoopStep, ExecutorStep

\* Every variable keeps its type, for every tree size and every bound.
THEOREM TypeCorrect == Spec => []TypeOK
<1>1. TypeOK /\ [Next]_vars => TypeOK'
  BY TypeStep
<1> QED
  BY TypeInit, <1>1, PTL DEF Spec

-----------------------------------------------------------------------------
(***************************************************************************)
(* The inductive invariant                                                 *)
(***************************************************************************)

\* The inductive invariant holds before the run is created.
LEMMA IInvInit == Init => IInv
<1> SUFFICES ASSUME Init PROVE IInv
  OBVIOUS
<1>1. TypeOK
  BY TypeInit
<1>2. \A n \in Ids : disk[n].status = "absent"
  BY DEF Init, NoTree, Absent
<1>3. FilesInStep
  BY DEF Init, FilesInStep, Live, Busy, NoCursor
<1>4. AttemptsAccounted
  BY <1>2 DEF Init, AttemptsAccounted
<1>5. CountersAccounted
  BY BudgetAssumption DEF Init, CountersAccounted, Busy, Uncounted, NoCursor
<1>6. WorkClosed
  BY DEF Init, WorkClosed
<1> QED
  BY <1>1, <1>3, <1>4, <1>5, <1>6 DEF IInv

\* One more crash raises the budget of the run by one invocation.
LEMMA BudgetDistributes ==
  ASSUME NEW b \in Nat, NEW c \in Nat
  PROVE  /\ b * (c + 1) = b * c + b
         /\ b * (1 + c) = b * c + b
         /\ b * c \in Nat
  OBVIOUS

\* Every step keeps the memory of a live process in step with its files.
LEMMA FilesStep ==
  ASSUME IInv, [Next]_vars
  PROVE  FilesInStep'
<1> USE DEF IInv, FilesInStep, Live, Busy
<1>1. CASE CreateTree
  BY <1>1, InitialStatuses, IdFacts DEF CreateTree, SaveTree
<1>2. CASE CreateCursor
  BY <1>2 DEF CreateCursor, SaveCursor
<1>3. CASE Resume
  BY <1>3 DEF Resume, NoCursor
<1>4. CASE ResumeWithoutEffect
  BY <1>4 DEF ResumeWithoutEffect, vars
<1>5. CASE Dispatch
  <2>1. PICK n \in Observed(mem) : SaveTree(SetStatus(mem, n, "running"))
    BY <1>5 DEF Dispatch
  <2>2. SetStatus(mem, n, "running")[ROOT].status =
          IF ROOT = n THEN "running" ELSE mem[ROOT].status
    BY ObservedIsOpen, SetStatusFacts, IdFacts DEF TypeOK, Status, OpenStatus
  <2>3. QED
    BY <1>5, <2>1, <2>2 DEF Dispatch, SaveTree
<1>6. CASE Complete
  BY <1>6 DEF Complete, ProcessEnds, NoCursor
<1>7. ASSUME NEW n \in Ids, NEW p \in Ids, NEW s \in {"pending", "done"},
             ExecutorAddsNode(n, p, s)
      PROVE  FilesInStep'
  <2>0. mem \in Trees
    BY DEF TypeOK
  <2>1. disk'[ROOT].status = IF ROOT = n THEN s ELSE mem[ROOT].status
    BY <1>7, <2>0, AddedStatus, IdFacts
  <2>2. QED
    BY <1>7, <2>1 DEF ExecutorAddsNode, SaveTree, process
<1>8. ASSUME NEW n \in Ids, NEW s \in {"done", "accepted", "pruned"},
             ExecutorSettlesNode(n, s)
      PROVE  FilesInStep'
  <2>0. mem \in Trees
    BY DEF TypeOK
  <2>1. disk'[ROOT].status = IF ROOT = n THEN s ELSE mem[ROOT].status
    BY <1>8, <2>0, SettledStatus, IdFacts
  <2>2. QED
    BY <1>8, <2>1 DEF ExecutorSettlesNode, SaveTree, process
<1>9. CASE ExecutorAdvances
  BY <1>9 DEF ExecutorAdvances, SaveCursor, Advanced, process
<1>10. CASE \E r \in Result : ExecutorReturns(r)
  BY <1>10 DEF ExecutorReturns
<1>11. CASE RecordOutcome
  <2>1. SetStatus(mem, node, OutcomeOf(result))[ROOT].status # "absent"
    BY <1>11, SetStatusFacts, IdFacts
    DEF RecordOutcome, OutcomeOf, TypeOK, Status, ClosedStatus
  <2>2. QED
    BY <1>11, <2>1 DEF RecordOutcome, SaveTree
<1>12. CASE RecordRefs
  <2>1. SetRefs(mem, node)[ROOT].status # "absent"
    BY <1>12, SetRefsFacts, IdFacts DEF RecordRefs, TypeOK
  <2>2. QED
    BY <1>12, <2>1 DEF RecordRefs, SaveTree
<1>13. CASE Advance
  BY <1>13 DEF Advance, SaveCursor, Advanced
<1>14. CASE Crash
  BY <1>14 DEF Crash, ProcessEnds
<1>15. CASE UNCHANGED vars
  BY <1>15 DEF vars
<1> QED
  BY <1>1, <1>2, <1>3, <1>4, <1>5, <1>6, <1>7, <1>8, <1>9, <1>10, <1>11,
     <1>12, <1>13, <1>14, <1>15 DEF Next, LoopStep, ExecutorStep

\* Every step keeps dispatches accounted for by crashes: what is running on
\* disk is in the executor's hands or was paid for with a crash.
LEMMA AttemptsStep ==
  ASSUME IInv, [Next]_vars
  PROVE  AttemptsAccounted'
<1> USE DEF IInv, AttemptsAccounted, FilesInStep, TypeOK, Live, Busy
<1>1. CASE CreateTree
  BY <1>1, InitialStatuses, IdFacts DEF CreateTree, SaveTree, history
<1>2. CASE CreateCursor
  BY <1>2 DEF CreateCursor, history
<1>3. CASE Resume
  BY <1>3 DEF Resume, history
<1>4. CASE ResumeWithoutEffect
  BY <1>4 DEF ResumeWithoutEffect, vars
<1>5. CASE Dispatch
  <2>1. PICK n \in Observed(mem) :
           /\ SaveTree(SetStatus(mem, n, "running"))
           /\ node' = n
           /\ attempts' = [attempts EXCEPT ![n] = @ + 1]
    BY <1>5 DEF Dispatch
  <2>2. n \in Ids /\ disk[n].status \in OpenStatus
    BY <1>5, ObservedIsOpen DEF Dispatch
  <2>3. \A m \in Ids : disk'[m].status = IF m = n THEN "running" ELSE disk[m].status
    <3>1. \A m \in Ids : SetStatus(mem, n, "running")[m].status =
                           IF m = n THEN "running" ELSE mem[m].status
      BY <2>2, SetStatusFacts DEF Status, OpenStatus
    <3>2. QED
      BY <1>5, <2>1, <3>1 DEF Dispatch, SaveTree
  <2>4. attempts[n] <= crashes
    BY <1>5, <2>2 DEF Dispatch, OpenStatus
  <2>5. \A m \in Ids : attempts'[m] = IF m = n THEN attempts[m] + 1 ELSE attempts[m]
    BY <2>1, <2>2
  <2>6. crashes' = crashes /\ pc' = "execute" /\ node' = n
    BY <1>5, <2>1 DEF Dispatch
  <2>7. \A m \in Ids : m # n => ~(pc \in {"execute", "record"} /\ m = node)
    BY <1>5 DEF Dispatch
  <2>8. disk'[node'].status = "running"
    BY <2>2, <2>3, <2>6
  <2>9. ASSUME NEW m \in Ids, m # n
        PROVE  /\ attempts'[m] <= 1 + crashes'
               /\ disk'[m].status \in {"absent", "pending"} => attempts'[m] = 0
               /\ disk'[m].status = "running" => attempts'[m] <= crashes'
    BY <2>3, <2>5, <2>6, <2>7, <2>9
  <2>10. attempts'[n] <= 1 + crashes' /\ disk'[n].status = "running"
    BY <2>2, <2>3, <2>4, <2>5, <2>6
  <2>11. QED
    BY <2>6, <2>8, <2>9, <2>10
<1>6. CASE Complete
  BY <1>6 DEF Complete, ProcessEnds, history
<1>7. ASSUME NEW n \in Ids, NEW p \in Ids, NEW s \in {"pending", "done"},
             ExecutorAddsNode(n, p, s)
      PROVE  AttemptsAccounted'
  <2>1. \A m \in Ids : disk'[m].status = IF m = n THEN s ELSE disk[m].status
    <3>1. \A m \in Ids : disk'[m].status = IF m = n THEN s ELSE mem[m].status
      BY <1>7, AddedStatus
    <3>2. QED
      BY <1>7, <3>1 DEF ExecutorAddsNode
  <2>2. disk[n].status = "absent"
    BY <1>7 DEF ExecutorAddsNode, Present
  <2>3. QED
    BY <1>7, <2>1, <2>2 DEF ExecutorAddsNode, process, history
<1>8. ASSUME NEW n \in Ids, NEW s \in {"done", "accepted", "pruned"},
             ExecutorSettlesNode(n, s)
      PROVE  AttemptsAccounted'
  <2>1. \A m \in Ids : disk'[m].status = IF m = n THEN s ELSE disk[m].status
    <3>1. \A m \in Ids : disk'[m].status = IF m = n THEN s ELSE mem[m].status
      BY <1>8, SettledStatus
    <3>2. QED
      BY <1>8, <3>1 DEF ExecutorSettlesNode
  <2>2. n # node
    BY <1>8 DEF ExecutorSettlesNode
  <2>3. QED
    BY <1>8, <2>1, <2>2 DEF ExecutorSettlesNode, process, history
<1>9. CASE ExecutorAdvances
  BY <1>9 DEF ExecutorAdvances, process
<1>10. CASE \E r \in Result : ExecutorReturns(r)
  BY <1>10 DEF ExecutorReturns, history
<1>11. CASE RecordOutcome
  <2>1. \A m \in Ids : disk'[m].status =
                        IF m = node THEN OutcomeOf(result) ELSE disk[m].status
    BY <1>11, SetStatusFacts
    DEF RecordOutcome, OutcomeOf, SaveTree, Status, ClosedStatus
  <2>2. OutcomeOf(result) \in {"done", "needs_retry"}
    BY DEF OutcomeOf
  <2>3. QED
    BY <1>11, <2>1, <2>2 DEF RecordOutcome
<1>12. CASE RecordRefs
  <2>1. \A m \in Ids : disk'[m].status = disk[m].status
    BY <1>12, SetRefsFacts DEF RecordRefs, SaveTree
  <2>2. QED
    BY <1>12, <2>1 DEF RecordRefs, history
<1>13. CASE Advance
  BY <1>13 DEF Advance, history
<1>14. CASE Crash
  BY <1>14 DEF Crash, ProcessEnds
<1>15. CASE UNCHANGED vars
  BY <1>15 DEF vars
<1> QED
  BY <1>1, <1>2, <1>3, <1>4, <1>5, <1>6, <1>7, <1>8, <1>9, <1>10, <1>11,
     <1>12, <1>13, <1>14, <1>15 DEF Next, LoopStep, ExecutorStep

\* Every step keeps the cursor, the recorded results and the budget in balance.
LEMMA CountersStep ==
  ASSUME IInv, [Next]_vars
  PROVE  CountersAccounted'
<1> USE BudgetAssumption
    DEF IInv, CountersAccounted, FilesInStep, TypeOK, Live, Busy, Uncounted, Cursor
<1> DEFINE spent == StepBudget * crashes
<1>0. /\ spent \in Nat
      /\ crashes' = crashes => StepBudget * crashes' = spent
      /\ crashes' = crashes + 1 => StepBudget * crashes' = spent + StepBudget
  BY BudgetDistributes
<1> HIDE DEF spent
<1>a. /\ pc # "down" => recorded <= spent + steps + Uncounted
      /\ pc = "down" /\ run.status # "done" => recorded <= spent
      /\ recorded <= spent + StepBudget
  BY DEF spent
<1>1. CASE CreateTree
  <2>1. run = NoCursor
    BY <1>1, InitialStatuses, IdFacts DEF CreateTree
  <2>2. QED
    BY <1>0, <1>a, <1>1, <2>1 DEF CreateTree, NoCursor, history
<1>2. CASE CreateCursor
  BY <1>0, <1>a, <1>2 DEF CreateCursor, SaveCursor, NoCursor, history
<1>3. CASE Resume
  BY <1>0, <1>a, <1>3 DEF Resume, history
<1>4. CASE ResumeWithoutEffect
  BY <1>4 DEF ResumeWithoutEffect, vars
<1>5. CASE Dispatch
  BY <1>0, <1>a, <1>5 DEF Dispatch
<1>6. CASE Complete
  BY <1>0, <1>a, <1>6 DEF Complete, ProcessEnds, history
<1>7. ASSUME NEW n \in Ids, NEW p \in Ids, NEW s \in {"pending", "done"},
             ExecutorAddsNode(n, p, s)
      PROVE  CountersAccounted'
  BY <1>0, <1>a, <1>7 DEF ExecutorAddsNode, process, history
<1>8. ASSUME NEW n \in Ids, NEW s \in {"done", "accepted", "pruned"},
             ExecutorSettlesNode(n, s)
      PROVE  CountersAccounted'
  BY <1>0, <1>a, <1>8 DEF ExecutorSettlesNode, process, history
<1>9. CASE ExecutorAdvances
  BY <1>0, <1>a, <1>9 DEF ExecutorAdvances, SaveCursor, Advanced, process
<1>10. CASE \E r \in Result : ExecutorReturns(r)
  BY <1>0, <1>a, <1>10 DEF ExecutorReturns, history
<1>11. CASE RecordOutcome
  BY <1>0, <1>a, <1>11 DEF RecordOutcome
<1>12. CASE RecordRefs
  BY <1>0, <1>a, <1>12 DEF RecordRefs, history
<1>13. CASE Advance
  BY <1>0, <1>a, <1>13 DEF Advance, SaveCursor, Advanced, history
<1>14. CASE Crash
  BY <1>0, <1>a, <1>14 DEF Crash, ProcessEnds
<1>15. CASE UNCHANGED vars
  BY <1>15 DEF vars
<1> QED
  BY <1>1, <1>2, <1>3, <1>4, <1>5, <1>6, <1>7, <1>8, <1>9, <1>10, <1>11,
     <1>12, <1>13, <1>14, <1>15 DEF Next, LoopStep, ExecutorStep

\* Every step keeps a closed node behind each step this process counted.
LEMMA WorkClosedStep ==
  ASSUME IInv, [Next]_vars
  PROVE  WorkClosed'
<1> USE BudgetAssumption
    DEF IInv, WorkClosed, FilesInStep, TypeOK, Live, Busy, Uncounted
<1>1. CASE CreateTree \/ CreateCursor \/ Resume \/ Complete \/ Crash
  <2>1. pc' = "down" \/ (pc' \in {"create", "observe"} /\ steps' = 0)
    BY <1>1 DEF CreateTree, CreateCursor, Resume, Complete, Crash, ProcessEnds,
                CountersAccounted
  <2>2. QED
    BY <2>1
<1>4. CASE ResumeWithoutEffect
  BY <1>4 DEF ResumeWithoutEffect, vars
<1>5. CASE Dispatch
  <2>1. PICK n \in Observed(mem) : SaveTree(SetStatus(mem, n, "running"))
    BY <1>5 DEF Dispatch
  <2>2. n \in Ids /\ disk[n].status \in OpenStatus
    BY <1>5, ObservedIsOpen DEF Dispatch
  <2>3. \A m \in Ids : SetStatus(mem, n, "running")[m].status =
                         IF m = n THEN "running" ELSE mem[m].status
    BY <2>2, SetStatusFacts DEF Status, OpenStatus
  <2>4. \A m \in Ids : disk[m].status \in ClosedStatus =>
                         disk'[m].status \in ClosedStatus
    BY <1>5, <2>1, <2>2, <2>3 DEF Dispatch, SaveTree, OpenStatus, ClosedStatus
  <2>5. QED
    BY <1>5, <2>4 DEF Dispatch
<1>7. ASSUME NEW n \in Ids, NEW p \in Ids, NEW s \in {"pending", "done"},
             ExecutorAddsNode(n, p, s)
      PROVE  WorkClosed'
  <2>1. \A m \in Ids : disk'[m].status = IF m = n THEN s ELSE mem[m].status
    BY <1>7, AddedStatus
  <2>2. disk[n].status = "absent"
    BY <1>7 DEF ExecutorAddsNode, Present
  <2>3. \A m \in Ids : disk[m].status \in ClosedStatus =>
                         disk'[m].status \in ClosedStatus
    BY <1>7, <2>1, <2>2 DEF ExecutorAddsNode, ClosedStatus
  <2>4. QED
    BY <1>7, <2>3 DEF ExecutorAddsNode, process
<1>8. ASSUME NEW n \in Ids, NEW s \in {"done", "accepted", "pruned"},
             ExecutorSettlesNode(n, s)
      PROVE  WorkClosed'
  <2>1. \A m \in Ids : disk'[m].status = IF m = n THEN s ELSE mem[m].status
    BY <1>8, SettledStatus
  <2>2. disk'[n].status \in ClosedStatus
    BY <2>1 DEF ClosedStatus
  <2>3. QED
    BY <2>2
<1>9. CASE ExecutorAdvances
  BY <1>9 DEF ExecutorAdvances, process
<1>10. CASE \E r \in Result : ExecutorReturns(r)
  BY <1>10 DEF ExecutorReturns, history
<1>11. CASE RecordOutcome
  <2>1. SetStatus(mem, node, OutcomeOf(result))[node].status = OutcomeOf(result)
    BY <1>11, SetStatusFacts DEF RecordOutcome, OutcomeOf, Status, ClosedStatus
  <2>2. disk'[node].status \in ClosedStatus /\ node \in Ids
    BY <1>11, <2>1 DEF RecordOutcome, SaveTree, OutcomeOf, ClosedStatus
  <2>3. QED
    BY <2>2
<1>12. CASE RecordRefs
  <2>1. \A m \in Ids : disk'[m].status = disk[m].status
    BY <1>12, SetRefsFacts DEF RecordRefs, SaveTree
  <2>2. QED
    BY <1>12, <2>1 DEF RecordRefs, history
<1>13. CASE Advance
  BY <1>13 DEF Advance, history
<1>15. CASE UNCHANGED vars
  BY <1>15 DEF vars
<1> QED
  BY <1>1, <1>4, <1>5, <1>7, <1>8, <1>9, <1>10, <1>11,
     <1>12, <1>13, <1>15 DEF Next, LoopStep, ExecutorStep

\* The invariant holds in every reachable state.  AttemptsBounded alone is not
\* inductive: it needs to know that what resume finds running on disk cost a
\* crash; and CursorTracksTree needs the two files of a live process in step.
THEOREM Invariance == Spec => []IInv
<1>1. IInv /\ [Next]_vars => IInv'
  BY TypeStep, FilesStep, AttemptsStep, CountersStep, WorkClosedStep DEF IInv
<1> QED
  BY IInvInit, <1>1, PTL DEF Spec

\* No node is dispatched more often than once plus once per crash.
THEOREM AttemptsAreBounded == Spec => []AttemptsBounded
<1>1. IInv => AttemptsBounded
  BY DEF IInv, AttemptsAccounted, AttemptsBounded
<1> QED
  BY Invariance, <1>1, PTL

\* run.json and idea_tree.json drift apart by one step per crash at most.
THEOREM CursorTracks == Spec => []CursorTracksTree
<1>1. IInv => CursorTracksTree
  BY DEF IInv, CountersAccounted, CursorTracksTree, Uncounted, TypeOK, Cursor
<1> QED
  BY Invariance, <1>1, PTL

\* However often it is resumed, a run records a budget per process at most.
THEOREM BudgetHolds == Spec => []RecordedWithinBudget
<1>1. IInv => RecordedWithinBudget
  BY BudgetAssumption, BudgetDistributes
  DEF IInv, CountersAccounted, RecordedWithinBudget, TypeOK
<1> QED
  BY Invariance, <1>1, PTL

-----------------------------------------------------------------------------
(***************************************************************************)
(* Refinement of RunJournal                                                *)
(***************************************************************************)

\* An empty directory is an empty journal.
LEMMA JournalInit == Init => Journal!Init
<1> SUFFICES ASSUME Init PROVE Journal!Init
  OBVIOUS
<1>1. \A n \in Ids : ItemOf(disk[n].status) = "none"
  BY InitialStatuses DEF Init, ItemOf, OpenStatus
<1>2. [n \in Ids |-> ItemOf(disk[n].status)] = [n \in Ids |-> "none"]
  BY <1>1
<1>3. (run.status = "done") = FALSE
  BY DEF Init, NoCursor
<1> QED
  BY <1>2, <1>3 DEF Journal!Init

\* A mutation that leaves the item of every node as it was is invisible.
LEMMA JournalStutters ==
  ASSUME \A n \in Ids : ItemOf(disk'[n].status) = ItemOf(disk[n].status),
         (run'.status = "done") = (run.status = "done")
  PROVE  UNCHANGED Journal!vars
<1>1. [n \in Ids |-> ItemOf(disk'[n].status)] = [n \in Ids |-> ItemOf(disk[n].status)]
  OBVIOUS
<1> QED
  BY <1>1 DEF Journal!vars

\* A mutation of one node maps to opening it, closing it or neither.
LEMMA JournalMoves ==
  ASSUME NEW n \in Ids, NEW s \in Status,
         \A m \in Ids : disk'[m].status = IF m = n THEN s ELSE disk[m].status,
         run.status # "done", run'.status # "done",
         \/ disk[n].status = "absent" /\ s \in OpenStatus \cup ClosedStatus
         \/ disk[n].status \in OpenStatus /\ s \in OpenStatus \cup ClosedStatus
         \/ disk[n].status \in ClosedStatus /\ s \in ClosedStatus
  PROVE  [Journal!Next]_(Journal!vars)
<1> DEFINE items == [m \in Ids |-> ItemOf(disk[m].status)]
           next == [m \in Ids |-> ItemOf(disk'[m].status)]
<1>1. next = [items EXCEPT ![n] = ItemOf(s)]
  OBVIOUS
<1>2. CASE disk[n].status = "absent" /\ s \in OpenStatus
  <2>1. items[n] = "none" /\ ItemOf(s) = "open"
    BY <1>2 DEF ItemOf, OpenStatus
  <2>2. Journal!Open(n)
    BY <1>1, <2>1 DEF Journal!Open
  <2>3. QED
    BY <2>2 DEF Journal!Next
<1>3. CASE disk[n].status \in {"absent"} \cup OpenStatus /\ s \in ClosedStatus
  <2>1. items[n] # "closed" /\ ItemOf(s) = "closed"
    BY <1>3 DEF ItemOf, OpenStatus, ClosedStatus
  <2>2. Journal!Close(n)
    BY <1>1, <2>1 DEF Journal!Close
  <2>3. QED
    BY <2>2 DEF Journal!Next
<1>4. CASE \/ disk[n].status \in OpenStatus /\ s \in OpenStatus
           \/ disk[n].status \in ClosedStatus /\ s \in ClosedStatus
  <2>1. ItemOf(s) = ItemOf(disk[n].status)
    BY <1>4 DEF ItemOf, OpenStatus, ClosedStatus
  <2>2. \A m \in Ids : ItemOf(disk'[m].status) = ItemOf(disk[m].status)
    BY <2>1
  <2>3. QED
    BY <2>2, JournalStutters
<1> QED
  BY <1>2, <1>3, <1>4

\* Every step of the loop is a step of the journal or changes nothing it shows.
LEMMA JournalStep ==
  ASSUME IInv, [Next]_vars
  PROVE  [Journal!Next]_(Journal!vars)
<1> USE DEF IInv, FilesInStep, TypeOK, Live, Busy
<1>1. CASE CreateTree
  <2>1. run = NoCursor
    BY <1>1, InitialStatuses, IdFacts DEF CreateTree
  <2>2. \A m \in Ids : disk'[m].status = IF m = ROOT THEN "pending" ELSE disk[m].status
    BY <1>1, InitialStatuses DEF CreateTree, SaveTree
  <2>3. disk[ROOT].status = "absent"
    BY <1>1, InitialStatuses, IdFacts DEF CreateTree
  <2>4. run.status # "done" /\ run'.status # "done"
    BY <1>1, <2>1 DEF CreateTree, NoCursor
  <2>5. "pending" \in Status /\ "pending" \in OpenStatus
    BY DEF Status, OpenStatus
  <2>6. QED
    BY <2>2, <2>3, <2>4, <2>5, IdFacts, JournalMoves
<1>2. CASE CreateCursor
  <2>1. disk' = disk /\ run.status # "done" /\ run'.status # "done"
    BY <1>2 DEF CreateCursor, SaveCursor, NoCursor
  <2>2. QED
    BY <2>1, JournalStutters
<1>3. CASE Resume
  BY <1>3, JournalStutters DEF Resume
<1>4. CASE ResumeWithoutEffect
  BY <1>4, JournalStutters DEF ResumeWithoutEffect, vars
<1>5. CASE Dispatch
  <2>1. PICK n \in Observed(mem) : SaveTree(SetStatus(mem, n, "running"))
    BY <1>5 DEF Dispatch
  <2>2. n \in Ids /\ disk[n].status \in OpenStatus
    BY <1>5, ObservedIsOpen DEF Dispatch
  <2>3. "running" \in Status /\ "running" \in OpenStatus
    BY DEF Status, OpenStatus
  <2>4. \A m \in Ids : SetStatus(mem, n, "running")[m].status =
                         IF m = n THEN "running" ELSE mem[m].status
    BY <2>2, <2>3, SetStatusFacts
  <2>5. \A m \in Ids : disk'[m].status = IF m = n THEN "running" ELSE disk[m].status
    BY <1>5, <2>1, <2>4 DEF Dispatch, SaveTree
  <2>6. run.status # "done" /\ run'.status # "done"
    BY <1>5 DEF Dispatch
  <2>7. QED
    BY <2>2, <2>3, <2>5, <2>6, JournalMoves
<1>6. CASE Complete
  <2>1. PICK n \in Ids : disk[n].status \in ClosedStatus
    <3>1. CASE steps >= StepBudget
      BY <1>6, <3>1, BudgetAssumption DEF Complete, WorkClosed
    <3>2. CASE NothingToDo(mem)
      BY <1>6, <3>2, IdFacts
      DEF Complete, NothingToDo, Trees, NodeRecord, Status, NoCursor
    <3>3. QED
      BY <1>6, <3>1, <3>2 DEF Complete
  <2>2. ItemOf(disk[n].status) = "closed"
    BY <2>1 DEF ItemOf, OpenStatus, ClosedStatus
  <2>3. disk' = disk /\ run.status = "running" /\ run'.status = "done"
    BY <1>6 DEF Complete, Cursor
  <2>4. Journal!Complete
    BY <2>2, <2>3 DEF Journal!Complete
  <2>5. QED
    BY <2>4 DEF Journal!Next
<1>7. ASSUME NEW n \in Ids, NEW p \in Ids, NEW s \in {"pending", "done"},
             ExecutorAddsNode(n, p, s)
      PROVE  [Journal!Next]_(Journal!vars)
  <2>1. \A m \in Ids : disk'[m].status = IF m = n THEN s ELSE mem[m].status
    BY <1>7, AddedStatus
  <2>2. disk[n].status = "absent"
    BY <1>7 DEF ExecutorAddsNode, Present
  <2>3. \A m \in Ids : disk'[m].status = IF m = n THEN s ELSE disk[m].status
    BY <1>7, <2>1 DEF ExecutorAddsNode
  <2>4. run.status # "done" /\ run'.status # "done"
    BY <1>7 DEF ExecutorAddsNode
  <2>5. s \in Status /\ s \in OpenStatus \cup ClosedStatus
    BY DEF Status, OpenStatus, ClosedStatus
  <2>6. QED
    BY <2>2, <2>3, <2>4, <2>5, JournalMoves
<1>8. ASSUME NEW n \in Ids, NEW s \in {"done", "accepted", "pruned"},
             ExecutorSettlesNode(n, s)
      PROVE  [Journal!Next]_(Journal!vars)
  <2>1. s \in Status /\ s \in ClosedStatus
    BY DEF Status, ClosedStatus
  <2>2. \A m \in Ids : disk'[m].status = IF m = n THEN s ELSE mem[m].status
    BY <1>8, SettledStatus
  <2>3. \A m \in Ids : disk'[m].status = IF m = n THEN s ELSE disk[m].status
    BY <1>8, <2>2 DEF ExecutorSettlesNode
  <2>4. disk[n].status \in OpenStatus \cup ClosedStatus
    BY <1>8 DEF ExecutorSettlesNode, Present, Trees, NodeRecord, Status
  <2>5. run.status # "done" /\ run'.status # "done"
    BY <1>8 DEF ExecutorSettlesNode
  <2>6. QED
    BY <2>1, <2>3, <2>4, <2>5, JournalMoves
<1>9. CASE ExecutorAdvances
  <2>1. disk' = disk /\ run'.status = run.status
    BY <1>9 DEF ExecutorAdvances, SaveCursor, Advanced, Cursor
  <2>2. QED
    BY <2>1, JournalStutters
<1>10. CASE \E r \in Result : ExecutorReturns(r)
  BY <1>10, JournalStutters DEF ExecutorReturns
<1>11. CASE RecordOutcome
  <2>1. OutcomeOf(result) \in Status /\ OutcomeOf(result) \in ClosedStatus
    BY DEF OutcomeOf, Status, ClosedStatus
  <2>2. node \in Ids /\ disk[node].status \in OpenStatus
    BY <1>11 DEF RecordOutcome, AttemptsAccounted, OpenStatus
  <2>3. \A m \in Ids : SetStatus(mem, node, OutcomeOf(result))[m].status =
                         IF m = node THEN OutcomeOf(result) ELSE mem[m].status
    BY <2>1, <2>2, SetStatusFacts
  <2>4. \A m \in Ids : disk'[m].status =
                         IF m = node THEN OutcomeOf(result) ELSE disk[m].status
    BY <1>11, <2>3 DEF RecordOutcome, SaveTree
  <2>5. run.status # "done" /\ run'.status # "done"
    BY <1>11 DEF RecordOutcome
  <2>6. QED
    BY <2>1, <2>2, <2>4, <2>5, JournalMoves
<1>12. CASE RecordRefs
  <2>1. \A m \in Ids : disk'[m].status = disk[m].status
    BY <1>12, SetRefsFacts DEF RecordRefs, SaveTree
  <2>2. run' = run
    BY <1>12 DEF RecordRefs
  <2>3. QED
    BY <2>1, <2>2, JournalStutters
<1>13. CASE Advance
  <2>1. disk' = disk /\ run'.status = run.status
    BY <1>13 DEF Advance, SaveCursor, Advanced, Cursor
  <2>2. QED
    BY <2>1, JournalStutters
<1>14. CASE Crash
  BY <1>14, JournalStutters DEF Crash
<1>15. CASE UNCHANGED vars
  BY <1>15, JournalStutters DEF vars
<1> QED
  BY <1>1, <1>2, <1>3, <1>4, <1>5, <1>6, <1>7, <1>8, <1>9, <1>10, <1>11,
     <1>12, <1>13, <1>14, <1>15 DEF Next, LoopStep, ExecutorStep

\* The files of a run implement the journal: closed work is never reopened,
\* across crashes and resumes, and a complete run is never touched again.
THEOREM RunDirectoryIsAJournal == Spec => ImplementsJournal
<1>1. IInv /\ [Next]_vars => [Journal!Next]_(Journal!vars)
  BY JournalStep
<1> QED
  BY JournalInit, Invariance, <1>1, PTL DEF Spec, ImplementsJournal, Journal!Spec

-----------------------------------------------------------------------------
(***************************************************************************)
(* What the deaths of a run may cost it: the nodes left running for good,  *)
(* and the references that a recorded outcome never got.                   *)
(*                                                                         *)
(* Either set grows only when a process dies, and then by the node it had  *)
(* in hand.  That is inductive where the properties themselves are not:    *)
(* they also count the node in hand.                                       *)
(***************************************************************************)

InHand(places, n) == pc \in places /\ n = node

\* Found running, by whoever opens the file, and nobody is working on it.
Stranded ==
  {n \in Ids : disk[n].status = "running" /\ ~InHand({"execute", "record"}, n)}

\* Recorded with references that are not in the file, and not about to be.
Dropped == {n \in owed : ~disk[n].refs /\ ~InHand({"refs"}, n)}

\* Only nodes of the tree have a recorded outcome.
OwedPresent == \A n \in owed : disk[n].status # "absent"

LossInv ==
  /\ OwedPresent
  /\ Cardinality(Stranded) <= crashes
  /\ Cardinality(Dropped) <= crashes

-----------------------------------------------------------------------------
(***************************************************************************)
(* Counting ids                                                            *)
(***************************************************************************)

\* A set of ids is finite, and so is what is lost.
LEMMA IdSetsFinite ==
  /\ \A S \in SUBSET Ids : IsFiniteSet(S) /\ Cardinality(S) \in Nat
  /\ Stranded \in SUBSET Ids
  /\ TypeOK => Dropped \in SUBSET Ids
<1>1. IsFiniteSet(Ids)
  BY MaxIdAssumption, FS_Interval DEF Ids
<1>2. \A S \in SUBSET Ids : IsFiniteSet(S)
  BY <1>1, FS_Subset
<1>3. \A S \in SUBSET Ids : Cardinality(S) \in Nat
  BY <1>2, FS_CardinalityType
<1> QED
  BY <1>2, <1>3 DEF Stranded, Dropped, TypeOK

\* A smaller set of ids counts no more.
LEMMA FewerIds ==
  ASSUME NEW S \in SUBSET Ids, NEW T \in SUBSET S
  PROVE  Cardinality(T) <= Cardinality(S)
  BY IdSetsFinite, FS_Subset

\* One more id counts at most one more.
LEMMA OneMoreId ==
  ASSUME NEW S \in SUBSET Ids, NEW n \in Ids, NEW T \in SUBSET (S \cup {n})
  PROVE  Cardinality(T) <= Cardinality(S) + 1
<1>1. IsFiniteSet(S) /\ Cardinality(S) \in Nat
  BY IdSetsFinite
<1>2. Cardinality(S \cup {n}) <= Cardinality(S) + 1
  <2>1. Cardinality(S \cup {n}) = IF n \in S THEN Cardinality(S) ELSE Cardinality(S) + 1
    BY <1>1, FS_AddElement
  <2>2. CASE n \in S
    BY <1>1, <2>1, <2>2
  <2>3. CASE n \notin S
    BY <1>1, <2>1, <2>3
  <2> QED
    BY <2>2, <2>3
<1>3. S \cup {n} \in SUBSET Ids
  OBVIOUS
<1>4. Cardinality(T) <= Cardinality(S \cup {n})
  BY <1>3, FewerIds
<1>5. Cardinality(T) \in Nat /\ Cardinality(S \cup {n}) \in Nat
  BY <1>3, IdSetsFinite
<1> QED
  BY <1>1, <1>2, <1>4, <1>5

-----------------------------------------------------------------------------
(***************************************************************************)
(* Steps                                                                   *)
(***************************************************************************)

\* An added node has no references, and no other node loses or gets any.
LEMMA AddedRefs ==
  ASSUME NEW t \in Trees, NEW n \in Ids, NEW p \in Ids, NEW s \in Status
  PROVE  \A m \in Ids \ {n} : AddNode(t, n, p, s)[m].refs = t[m].refs
  BY DEF AddNode, Trees

\* A change of status leaves the references alone.
LEMMA StatusKeepsRefs ==
  ASSUME NEW t \in Trees, NEW n \in Ids, NEW s \in Status
  PROVE  \A m \in Ids : SetStatus(t, n, s)[m].refs = t[m].refs
  BY DEF SetStatus, Trees, NodeRecord

\* Nothing is lost in the empty directory.
LEMMA LossInit == Init => LossInv
<1> SUFFICES ASSUME Init PROVE LossInv
  OBVIOUS
<1>1. Stranded = {} /\ Dropped = {} /\ OwedPresent
  BY InitialStatuses DEF Init, Stranded, Dropped, OwedPresent
<1> QED
  BY <1>1, FS_EmptySet DEF Init, LossInv

\* No step but a death adds to what is lost.
LEMMA NothingLost ==
  ASSUME IInv, OwedPresent, [Next]_vars, ~Crash
  PROVE  /\ OwedPresent'
         /\ Stranded' \subseteq Stranded
         /\ Dropped' \subseteq Dropped
         /\ crashes' = crashes
<1> USE DEF IInv, TypeOK, FilesInStep, Live, Busy, OwedPresent, Stranded, Dropped, InHand
<1>1. CASE CreateTree
  <2>1. owed = {}
    BY <1>1, InitialStatuses DEF CreateTree
  <2>2. \A n \in Ids : disk'[n].status # "running"
    BY <1>1, InitialStatuses DEF CreateTree, SaveTree
  <2> QED
    BY <1>1, <2>1, <2>2 DEF CreateTree, history
<1>2. CASE CreateCursor
  BY <1>2 DEF CreateCursor, history
<1>3. CASE Resume
  BY <1>3 DEF Resume, history
<1>4. CASE ResumeWithoutEffect
  BY <1>4 DEF ResumeWithoutEffect, vars
<1>5. CASE Dispatch
  <2>1. PICK n \in Observed(mem) : SaveTree(SetStatus(mem, n, "running")) /\ node' = n
    BY <1>5 DEF Dispatch
  <2>2. n \in Ids /\ "running" \in Status
    BY ObservedIsOpen DEF Status, OpenStatus
  <2>3. /\ \A m \in Ids : disk'[m].status = IF m = n THEN "running" ELSE disk[m].status
        /\ \A m \in Ids : disk'[m].refs = disk[m].refs
    BY <1>5, <2>1, <2>2, SetStatusFacts, StatusKeepsRefs DEF Dispatch, SaveTree
  <2>4. pc = "observe" /\ pc' = "execute" /\ owed' = owed /\ crashes' = crashes
    BY <1>5 DEF Dispatch
  <2> QED
    BY <2>1, <2>3, <2>4
<1>6. CASE Complete
  BY <1>6 DEF Complete, ProcessEnds, history
<1>7. ASSUME NEW n \in Ids, NEW p \in Ids, NEW s \in {"pending", "done"},
             ExecutorAddsNode(n, p, s)
      PROVE  /\ OwedPresent'
             /\ Stranded' \subseteq Stranded
             /\ Dropped' \subseteq Dropped
             /\ crashes' = crashes
  <2>1. s \in Status
    BY DEF Status, OpenStatus, ClosedStatus
  <2>2. /\ \A m \in Ids : disk'[m].status = IF m = n THEN s ELSE disk[m].status
        /\ \A m \in Ids \ {n} : disk'[m].refs = disk[m].refs
    <3>1. pc = "execute" /\ mem = disk /\ mem \in Trees /\ disk' = AddNode(mem, n, p, s)
      BY <1>7 DEF ExecutorAddsNode, SaveTree
    <3> HIDE DEF IInv, TypeOK, FilesInStep
    <3>2. \A m \in Ids : AddNode(mem, n, p, s)[m].status =
                            IF m = n THEN s ELSE mem[m].status
      BY <2>1, <3>1, AddNodeFacts
    <3>3. \A m \in Ids \ {n} : AddNode(mem, n, p, s)[m].refs = mem[m].refs
      BY <2>1, <3>1, AddedRefs
    <3> QED
      BY <3>1, <3>2, <3>3
  <2>3. n \notin owed
    BY <1>7 DEF ExecutorAddsNode, Present
  <2>4. UNCHANGED <<pc, node, owed, crashes>>
    BY <1>7 DEF ExecutorAddsNode, process, history
  <2> QED
    BY <2>2, <2>3, <2>4
<1>8. ASSUME NEW n \in Ids, NEW s \in {"done", "accepted", "pruned"},
             ExecutorSettlesNode(n, s)
      PROVE  /\ OwedPresent'
             /\ Stranded' \subseteq Stranded
             /\ Dropped' \subseteq Dropped
             /\ crashes' = crashes
  <2>1. s \in Status
    BY DEF Status, ClosedStatus
  <2>2. /\ \A m \in Ids : disk'[m].status = IF m = n THEN s ELSE disk[m].status
        /\ \A m \in Ids : disk'[m].refs = disk[m].refs
    BY <1>8, <2>1, SetStatusFacts, StatusKeepsRefs DEF ExecutorSettlesNode, SaveTree
  <2>3. UNCHANGED <<pc, node, owed, crashes>>
    BY <1>8 DEF ExecutorSettlesNode, process, history
  <2> QED
    BY <2>2, <2>3
<1>9. CASE ExecutorAdvances
  BY <1>9 DEF ExecutorAdvances, process
<1>10. CASE \E r \in Result : ExecutorReturns(r)
  BY <1>10 DEF ExecutorReturns, history
<1>11. CASE RecordOutcome
  <2>1. OutcomeOf(result) \in Status \ {"running", "absent"}
    BY DEF OutcomeOf, Status, ClosedStatus
  <2>2. /\ \A m \in Ids : disk'[m].status =
                            IF m = node THEN OutcomeOf(result) ELSE disk[m].status
        /\ \A m \in Ids : disk'[m].refs = disk[m].refs
    BY <1>11, <2>1, SetStatusFacts, StatusKeepsRefs DEF RecordOutcome, SaveTree
  <2>3. /\ pc = "record" /\ node' = node /\ crashes' = crashes
        /\ pc' = (IF result.refs THEN "refs" ELSE "advance")
        /\ owed' = (IF result.refs THEN owed \cup {node} ELSE owed)
    BY <1>11 DEF RecordOutcome
  <2>4. OwedPresent'
    BY <2>1, <2>2, <2>3
  <2>5. Stranded' \subseteq Stranded
    BY <2>1, <2>2, <2>3
  <2>6. Dropped' \subseteq Dropped
    BY <2>2, <2>3
  <2> QED
    BY <2>3, <2>4, <2>5, <2>6
<1>12. CASE RecordRefs
  <2>1. \A m \in Ids : disk'[m].status = disk[m].status
    BY <1>12, SetRefsFacts DEF RecordRefs, SaveTree
  <2>2. \A m \in Ids : disk'[m].refs = IF m = node THEN TRUE ELSE disk[m].refs
    BY <1>12 DEF RecordRefs, SaveTree, SetRefs, Trees, NodeRecord
  <2>3. pc = "refs" /\ pc' = "advance" /\ owed' = owed /\ crashes' = crashes
    BY <1>12 DEF RecordRefs, history
  <2> QED
    BY <2>1, <2>2, <2>3
<1>13. CASE Advance
  BY <1>13 DEF Advance, history
<1>14. CASE UNCHANGED vars
  BY <1>14 DEF vars
<1> QED
  BY <1>1, <1>2, <1>3, <1>4, <1>5, <1>6, <1>7, <1>8, <1>9, <1>10, <1>11,
     <1>12, <1>13, <1>14 DEF Next, LoopStep, ExecutorStep

\* A death loses at most the node in hand.
LEMMA DeathLosesOne ==
  ASSUME IInv, OwedPresent, Crash
  PROVE  /\ OwedPresent'
         /\ \E n \in Ids : Stranded' \subseteq Stranded \cup {n}
         /\ \E n \in Ids : Dropped' \subseteq Dropped \cup {n}
         /\ crashes' = crashes + 1
<1> USE DEF IInv, TypeOK, Busy, OwedPresent, Stranded, Dropped, InHand
<1>1. UNCHANGED <<disk, owed>> /\ crashes' = crashes + 1
  BY DEF Crash
<1>2. CASE pc \in Busy
  <2>1. node \in Ids
    BY <1>2
  <2>2. Stranded' \subseteq Stranded \cup {node} /\ Dropped' \subseteq Dropped \cup {node}
    BY <1>1
  <2> QED
    BY <1>1, <2>1, <2>2
<1>3. CASE pc \notin Busy
  <2>1. Stranded' \subseteq Stranded \cup {ROOT} /\ Dropped' \subseteq Dropped \cup {ROOT}
    BY <1>1, <1>3
  <2> QED
    BY <1>1, <2>1, IdFacts
<1> QED
  BY <1>2, <1>3

\* Every step keeps what is lost within the deaths so far.
LEMMA LossStep ==
  ASSUME IInv, LossInv, [Next]_vars
  PROVE  LossInv'
<1>1. /\ crashes \in Nat
      /\ Stranded \in SUBSET Ids /\ Dropped \in SUBSET Ids
      /\ Cardinality(Stranded) \in Nat /\ Cardinality(Dropped) \in Nat
  BY IdSetsFinite DEF IInv, TypeOK
<1>2. CASE ~Crash
  <2>1. /\ OwedPresent' /\ crashes' = crashes
        /\ Stranded' \in SUBSET Stranded /\ Dropped' \in SUBSET Dropped
    BY <1>2, NothingLost DEF LossInv
  <2>2. /\ Cardinality(Stranded') <= Cardinality(Stranded)
        /\ Cardinality(Dropped') <= Cardinality(Dropped)
    BY <1>1, <2>1, FewerIds
  <2>3. Cardinality(Stranded') \in Nat /\ Cardinality(Dropped') \in Nat
    BY <1>1, <2>1, IdSetsFinite
  <2> QED
    BY <1>1, <2>1, <2>2, <2>3 DEF LossInv
<1>3. CASE Crash
  <2>1. OwedPresent' /\ crashes' = crashes + 1
    BY <1>3, DeathLosesOne DEF LossInv
  <2>2. PICK n \in Ids : Stranded' \subseteq Stranded \cup {n}
    BY <1>3, DeathLosesOne DEF LossInv
  <2>3. PICK m \in Ids : Dropped' \subseteq Dropped \cup {m}
    BY <1>3, DeathLosesOne DEF LossInv
  <2>4. Cardinality(Stranded') <= Cardinality(Stranded) + 1
    BY <1>1, <2>2, OneMoreId
  <2>5. Cardinality(Dropped') <= Cardinality(Dropped) + 1
    BY <1>1, <2>3, OneMoreId
  <2>6. Stranded' \in SUBSET Ids /\ Dropped' \in SUBSET Ids
    BY <1>1, <2>2, <2>3
  <2>7. Cardinality(Stranded') \in Nat /\ Cardinality(Dropped') \in Nat
    BY <2>6, IdSetsFinite
  <2> QED
    BY <1>1, <2>1, <2>4, <2>5, <2>7 DEF LossInv
<1> QED
  BY <1>2, <1>3

\* Every step keeps it.
LEMMA LossHolds == Spec => [](IInv /\ LossInv)
<1>1. Init => IInv /\ LossInv
  BY IInvInit, LossInit
<1>2. IInv /\ LossInv /\ [Next]_vars => LossInv'
  BY LossStep
<1> QED
  BY <1>1, <1>2, Invariance, PTL DEF Spec

-----------------------------------------------------------------------------
\* Whatever is found running in the file is in hand, or was left by a death that
\* left nothing else: the nodes that no resume takes up are no more than that.
THEOREM RunningIsPaidFor == Spec => []RunningCostDeaths
<1>1. IInv /\ LossInv => RunningCostDeaths
  <2> SUFFICES ASSUME IInv, LossInv PROVE RunningCostDeaths
    OBVIOUS
  <2> DEFINE running == {n \in Ids : disk[n].status = "running"}
  <2>1. /\ crashes \in Nat /\ Stranded \in SUBSET Ids /\ running \in SUBSET Ids
        /\ Cardinality(Stranded) \in Nat /\ Cardinality(running) \in Nat
    BY IdSetsFinite DEF IInv, TypeOK
  <2>2. CASE pc \in {"execute", "record"}
    <3>1. node \in Ids
      BY <2>2 DEF IInv, TypeOK, Busy
    <3>2. running \in SUBSET (Stranded \cup {node})
      BY DEF Stranded, InHand
    <3>3. Cardinality(running) <= Cardinality(Stranded) + 1
      BY <2>1, <3>1, <3>2, OneMoreId
    <3>4. Cardinality(running) <= crashes + 1
      BY <2>1, <3>3 DEF LossInv
    <3> QED
      BY <2>2, <3>4 DEF RunningCostDeaths
  <2>3. CASE pc \notin {"execute", "record"}
    <3>1. running = Stranded
      BY <2>3 DEF Stranded, InHand
    <3>2. Cardinality(running) <= crashes + 0
      BY <2>1, <3>1 DEF LossInv
    <3> QED
      BY <2>3, <3>2 DEF RunningCostDeaths
  <2> QED
    BY <2>2, <2>3
<1> QED
  BY <1>1, LossHolds, PTL

\* Each death costs the references of one outcome at most, for any run.
THEOREM RefsLossIsBounded == Spec => []RefsLostOnlyToDeaths
<1>1. IInv /\ LossInv => RefsLostOnlyToDeaths
  <2> SUFFICES ASSUME IInv, LossInv PROVE RefsLostOnlyToDeaths
    OBVIOUS
  <2> DEFINE bare == {n \in owed : ~disk[n].refs}
  <2>1. /\ crashes \in Nat /\ Dropped \in SUBSET Ids /\ bare \in SUBSET Ids
        /\ Cardinality(Dropped) \in Nat /\ Cardinality(bare) \in Nat
    BY IdSetsFinite DEF IInv, TypeOK
  <2>2. CASE pc = "refs"
    <3>1. node \in Ids
      BY <2>2 DEF IInv, TypeOK, Busy
    <3>2. bare \in SUBSET (Dropped \cup {node})
      BY DEF Dropped, InHand
    <3>3. Cardinality(bare) <= Cardinality(Dropped) + 1
      BY <2>1, <3>1, <3>2, OneMoreId
    <3>4. Cardinality(bare) <= crashes + 1
      BY <2>1, <3>3 DEF LossInv
    <3> QED
      BY <2>2, <3>4 DEF RefsLostOnlyToDeaths
  <2>3. CASE pc # "refs"
    <3>1. bare = Dropped
      BY <2>3 DEF Dropped, InHand
    <3>2. Cardinality(bare) <= crashes + 0
      BY <2>1, <3>1 DEF LossInv
    <3> QED
      BY <2>3, <3>2 DEF RefsLostOnlyToDeaths
  <2> QED
    BY <2>2, <2>3
<1> QED
  BY <1>1, LossHolds, PTL
=============================================================================
