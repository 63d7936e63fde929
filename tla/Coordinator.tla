---------------------------- MODULE Coordinator ----------------------------
(***************************************************************************)
(* The observe -> dispatch -> record -> decide loop of engine/coordinator  *)
(* over a RunSession (state/session), driven by the run and resume         *)
(* commands of cli.py, with process crashes between any two file writes.   *)
(*                                                                         *)
(* One process works on a run at a time.  The run directory holds two      *)
(* files, idea_tree.json and run.json, each replaced atomically but never  *)
(* together.  The executor is any code the coordinator awaits: while it    *)
(* runs it may add nodes, settle other nodes and advance the cursor, as    *)
(* HypothesisExecutor, LitMinerExecutor and PlanAssemblerExecutor do.      *)
(***************************************************************************)
EXTENDS IdeaTree, FiniteSets

CONSTANTS
  StepBudget,           \* cfg.engine.step_budget: dispatches per invocation
  MaxCrashes,           \* bound: process deaths in a behaviour
  MaxExtra              \* bound: cursor steps advanced by executors

ASSUME BudgetAssumption == StepBudget \in Nat \ {0}
ASSUME BoundsAssumption == MaxCrashes \in Nat /\ MaxExtra \in Nat

VARIABLES
  pc,                   \* where the process is; "down" when there is none
  mem,                  \* session.tree
  disk,                 \* idea_tree.json
  cursor,               \* session.cursor
  run,                  \* run.json
  node,                 \* the dispatched node, NoNode outside a dispatch
  result,               \* the ExecutorResult in hand
  steps                 \* the local counter of Coordinator.run

\* History of the run across processes; no action's guard reads it.
VARIABLES
  attempts,             \* dispatches of each node
  recorded,             \* results written to idea_tree.json
  extra,                \* cursor steps advanced by executors
  owed,                 \* nodes whose recorded result carried references
  crashes               \* process deaths so far

process == <<pc, node, result, steps>>
files == <<disk, run>>
history == <<attempts, recorded, extra, owed, crashes>>
vars == <<pc, mem, disk, cursor, run, node, result, steps,
          attempts, recorded, extra, owed, crashes>>

-----------------------------------------------------------------------------
Cursor == [status : {"none", "running", "done"}, step : Nat]

\* No run.json on disk, or no session in memory.
NoCursor == [status |-> "none", step |-> 0]

Result == [status : {"done", "bounded_exit", "error"}, refs : BOOLEAN]

\* A coroutine that raises is turned into an error result without references.
NoResult == [status |-> "error", refs |-> FALSE]

\* Inside one pass of the loop, with a dispatched node in hand.
Busy == {"execute", "record", "refs", "advance"}
Live == {"create", "observe"} \cup Busy

TypeOK ==
  /\ pc \in Live \cup {"down"}
  /\ mem \in Trees
  /\ disk \in Trees
  /\ cursor \in Cursor
  /\ run \in Cursor
  /\ node \in (IF pc \in Busy THEN Ids ELSE {NoNode})
  /\ result \in Result
  /\ steps \in Nat
  /\ attempts \in [Ids -> Nat]
  /\ recorded \in Nat
  /\ extra \in Nat
  /\ owed \in SUBSET Ids
  /\ crashes \in Nat

Init ==
  /\ pc = "down"
  /\ mem = NoTree
  /\ disk = NoTree
  /\ cursor = NoCursor
  /\ run = NoCursor
  /\ node = NoNode
  /\ result = NoResult
  /\ steps = 0
  /\ attempts = [n \in Ids |-> 0]
  /\ recorded = 0
  /\ extra = 0
  /\ owed = {}
  /\ crashes = 0

-----------------------------------------------------------------------------
(***************************************************************************)
(* Helpers                                                                 *)
(***************************************************************************)

\* A tree mutation and the save() it ends in.
SaveTree(t) ==
  /\ mem' = t
  /\ disk' = t

\* A cursor mutation and the _write_cursor it ends in.
SaveCursor(c) ==
  /\ cursor' = c
  /\ run' = c

\* advance_step
Advanced(c) == [c EXCEPT !.step = @ + 1]

\* The process is gone and so is all it held in memory.
ProcessEnds ==
  /\ pc' = "down"
  /\ mem' = NoTree
  /\ cursor' = NoCursor
  /\ node' = NoNode
  /\ result' = NoResult
  /\ steps' = 0

\* Fault: _observe also takes up nodes that wait for a retry by hand.
ObservedWithRetries(t) ==
  IF PendingLeaves(t) # {} THEN First(PendingLeaves(t))
  ELSE IF t[ROOT].status = "pending" THEN {ROOT}
  ELSE First(StaleLeaves(t) \cup LeavesWith(t, "needs_retry"))

\* _observe: pending leaves first, then a pending ROOT, then the leaves and
\* the ROOT a dead process left running; among leaves the smallest id.
Observed(t) ==
  IF PendingLeaves(t) # {} THEN First(PendingLeaves(t))
  ELSE IF t[ROOT].status = "pending" THEN {ROOT}
  ELSE IF StaleLeaves(t) # {} THEN First(StaleLeaves(t))
  ELSE {n \in {ROOT} : t[n].status = "running"}

\* _observe returns None.
NothingToDo(t) ==
  /\ PendingLeaves(t) = {}
  /\ StaleLeaves(t) = {}
  /\ t[ROOT].status \notin OpenStatus

\* Fault: the executor's status is written to the node unmapped.
RawOutcomeOf(r) == r.status

\* Fault: the node keeps its status unless the result is "done".
OutcomeIfDone(r) == IF r.status = "done" THEN "done" ELSE "running"

\* _record: any result but "done" leaves the node for a retry by hand.
OutcomeOf(r) == IF r.status = "done" THEN "done" ELSE "needs_retry"

-----------------------------------------------------------------------------
(***************************************************************************)
(* RunSession.create, in the two writes it makes                           *)
(***************************************************************************)
CreateTree ==
  /\ pc = "down"
  /\ disk = NoTree
  /\ SaveTree(FreshTree)
  /\ pc' = "create"
  /\ UNCHANGED <<cursor, run, node, result, steps, history>>

CreateCursor ==
  /\ pc = "create"
  /\ SaveCursor([status |-> "running", step |-> 0])
  /\ pc' = "observe"
  /\ UNCHANGED <<mem, disk, node, result, steps, history>>

\* Fault: resume does not ask whether the run is complete.
ResumeAnyRun ==
  /\ pc = "down"
  /\ disk # NoTree
  /\ run.status # "none"
  /\ mem' = disk
  /\ cursor' = [run EXCEPT !.status = "running"]
  /\ steps' = 0
  /\ pc' = "observe"
  /\ UNCHANGED <<disk, run, node, result, history>>

(***************************************************************************)
(* resume: RunSession.load, then a fresh Coordinator.run.  The command     *)
(* ends without touching the directory when idea_tree.json is missing,     *)
(* when run.json is missing (load raises) and when the run is complete.    *)
(***************************************************************************)
Resume ==
  /\ pc = "down"
  /\ disk # NoTree
  /\ run.status = "running"
  /\ mem' = disk
  /\ cursor' = run
  /\ steps' = 0
  /\ pc' = "observe"
  /\ UNCHANGED <<disk, run, node, result, history>>

ResumeWithoutEffect ==
  /\ pc = "down"
  /\ disk # NoTree
  /\ run.status # "running"
  /\ UNCHANGED vars

(***************************************************************************)
(* Coordinator.run                                                         *)
(***************************************************************************)

\* Observe, mark the node running (saved), build the unit, await the executor.
Dispatch ==
  /\ pc = "observe"
  /\ steps < StepBudget
  /\ \E n \in Observed(mem) :
       /\ SaveTree(SetStatus(mem, n, "running"))
       /\ node' = n
       /\ attempts' = [attempts EXCEPT ![n] = @ + 1]
  /\ pc' = "execute"
  /\ UNCHANGED <<cursor, run, result, steps, recorded, extra, owed, crashes>>

\* Fault: mark_complete does not write run.json.
CompleteInMemory ==
  /\ pc = "observe"
  /\ steps >= StepBudget \/ NothingToDo(mem)
  /\ ProcessEnds
  /\ UNCHANGED <<disk, run, history>>

\* The loop is left, by the budget or for want of work, and the run is marked
\* complete either way; the command then returns.
Complete ==
  /\ pc = "observe"
  /\ steps >= StepBudget \/ NothingToDo(mem)
  /\ run' = [cursor EXCEPT !.status = "done"]
  /\ ProcessEnds
  /\ UNCHANGED <<disk, history>>

\* The executor adds a node below one that is in the tree: work to do, or a
\* record of what is known already, like a fact.
ExecutorAddsNode(n, p, s) ==
  /\ pc = "execute"
  /\ n \notin Present(mem)
  /\ p \in Present(mem)
  /\ SaveTree(AddNode(mem, n, p, s))
  /\ UNCHANGED <<cursor, run, process, history>>

\* The executor settles a node below ROOT other than the dispatched one: a
\* verdict on a hypothesis, or a paper it has finished with.
ExecutorSettlesNode(n, s) ==
  /\ pc = "execute"
  /\ n \in Present(mem) \ {ROOT, node}
  /\ SaveTree(SetStatus(mem, n, s))
  /\ UNCHANGED <<cursor, run, process, history>>

\* The executor calls session.advance_step().
ExecutorAdvances ==
  /\ pc = "execute"
  /\ extra < MaxExtra
  /\ SaveCursor(Advanced(cursor))
  /\ extra' = extra + 1
  /\ UNCHANGED <<mem, disk, process, attempts, recorded, owed, crashes>>

\* The executor returns a result, or raises.
ExecutorReturns(r) ==
  /\ pc = "execute"
  /\ result' = r
  /\ pc' = "record"
  /\ UNCHANGED <<mem, disk, cursor, run, node, steps, history>>

\* _record, first write: update_node(status, insight, score).
RecordOutcome ==
  /\ pc = "record"
  /\ SaveTree(SetStatus(mem, node, OutcomeOf(result)))
  /\ pc' = IF result.refs THEN "refs" ELSE "advance"
  /\ recorded' = recorded + 1
  /\ owed' = IF result.refs THEN owed \cup {node} ELSE owed
  /\ UNCHANGED <<cursor, run, node, result, steps, attempts, extra, crashes>>

\* Fault: the references are set in memory only.
RecordRefsInMemory ==
  /\ pc = "refs"
  /\ mem' = SetRefs(mem, node)
  /\ pc' = "advance"
  /\ UNCHANGED <<disk, cursor, run, node, result, steps, history>>

\* _record, second write: node.refs is set past update_node, then saved.
RecordRefs ==
  /\ pc = "refs"
  /\ SaveTree(SetRefs(mem, node))
  /\ pc' = "advance"
  /\ UNCHANGED <<cursor, run, node, result, steps, history>>

\* Fault: the step is counted in memory only.
AdvanceInMemory ==
  /\ pc = "advance"
  /\ cursor' = Advanced(cursor)
  /\ steps' = steps + 1
  /\ node' = NoNode
  /\ result' = NoResult
  /\ pc' = "observe"
  /\ UNCHANGED <<mem, disk, run, history>>

\* Fault: the loop's own counter stands still.
AdvanceCursorOnly ==
  /\ pc = "advance"
  /\ SaveCursor(Advanced(cursor))
  /\ node' = NoNode
  /\ result' = NoResult
  /\ pc' = "observe"
  /\ UNCHANGED <<mem, disk, steps, history>>

\* steps += 1 and session.advance_step(), then back to the loop's test.
Advance ==
  /\ pc = "advance"
  /\ SaveCursor(Advanced(cursor))
  /\ steps' = steps + 1
  /\ node' = NoNode
  /\ result' = NoResult
  /\ pc' = "observe"
  /\ UNCHANGED <<mem, disk, history>>

\* The process dies between two writes: the files stay, the memory goes.
Crash ==
  /\ pc # "down"
  /\ crashes < MaxCrashes
  /\ crashes' = crashes + 1
  /\ ProcessEnds
  /\ UNCHANGED <<disk, run, attempts, recorded, extra, owed>>

-----------------------------------------------------------------------------
ExecutorStep ==
  \/ \E n, p \in Ids, s \in {"pending", "done"} : ExecutorAddsNode(n, p, s)
  \/ \E n \in Ids, s \in {"done", "accepted", "pruned"} : ExecutorSettlesNode(n, s)
  \/ ExecutorAdvances
  \/ \E r \in Result : ExecutorReturns(r)

LoopStep == Dispatch \/ Complete \/ RecordOutcome \/ RecordRefs \/ Advance

Next ==
  \/ CreateTree
  \/ CreateCursor
  \/ Resume
  \/ ResumeWithoutEffect
  \/ LoopStep
  \/ ExecutorStep
  \/ Crash

Spec == Init /\ [][Next]_vars

(***************************************************************************)
(* The process runs until it ends or dies, the awaited executor returns    *)
(* (its own loop is bounded by max_turns), and an operator resumes a run   *)
(* that was interrupted.                                                   *)
(***************************************************************************)
Fairness ==
  /\ WF_vars(CreateCursor)
  /\ WF_vars(LoopStep)
  /\ WF_vars(\E r \in Result : ExecutorReturns(r))
  /\ WF_vars(Resume)

FairSpec == Spec /\ Fairness

-----------------------------------------------------------------------------
(***************************************************************************)
(* Safety                                                                  *)
(***************************************************************************)

\* A node is dispatched again only if a process died on it: over the whole
\* life of a run, no node is handed to an executor more often than once plus
\* once per crash, whatever statuses resume finds on disk.
AttemptsBounded == \A n \in Ids : attempts[n] <= 1 + crashes

\* A result that is in the tree but not yet counted in run.json.
Uncounted == IF pc \in {"refs", "advance"} THEN 1 ELSE 0

\* The two files never drift apart by more than the crashes between them:
\* run.json counts every recorded result and every executor step, except one
\* per process that died after the tree was saved and before the cursor was.
CursorTracksTree ==
  /\ run.step <= recorded + extra
  /\ recorded + extra <= run.step + crashes + Uncounted

\* The references of an outcome are a second save: each death loses those of
\* one node at most, and no later save loses any.
RefsLostOnlyToDeaths ==
  Cardinality({n \in owed : ~disk[n].refs}) <= crashes + (IF pc = "refs" THEN 1 ELSE 0)

\* A node is found running only because it is in hand or a process died on it, one
\* for each death: so many can be stranded, as inner nodes that _observe passes
\* over for good.
RunningCostDeaths ==
  Cardinality({n \in Ids : disk[n].status = "running"})
    <= crashes + (IF pc \in {"execute", "record"} THEN 1 ELSE 0)

\* Each invocation has a fresh budget, so a run that is resumed after every
\* crash records at most one budget's worth of results per process.
RecordedWithinBudget == recorded <= StepBudget * (1 + crashes)

(***************************************************************************)
(* The run directory implements the journal.                               *)
(***************************************************************************)
ItemOf(s) ==
  CASE s = "absent" -> "none"
    [] s \in OpenStatus -> "open"
    [] OTHER -> "closed"

Journal == INSTANCE RunJournal WITH
             Items <- Ids,
             item <- [n \in Ids |-> ItemOf(disk[n].status)],
             complete <- (run.status = "done")

\* What the files show is a run journal: work is opened once, closed once and
\* never reopened, across crashes and resumes; the run is declared complete
\* only after some work was closed, and a complete run is never touched again.
ImplementsJournal == Journal!Spec

(***************************************************************************)
(* The inductive invariant behind the safety properties                    *)
(***************************************************************************)

\* A live process has in memory what the files hold.
FilesInStep ==
  /\ pc \in Live => mem = disk
  /\ pc \in Live \ {"create"} => cursor = run /\ run.status = "running"
  /\ pc = "create" => run = NoCursor
  /\ pc # "down" \/ run # NoCursor => disk[ROOT].status # "absent"
  /\ run.status = "none" => run = NoCursor

\* The node in the executor's hands is the only one that is running and was
\* not left behind by a crash; a node that was never dispatched is not running.
AttemptsAccounted ==
  /\ pc \in {"execute", "record"} => disk[node].status = "running"
  /\ \A n \in Ids :
       /\ attempts[n] <= 1 + crashes
       /\ disk[n].status \in {"absent", "pending"} => attempts[n] = 0
       /\ disk[n].status = "running" =>
            \/ attempts[n] <= crashes
            \/ pc \in {"execute", "record"} /\ n = node

\* Counters: the cursor, the results in the tree, and the budget.
CountersAccounted ==
  /\ run.step + Uncounted <= recorded + extra
  /\ recorded + extra <= run.step + crashes + Uncounted
  /\ pc \in Busy => steps < StepBudget
  /\ steps <= StepBudget
  /\ pc \in {"down", "create"} => steps = 0
  /\ pc # "down" => recorded <= StepBudget * crashes + steps + Uncounted
  /\ pc = "down" /\ run.status # "done" => recorded <= StepBudget * crashes
  /\ recorded <= StepBudget * crashes + StepBudget
  /\ run.status = "none" => recorded = 0 /\ extra = 0

\* What this process counted as a step closed some node.
WorkClosed ==
  pc # "down" /\ (steps > 0 \/ Uncounted = 1) =>
    \E n \in Ids : disk[n].status \in ClosedStatus

IInv ==
  /\ TypeOK
  /\ FilesInStep
  /\ AttemptsAccounted
  /\ CountersAccounted
  /\ WorkClosed

(***************************************************************************)
(* Liveness                                                                *)
(***************************************************************************)

\* A run that exists ends, however its processes die, provided that they die
\* finitely often and that someone resumes it.
RunCompletes == (run.status = "running") ~> (run.status = "done")

(***************************************************************************)
(* What the code's own texts say and the code does not do                  *)
(***************************************************************************)

\* RunSession.load: once the session was marked complete,
\* get_pending_leaves() returns an empty list.
CompleteMeansNoPendingLeaves == run.status = "done" => PendingLeaves(disk) = {}
=============================================================================
