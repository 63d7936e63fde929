------------------------------ MODULE LitMiner ------------------------------
(***************************************************************************)
(* LitMinerExecutor (literature/executor.py) dispatched by the coordinator *)
(* of module Coordinator over one run: search, skip the papers already     *)
(* seen, extract, verify, and write each verified fact first to the tree   *)
(* and then to the JSON fact store (factbase/persist.py, store.py).        *)
(*                                                                         *)
(* Every action of the miner is a conjunct added to one of the executor    *)
(* actions of Coordinator, or leaves the coordinator's state alone.  What  *)
(* search returns, how many facts a paper yields and whether a fact is     *)
(* verified is chosen freely: the services behind them answer anything.    *)
(*                                                                         *)
(* The node ids the miner builds are numbers in the order of the strings:  *)
(* ROOT, then papers, then topics; facts come last and are never leaves    *)
(* with work to do.                                                        *)
(***************************************************************************)
EXTENDS Coordinator, Sequences, FiniteSets

CONSTANTS
  NumPapers,            \* papers the sources know of
  MaxPapers,            \* max_papers: hits looked at in one dispatch
  MaxFactsPerPaper,     \* max_facts_per_paper of the extractor
  MaxFacts,             \* bound: fact nodes in a behaviour
  MaxFailures           \* bound: dispatches that raise

ASSUME PapersAssumption == NumPapers \in Nat \ {0} /\ MaxPapers \in Nat
ASSUME FactsAssumption == MaxFactsPerPaper \in Nat /\ MaxFacts \in Nat
ASSUME RoomAssumption == 2 * NumPapers + 1 + MaxFacts <= MaxId
ASSUME FailuresAssumption == MaxFailures \in Nat

Papers == 1 .. NumPapers                  \* paper_<external_id>
Topic(n) == n + NumPapers + 1             \* topic_<node id>
Facts == (MaxId - MaxFacts + 1) .. MaxId  \* <paper node id>_<fact_id>

VARIABLES
  stage,                \* where run() is; "idle" outside a dispatch
  queue,                \* hits still to look at, the paper in hand first
  seen,                 \* seen_eids
  left,                 \* facts of the paper in hand still to verify
  fact,                 \* the fact that is in the tree and not yet stored
  records,              \* FactStore._records
  store,                \* the store file
  named                 \* papers whose node has an external_id in its refs

\* History; no guard but the bound on failures reads it.
VARIABLES
  mined,                \* how often a paper was worked through to its end
  failures              \* dispatches that raised

locals == <<stage, queue, seen, left, fact>>
kept == <<records, store, named, mined, failures>>
miner == <<locals, kept>>
minerVars == <<vars, miner>>

-----------------------------------------------------------------------------
Hits == UNION {[1 .. k -> Papers] : k \in 0 .. MaxPapers}

\* The fact nodes of a tree.
FactNodes(t) == Facts \cap Present(t)

MinerTypeOK ==
  /\ TypeOK
  /\ stage \in {"idle", "topic", "search", "paper", "extract", "facts",
                "store", "return"}
  /\ (pc = "execute") <=> (stage # "idle")
  /\ queue \in Seq(Papers)
  /\ stage \in {"extract", "facts", "store"} => queue # <<>>
  /\ seen \subseteq Papers
  /\ left \in Nat
  /\ fact \in (IF stage = "store" THEN Facts ELSE {NoNode})
  /\ records \subseteq Facts
  /\ store \subseteq Facts
  /\ named \subseteq Papers
  /\ mined \in [Papers -> Nat]
  /\ failures \in Nat

LocalsReset ==
  /\ stage' = "idle"
  /\ queue' = <<>>
  /\ seen' = {}
  /\ left' = 0
  /\ fact' = NoNode

MinerInit ==
  /\ Init
  /\ stage = "idle"
  /\ queue = <<>>
  /\ seen = {}
  /\ left = 0
  /\ fact = NoNode
  /\ records = {}
  /\ store = {}
  /\ named = {}
  /\ mined = [p \in Papers |-> 0]
  /\ failures = 0

-----------------------------------------------------------------------------
(***************************************************************************)
(* LitMinerExecutor.run                                                    *)
(***************************************************************************)

\* The topic node below the dispatched node, unless it exists.  A topic
\* beyond the id range is a bound of the model.
AddTopic ==
  /\ stage = "topic"
  /\ Topic(node) \in Ids \ Facts
  /\ \/ ExecutorAddsNode(Topic(node), node, "pending")
     \/ Topic(node) \in Present(mem) /\ UNCHANGED vars
  /\ stage' = "search"
  /\ UNCHANGED <<queue, seen, left, fact, kept>>

\* Fault: every search starts with nothing seen.
SearchAfresh ==
  /\ stage = "search"
  /\ \E hits \in Hits : queue' = hits
  /\ seen' = {}
  /\ stage' = "paper"
  /\ UNCHANGED <<left, fact, kept, vars>>

\* dispatch() merges what the sources return, in their order and with
\* repetitions; then the external ids found in the tree's refs are collected.
Search ==
  /\ stage = "search"
  /\ \E hits \in Hits : queue' = hits
  /\ seen' = named
  /\ stage' = "paper"
  /\ UNCHANGED <<left, fact, kept, vars>>

\* The resume guard.
SkipSeen ==
  /\ stage = "paper"
  /\ queue # <<>>
  /\ Head(queue) \in seen
  /\ queue' = Tail(queue)
  /\ UNCHANGED <<stage, seen, left, fact, kept, vars>>

\* A paper not seen: its node is created, with its external id, unless there
\* is one; then the paper counts as seen.
TakePaper ==
  /\ stage = "paper"
  /\ queue # <<>>
  /\ Head(queue) \notin seen
  /\ \/ /\ ExecutorAddsNode(Head(queue), Topic(node), "pending")
        /\ named' = named \cup {Head(queue)}
     \/ Head(queue) \in Present(mem) /\ UNCHANGED <<vars, named>>
  /\ seen' = seen \cup {Head(queue)}
  /\ stage' = "extract"
  /\ UNCHANGED <<queue, left, fact, records, store, mined, failures>>

\* The extractor answers; an answer that is not JSON counts as no fact.
Extract ==
  /\ stage = "extract"
  /\ \E k \in 0 .. MaxFactsPerPaper : left' = k
  /\ stage' = "facts"
  /\ UNCHANGED <<queue, seen, fact, kept, vars>>

\* JSON of another shape makes the extractor raise, and run() with it.
ExtractRaises ==
  /\ stage = "extract"
  /\ failures < MaxFailures
  /\ failures' = failures + 1
  /\ ExecutorReturns(NoResult)
  /\ LocalsReset
  /\ UNCHANGED <<records, store, named, mined>>

\* One of the four layers does not verify the fact.
RejectFact ==
  /\ stage = "facts"
  /\ left > 0
  /\ left' = left - 1
  /\ UNCHANGED <<stage, queue, seen, fact, kept, vars>>

\* A verified fact: persist_fact adds its node, done, below the paper's node.
PersistFactInTree ==
  /\ stage = "facts"
  /\ left > 0
  /\ \E f \in First(Facts \ Present(mem)) :
       /\ ExecutorAddsNode(f, Head(queue), "done")
       /\ fact' = f
  /\ stage' = "store"
  /\ UNCHANGED <<queue, seen, left, kept>>

\* Fault: the store is not flushed after each fact.
StoreUnflushed ==
  /\ stage = "store"
  /\ records' = records \cup {fact}
  /\ left' = left - 1
  /\ fact' = NoNode
  /\ stage' = "facts"
  /\ UNCHANGED <<queue, seen, store, named, mined, failures, vars>>

\* FactStore.add: the record is appended and the file replaced.
PersistFactInStore ==
  /\ stage = "store"
  /\ records' = records \cup {fact}
  /\ store' = records'
  /\ left' = left - 1
  /\ fact' = NoNode
  /\ stage' = "facts"
  /\ UNCHANGED <<queue, seen, named, mined, failures, vars>>

\* The flush fails after the record was appended; nothing catches it, and the
\* record reaches the file with the next flush of this process.
FlushRaises ==
  /\ stage = "store"
  /\ failures < MaxFailures
  /\ failures' = failures + 1
  /\ records' = records \cup {fact}
  /\ ExecutorReturns(NoResult)
  /\ LocalsReset
  /\ UNCHANGED <<store, named, mined>>

\* Fault: the paper is marked done in memory only.
ClosePaperUnsaved ==
  /\ stage = "facts"
  /\ left = 0
  /\ mem' = SetStatus(mem, Head(queue), "done")
  /\ mined' = [mined EXCEPT ![Head(queue)] = @ + 1]
  /\ queue' = Tail(queue)
  /\ stage' = "paper"
  /\ UNCHANGED <<disk, cursor, run, process, history, seen, left, fact,
                 records, store, named, failures>>

\* Every fact of the paper was looked at: its node is marked done.
ClosePaper ==
  /\ stage = "facts"
  /\ left = 0
  /\ ExecutorSettlesNode(Head(queue), "done")
  /\ mined' = [mined EXCEPT ![Head(queue)] = @ + 1]
  /\ queue' = Tail(queue)
  /\ stage' = "paper"
  /\ UNCHANGED <<seen, left, fact, records, store, named, failures>>

\* All hits looked at: session.advance_step().
AdvanceStep ==
  /\ stage = "paper"
  /\ queue = <<>>
  /\ ExecutorAdvances
  /\ stage' = "return"
  /\ UNCHANGED <<queue, seen, left, fact, kept>>

\* The result is "done" whatever was found, and its refs are never empty.
ReturnDone ==
  /\ stage = "return"
  /\ ExecutorReturns([status |-> "done", refs |-> TRUE])
  /\ LocalsReset
  /\ UNCHANGED kept

-----------------------------------------------------------------------------
(***************************************************************************)
(* The coordinator's steps, seen with the miner's state                    *)
(***************************************************************************)

\* The unit goes to the executor's run().
DispatchMiner ==
  /\ Dispatch
  /\ stage' = "topic"
  /\ UNCHANGED <<queue, seen, left, fact, kept>>

\* _record assigns the result's refs to the node, in place of the refs that
\* were there: a dispatched paper node loses its external id.
RecordRefsOverId ==
  /\ RecordRefs
  /\ named' = named \ {node}
  /\ UNCHANGED <<locals, records, store, mined, failures>>

\* A resumed process constructs the executor, which loads the store file.
ResumeWithStore ==
  /\ Resume
  /\ records' = store
  /\ UNCHANGED <<locals, store, named, mined, failures>>

ProcessGone == Complete \/ Crash

\* With the process go the records that were not flushed.
LoseRecords ==
  /\ ProcessGone
  /\ LocalsReset
  /\ records' = {}
  /\ UNCHANGED <<store, named, mined, failures>>

OtherLoopStep ==
  /\ \/ CreateTree
     \/ CreateCursor
     \/ ResumeWithoutEffect
     \/ RecordOutcome
     \/ Advance
  /\ UNCHANGED miner

MinerStep ==
  \/ AddTopic
  \/ Search
  \/ SkipSeen
  \/ TakePaper
  \/ Extract
  \/ ExtractRaises
  \/ RejectFact
  \/ PersistFactInTree
  \/ PersistFactInStore
  \/ FlushRaises
  \/ ClosePaper
  \/ AdvanceStep
  \/ ReturnDone

MinerNext ==
  \/ MinerStep
  \/ DispatchMiner
  \/ RecordRefsOverId
  \/ ResumeWithStore
  \/ LoseRecords
  \/ OtherLoopStep

MinerSpec == MinerInit /\ [][MinerNext]_minerVars

(***************************************************************************)
(* As in Coordinator, with the executor's fairness replaced by that of its *)
(* own steps: every await in run() is answered.                            *)
(***************************************************************************)
MinerFairness ==
  /\ WF_minerVars(CreateCursor /\ UNCHANGED miner)
  /\ WF_minerVars(DispatchMiner)
  /\ WF_minerVars(RecordRefsOverId)
  /\ WF_minerVars((RecordOutcome \/ Advance) /\ UNCHANGED miner)
  /\ WF_minerVars(Complete /\ LoseRecords)
  /\ WF_minerVars(ResumeWithStore)
  /\ WF_minerVars(MinerStep)

FairMinerSpec == MinerSpec /\ MinerFairness

-----------------------------------------------------------------------------
(***************************************************************************)
(* Properties                                                              *)
(***************************************************************************)

\* The miner is an executor as the coordinator expects one: whatever it does
\* to the tree and the cursor is a step Coordinator allows, so that all that
\* holds of Coordinator holds of a mining run.
ImplementsCoordinator == Spec

\* Tree first, store second: the store holds no fact the tree does not, and
\* the tree holds at most one fact per crash and per failed dispatch that the
\* store does not, besides the one that is being written.
StoreTracksTree ==
  /\ store \subseteq FactNodes(disk)
  /\ Cardinality(FactNodes(disk) \ store) <=
       crashes + failures + (IF stage = "store" THEN 1 ELSE 0)

\* What reached the store file stays there: no flush of a later process, and
\* none after a failed flush, writes less than what is there.
StoredFactsStay == [][store \subseteq store']_minerVars

\* While its node keeps its external id, a paper is worked through at most
\* once, over all dispatches, crashes and resumes of the run.
NamedMinedOnce == \A p \in named : mined[p] <= 1

\* A mining run ends: whatever the sources return, the topics the miner keeps
\* adding do not keep the loop alive beyond its budget.
MiningCompletes == (run.status = "running") ~> (run.status = "done")

\* The docstring of executor.py: any node whose refs["external_id"] is set has
\* already been processed; what the loop skips was worked through.
SkippedWereMined ==
  stage = "paper" /\ queue # <<>> /\ Head(queue) \in seen =>
    mined[Head(queue)] >= 1
=============================================================================
