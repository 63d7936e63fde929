--------------------------- MODULE LitMinerProofs ---------------------------
(***************************************************************************)
(* Proofs about LitMiner, for any number of papers, facts, dispatches,     *)
(* crashes and failures: it implements Coordinator, so that what is proved *)
(* there holds of a mining run; a paper whose node keeps its external id   *)
(* is mined at most once; the fact store never loses an entry; and what it *)
(* misses of the tree is paid for by a death or a failure each.            *)
(***************************************************************************)
EXTENDS LitMiner, CoordinatorProofs, SequenceTheorems

-----------------------------------------------------------------------------
(***************************************************************************)
(* Lemmas                                                                  *)
(***************************************************************************)

\* Papers and facts are node ids, and no paper is ROOT.
LEMMA MinerIds ==
  /\ Papers \subseteq Ids
  /\ Facts \subseteq Ids
  /\ ROOT \notin Papers
  BY MaxIdAssumption, PapersAssumption, FactsAssumption, RoomAssumption
  DEF Papers, Facts, Ids, ROOT

\* Search returns sequences of papers.
LEMMA HitsAreSequences ==
  ASSUME NEW hits \in Hits
  PROVE  hits \in Seq(Papers)
<1>1. PICK k \in 0 .. MaxPapers : hits \in [1 .. k -> Papers]
  BY DEF Hits
<1>2. k \in Nat
  BY PapersAssumption
<1> QED
  BY <1>1, <1>2

\* No node ever leaves the tree.
LEMMA PresenceGrows ==
  ASSUME IInv, [Next]_vars
  PROVE  \A m \in Ids : disk[m].status # "absent" => disk'[m].status # "absent"
<1> USE DEF IInv, FilesInStep, TypeOK, Live, Busy
<1>1. CASE CreateTree
  BY <1>1, InitialStatuses DEF CreateTree
<1>2. CASE \/ CreateCursor \/ Resume \/ ResumeWithoutEffect \/ Complete
           \/ ExecutorAdvances \/ (\E r \in Result : ExecutorReturns(r))
           \/ Advance \/ Crash \/ UNCHANGED vars
  BY <1>2 DEF CreateCursor, Resume, ResumeWithoutEffect, Complete, vars,
              ExecutorAdvances, ExecutorReturns, Advance, Crash
<1>3. CASE Dispatch
  <2>1. PICK n \in Observed(mem) : SaveTree(SetStatus(mem, n, "running"))
    BY <1>3 DEF Dispatch
  <2>2. n \in Ids
    BY ObservedIsOpen
  <2>3. "running" \in Status
    BY DEF Status, OpenStatus
  <2>4. \A m \in Ids : SetStatus(mem, n, "running")[m].status =
                         IF m = n THEN "running" ELSE mem[m].status
    BY <2>2, <2>3, SetStatusFacts
  <2> QED
    BY <1>3, <2>1, <2>4 DEF Dispatch, SaveTree
<1>4. ASSUME NEW n \in Ids, NEW p \in Ids, NEW s \in {"pending", "done"},
             ExecutorAddsNode(n, p, s)
      PROVE  \A m \in Ids : disk[m].status # "absent" => disk'[m].status # "absent"
  <2>1. \A m \in Ids : disk'[m].status = IF m = n THEN s ELSE mem[m].status
    BY <1>4, AddedStatus
  <2> QED
    BY <1>4, <2>1 DEF ExecutorAddsNode
<1>5. ASSUME NEW n \in Ids, NEW s \in {"done", "accepted", "pruned"},
             ExecutorSettlesNode(n, s)
      PROVE  \A m \in Ids : disk[m].status # "absent" => disk'[m].status # "absent"
  <2>1. \A m \in Ids : disk'[m].status = IF m = n THEN s ELSE mem[m].status
    BY <1>5, SettledStatus
  <2> QED
    BY <1>5, <2>1 DEF ExecutorSettlesNode
<1>6. CASE RecordOutcome
  <2>1. OutcomeOf(result) \in Status /\ OutcomeOf(result) # "absent"
    BY DEF OutcomeOf, Status, ClosedStatus
  <2>2. \A m \in Ids : SetStatus(mem, node, OutcomeOf(result))[m].status =
                         IF m = node THEN OutcomeOf(result) ELSE mem[m].status
    BY <1>6, <2>1, SetStatusFacts DEF RecordOutcome
  <2> QED
    BY <1>6, <2>1, <2>2 DEF RecordOutcome, SaveTree
<1>7. CASE RecordRefs
  BY <1>7, SetRefsFacts DEF RecordRefs, SaveTree
<1> QED
  BY <1>1, <1>2, <1>3, <1>4, <1>5, <1>6, <1>7 DEF Next, LoopStep, ExecutorStep

-----------------------------------------------------------------------------
(***************************************************************************)
(* The miner is an executor as the coordinator expects one                 *)
(***************************************************************************)

\* The hits in hand are papers; the stages that have a paper in hand have one.
HitsArePapers ==
  /\ queue \in Seq(Papers)
  /\ stage \in {"extract", "facts", "store"} => queue # <<>>

\* Every step keeps the hits well formed.
LEMMA HitsStep ==
  ASSUME HitsArePapers, [MinerNext]_minerVars
  PROVE  HitsArePapers'
<1> USE DEF HitsArePapers
<1>1. CASE Search
  BY <1>1, HitsAreSequences DEF Search
<1>2. CASE SkipSeen \/ ClosePaper
  <2>1. Tail(queue) \in Seq(Papers)
    BY <1>2, HeadTailProperties DEF SkipSeen, ClosePaper
  <2> QED
    BY <1>2, <2>1 DEF SkipSeen, ClosePaper
<1>3. CASE ExtractRaises \/ FlushRaises \/ ReturnDone \/ LoseRecords
  BY <1>3, EmptySeq
  DEF ExtractRaises, FlushRaises, ReturnDone, LoseRecords, LocalsReset
<1>4. CASE AddTopic \/ TakePaper \/ Extract \/ RejectFact \/ PersistFactInTree
           \/ PersistFactInStore \/ AdvanceStep \/ DispatchMiner
  BY <1>4 DEF AddTopic, TakePaper, Extract, RejectFact, PersistFactInTree,
              PersistFactInStore, AdvanceStep, DispatchMiner
<1>5. CASE RecordRefsOverId \/ ResumeWithStore \/ OtherLoopStep
           \/ UNCHANGED minerVars
  BY <1>5 DEF RecordRefsOverId, ResumeWithStore, OtherLoopStep, minerVars,
              miner, locals
<1> QED
  BY <1>1, <1>2, <1>3, <1>4, <1>5 DEF MinerNext, MinerStep

\* Every step of a mining run is a step of the coordinator or leaves its
\* state alone.
LEMMA CoordinatorStep ==
  ASSUME HitsArePapers, [MinerNext]_minerVars
  PROVE  [Next]_vars
<1> USE DEF Next, ExecutorStep, LoopStep
<1>1. CASE AddTopic
  <2>1. CASE ExecutorAddsNode(Topic(node), node, "pending")
    <3>1. Topic(node) \in Ids /\ node \in Ids
      BY <1>1, <2>1 DEF AddTopic, ExecutorAddsNode, Present
    <3> QED
      BY <2>1, <3>1
  <2> QED
    BY <1>1, <2>1 DEF AddTopic
<1>2. CASE Search \/ SkipSeen \/ Extract \/ RejectFact \/ PersistFactInStore
  BY <1>2 DEF Search, SkipSeen, Extract, RejectFact, PersistFactInStore
<1>3. CASE TakePaper
  <2>1. CASE ExecutorAddsNode(Head(queue), Topic(node), "pending")
    <3>1. Head(queue) \in Papers
      BY <1>3, HeadTailProperties DEF TakePaper, HitsArePapers
    <3>2. Head(queue) \in Ids /\ Topic(node) \in Ids
      BY <2>1, <3>1, MinerIds DEF ExecutorAddsNode, Present
    <3> QED
      BY <2>1, <3>2
  <2> QED
    BY <1>3, <2>1 DEF TakePaper
<1>4. CASE ExtractRaises \/ FlushRaises
  <2>1. NoResult \in Result
    BY DEF NoResult, Result
  <2> QED
    BY <1>4, <2>1 DEF ExtractRaises, FlushRaises
<1>5. CASE PersistFactInTree
  <2>1. PICK f \in First(Facts \ Present(mem)) :
               ExecutorAddsNode(f, Head(queue), "done")
    BY <1>5 DEF PersistFactInTree
  <2>2. f \in Ids /\ Head(queue) \in Ids
    BY <2>1, MinerIds DEF First, ExecutorAddsNode, Present
  <2> QED
    BY <2>1, <2>2
<1>6. CASE ClosePaper
  <2>1. ExecutorSettlesNode(Head(queue), "done") /\ Head(queue) \in Ids
    BY <1>6 DEF ClosePaper, ExecutorSettlesNode, Present
  <2> QED
    BY <2>1
<1>7. CASE AdvanceStep
  BY <1>7 DEF AdvanceStep
<1>8. CASE ReturnDone
  <2>1. [status |-> "done", refs |-> TRUE] \in Result
    BY DEF Result
  <2> QED
    BY <1>8, <2>1 DEF ReturnDone
<1>9. CASE DispatchMiner \/ RecordRefsOverId \/ ResumeWithStore \/ LoseRecords
           \/ OtherLoopStep
  BY <1>9 DEF DispatchMiner, RecordRefsOverId, ResumeWithStore, LoseRecords,
              ProcessGone, OtherLoopStep
<1>10. CASE UNCHANGED minerVars
  BY <1>10 DEF minerVars
<1> QED
  BY <1>1, <1>2, <1>3, <1>4, <1>5, <1>6, <1>7, <1>8, <1>9, <1>10
  DEF MinerNext, MinerStep

\* A run that starts empty has no hits in hand.
LEMMA HitsInit == MinerInit => HitsArePapers
  BY EmptySeq DEF MinerInit, HitsArePapers

\* Whatever the miner does to the tree and the cursor is a step Coordinator
\* allows: all that is proved of Coordinator holds of a mining run.
THEOREM MinerImplementsCoordinator == MinerSpec => ImplementsCoordinator
<1>1. MinerInit => Init
  BY DEF MinerInit
<1>2. HitsArePapers /\ [MinerNext]_minerVars => HitsArePapers'
  BY HitsStep
<1>3. HitsArePapers /\ [MinerNext]_minerVars => [Next]_vars
  BY CoordinatorStep
<1> QED
  BY <1>1, <1>2, <1>3, HitsInit, PTL DEF MinerSpec, ImplementsCoordinator, Spec

\* The coordinator's inductive invariant holds throughout a mining run.
LEMMA CoordinatorInvariance == MinerSpec => []IInv
  BY MinerImplementsCoordinator, Invariance, PTL DEF ImplementsCoordinator

-----------------------------------------------------------------------------
(***************************************************************************)
(* The fact store never loses an entry                                     *)
(***************************************************************************)

\* The miner is at work only while the coordinator awaits it.
StageMatches == stage # "idle" => pc = "execute"

\* A process holds what the store file holds, or more; before the run exists
\* there is no store.
StoreHeld ==
  /\ pc # "down" => store \subseteq records
  /\ disk[ROOT].status = "absent" => store = {}

\* Every step keeps the miner and the coordinator together.
LEMMA StageStep ==
  ASSUME StageMatches, [MinerNext]_minerVars
  PROVE  StageMatches'
<1> USE DEF StageMatches
<1>1. CASE AddTopic \/ TakePaper \/ PersistFactInTree \/ ClosePaper \/ AdvanceStep
  BY <1>1 DEF AddTopic, TakePaper, PersistFactInTree, ClosePaper, AdvanceStep,
              ExecutorAddsNode, ExecutorSettlesNode, ExecutorAdvances, process, vars
<1>2. CASE Search \/ SkipSeen \/ Extract \/ RejectFact \/ PersistFactInStore
  BY <1>2 DEF Search, SkipSeen, Extract, RejectFact, PersistFactInStore, vars
<1>3. CASE ExtractRaises \/ FlushRaises \/ ReturnDone \/ LoseRecords
  BY <1>3 DEF ExtractRaises, FlushRaises, ReturnDone, LoseRecords, LocalsReset
<1>4. CASE DispatchMiner \/ RecordRefsOverId \/ ResumeWithStore \/ OtherLoopStep
  BY <1>4 DEF DispatchMiner, Dispatch, RecordRefsOverId, RecordRefs,
              ResumeWithStore, Resume, OtherLoopStep, CreateTree, CreateCursor,
              ResumeWithoutEffect, RecordOutcome, Advance, miner, locals, vars
<1>5. CASE UNCHANGED minerVars
  BY <1>5 DEF minerVars, miner, locals, vars
<1> QED
  BY <1>1, <1>2, <1>3, <1>4, <1>5 DEF MinerNext, MinerStep

\* Every step keeps the store held, and every write of the file extends it.
LEMMA StoreStep ==
  ASSUME IInv, StageMatches, StoreHeld, [MinerNext]_minerVars, [Next]_vars
  PROVE  StoreHeld' /\ store \subseteq store'
<1> USE DEF StoreHeld
<1>1. disk'[ROOT].status = "absent" => disk[ROOT].status = "absent"
  BY PresenceGrows, IdFacts
<1>2. CASE AddTopic \/ TakePaper \/ PersistFactInTree \/ ClosePaper \/ AdvanceStep
  BY <1>1, <1>2
  DEF AddTopic, TakePaper, PersistFactInTree, ClosePaper, AdvanceStep, kept,
      ExecutorAddsNode, ExecutorSettlesNode, ExecutorAdvances, process, vars
<1>3. CASE Search \/ SkipSeen \/ Extract \/ RejectFact
  BY <1>1, <1>3 DEF Search, SkipSeen, Extract, RejectFact, kept, vars
<1>4. CASE PersistFactInStore
  <2>1. pc = "execute" /\ disk[ROOT].status # "absent"
    BY <1>4 DEF PersistFactInStore, StageMatches, IInv, FilesInStep
  <2> QED
    BY <1>4, <2>1 DEF PersistFactInStore, vars
<1>5. CASE ExtractRaises \/ FlushRaises \/ ReturnDone
  BY <1>1, <1>5
  DEF ExtractRaises, FlushRaises, ReturnDone, ExecutorReturns, kept
<1>6. CASE LoseRecords
  BY <1>1, <1>6
  DEF LoseRecords, ProcessGone, Complete, Crash, ProcessEnds
<1>7. CASE ResumeWithStore
  BY <1>1, <1>7 DEF ResumeWithStore
<1>8. CASE CreateTree /\ UNCHANGED miner
  <2>1. disk[ROOT].status = "absent"
    BY <1>8, InitialStatuses, IdFacts DEF CreateTree
  <2> QED
    BY <1>8, <2>1 DEF miner, kept
<1>9. CASE DispatchMiner \/ RecordRefsOverId
           \/ (OtherLoopStep /\ ~CreateTree)
  BY <1>1, <1>9
  DEF DispatchMiner, Dispatch, RecordRefsOverId, RecordRefs, OtherLoopStep,
      CreateCursor, ResumeWithoutEffect, RecordOutcome, Advance, miner, kept, vars
<1>10. CASE UNCHANGED minerVars
  BY <1>1, <1>10 DEF minerVars, miner, kept, vars
<1> QED
  BY <1>2, <1>3, <1>4, <1>5, <1>6, <1>7, <1>8, <1>9, <1>10
  DEF MinerNext, MinerStep, OtherLoopStep

\* No flush writes less than what the store file holds, whichever processes
\* died and whichever flushes failed before it.
THEOREM StoreNeverShrinks == MinerSpec => StoredFactsStay
<1>1. MinerInit => StageMatches /\ StoreHeld
  BY DEF MinerInit, StageMatches, StoreHeld
<1>2. StageMatches /\ [MinerNext]_minerVars => StageMatches'
  BY StageStep
<1>3. IInv /\ StageMatches /\ StoreHeld /\ [MinerNext]_minerVars /\ [Next]_vars
        => StoreHeld' /\ store \subseteq store'
  BY StoreStep
<1>4. (store \subseteq store') => [store \subseteq store']_minerVars
  OBVIOUS
<1> QED
  BY <1>1, <1>2, <1>3, <1>4, CoordinatorInvariance, MinerImplementsCoordinator, PTL
  DEF MinerSpec, StoredFactsStay, ImplementsCoordinator, Spec

-----------------------------------------------------------------------------
(***************************************************************************)
(* A paper whose node keeps its external id is mined at most once          *)
(***************************************************************************)

\* With a paper in hand.
Mining == {"extract", "facts", "store"}

\* A named paper has a node and was mined at most once; a paper without node
\* was not mined; the paper in hand is in the tree, and not yet mined when it
\* is named; and what is named counts as seen while hits are looked at.
NamedHeld ==
  /\ mined \in [Papers -> Nat]
  /\ named \subseteq Papers
  /\ \A p \in named : disk[p].status # "absent" /\ mined[p] <= 1
  /\ \A p \in Papers : disk[p].status = "absent" => mined[p] = 0
  /\ stage \in Mining \cup {"paper"} => named \subseteq seen
  /\ stage \in Mining =>
       /\ disk[Head(queue)].status # "absent"
       /\ Head(queue) \in named => mined[Head(queue)] = 0

\* Every step keeps that.
LEMMA NamedStep ==
  ASSUME IInv, HitsArePapers, StageMatches, NamedHeld,
         [MinerNext]_minerVars, [Next]_vars
  PROVE  NamedHeld'
<1> USE DEF NamedHeld, Mining
<1>1. \A m \in Ids : disk[m].status # "absent" => disk'[m].status # "absent"
  BY PresenceGrows
<1>2. \A p \in Papers : disk[p].status # "absent" => disk'[p].status # "absent"
  BY <1>1, MinerIds
<1>3. stage \in Mining => Head(queue) \in Papers
  BY HeadTailProperties DEF HitsArePapers
<1>4. CASE AddTopic
  BY <1>2, <1>4 DEF AddTopic, kept
<1>5. CASE Search \/ SkipSeen \/ RejectFact \/ PersistFactInStore \/ Extract
  BY <1>2, <1>3, <1>5 DEF Search, SkipSeen, Extract, RejectFact, PersistFactInStore, kept, vars
<1>6. CASE TakePaper
  <2>1. pc = "execute" /\ mem = disk /\ mem \in Trees
    BY <1>6 DEF TakePaper, StageMatches, IInv, FilesInStep, TypeOK, Live, Busy
  <2>2. Head(queue) \in Papers /\ Head(queue) \in Ids
    BY <1>6, HeadTailProperties, MinerIds DEF TakePaper, HitsArePapers
  <2>3. Head(queue) \notin named
    BY <1>6 DEF TakePaper
  <2>4. CASE /\ ExecutorAddsNode(Head(queue), Topic(node), "pending")
             /\ named' = named \cup {Head(queue)}
    <3>1. Topic(node) \in Ids /\ disk[Head(queue)].status = "absent"
      BY <2>1, <2>2, <2>4 DEF ExecutorAddsNode, Present
    <3>2. "pending" \in Status
      BY DEF Status, OpenStatus
    <3>3. AddNode(mem, Head(queue), Topic(node), "pending")[Head(queue)].status
            = "pending"
      BY <2>1, <2>2, <3>1, <3>2, AddNodeFacts
    <3>4. disk'[Head(queue)].status # "absent"
      BY <2>4, <3>3 DEF ExecutorAddsNode, SaveTree
    <3> QED
      BY <1>2, <1>6, <2>2, <2>4, <3>1, <3>4 DEF TakePaper
  <2>5. CASE Head(queue) \in Present(mem) /\ UNCHANGED <<vars, named>>
    BY <1>6, <2>1, <2>2, <2>3, <2>5 DEF TakePaper, Present, vars
  <2> QED
    BY <1>6, <2>4, <2>5 DEF TakePaper
<1>7. CASE PersistFactInTree
  BY <1>2, <1>3, <1>7 DEF PersistFactInTree, kept
<1>8. CASE ClosePaper
  <2>1. Head(queue) \in Papers /\ mined[Head(queue)] \in Nat
    BY <1>3, <1>8 DEF ClosePaper
  <2>2. /\ mined' \in [Papers -> Nat]
        /\ mined'[Head(queue)] = mined[Head(queue)] + 1
        /\ \A p \in Papers : p # Head(queue) => mined'[p] = mined[p]
    BY <1>8, <2>1 DEF ClosePaper
  <2>3. disk'[Head(queue)].status # "absent"
    BY <1>2, <1>8, <2>1 DEF ClosePaper
  <2> QED
    BY <1>2, <1>8, <2>1, <2>2, <2>3 DEF ClosePaper
<1>9. CASE \/ AdvanceStep \/ ReturnDone \/ ExtractRaises \/ FlushRaises
           \/ LoseRecords
  BY <1>2, <1>9 DEF AdvanceStep, ReturnDone, ExtractRaises, FlushRaises,
                    LoseRecords, LocalsReset, kept
<1>10. CASE DispatchMiner \/ RecordRefsOverId
  BY <1>2, <1>3, <1>10 DEF DispatchMiner, RecordRefsOverId, kept, locals
<1>11. CASE ResumeWithStore \/ OtherLoopStep \/ UNCHANGED minerVars
  BY <1>2, <1>3, <1>11 DEF ResumeWithStore, OtherLoopStep, minerVars, miner, kept, locals
<1> QED
  BY <1>4, <1>5, <1>6, <1>7, <1>8, <1>9, <1>10, <1>11 DEF MinerNext, MinerStep

\* The resume guard works as long as the guard's key is there: while the node
\* of a paper keeps its external id, no crash, resume or later dispatch makes
\* the miner work through the paper a second time.
THEOREM NamedPapersAreMinedOnce == MinerSpec => []NamedMinedOnce
<1>1. MinerInit => StageMatches /\ NamedHeld
  BY DEF MinerInit, StageMatches, NamedHeld, Mining
<1>2. StageMatches /\ [MinerNext]_minerVars => StageMatches'
  BY StageStep
<1>3. HitsArePapers /\ [MinerNext]_minerVars => HitsArePapers'
  BY HitsStep
<1>4. IInv /\ HitsArePapers /\ StageMatches /\ NamedHeld
        /\ [MinerNext]_minerVars /\ [Next]_vars => NamedHeld'
  BY NamedStep
<1>5. NamedHeld => NamedMinedOnce
  BY DEF NamedHeld, NamedMinedOnce
<1> QED
  BY <1>1, <1>2, <1>3, <1>4, <1>5, HitsInit, CoordinatorInvariance,
     MinerImplementsCoordinator, PTL
  DEF MinerSpec, ImplementsCoordinator, Spec
-----------------------------------------------------------------------------
(***************************************************************************)
(* The store and the tree                                                  *)
(***************************************************************************)

\* Facts in the tree that are not in the store, and not about to be.
Unstored ==
  {f \in FactNodes(disk) \ store : ~(stage = "store" /\ f = fact)}

\* Whatever is stored, about to be stored, or held for the next flush is in
\* the tree; and what is missing from the store was lost, one fact at a time.
StoreCounted ==
  /\ store \subseteq FactNodes(disk)
  /\ records \subseteq FactNodes(disk)
  /\ stage = "store" => fact \in FactNodes(disk)
  /\ failures \in Nat
  /\ Cardinality(Unstored) <= crashes + failures

\* Facts, found in a tree or missing from the store, are ids.
LEMMA FactSets ==
  /\ FactNodes(disk) \in SUBSET Ids
  /\ Unstored \in SUBSET Ids
  /\ ROOT \notin Facts
  /\ Papers \cap Facts = {}
<1>1. ROOT \notin Facts /\ Papers \cap Facts = {}
  BY MaxIdAssumption, PapersAssumption, FactsAssumption, RoomAssumption
  DEF Papers, Facts, ROOT
<1> QED
  BY <1>1, MinerIds DEF FactNodes, Unstored

\* Facts enter the tree in one place.
LEMMA FactsEnterOnce ==
  ASSUME IInv, HitsArePapers, StageMatches, [MinerNext]_minerVars, [Next]_vars,
         ~PersistFactInTree
  PROVE  FactNodes(disk') = FactNodes(disk)
<1>1. \A f \in Facts : disk[f].status # "absent" => disk'[f].status # "absent"
  BY PresenceGrows, MinerIds
<1> SUFFICES \A f \in Facts : disk'[f].status # "absent" => disk[f].status # "absent"
  BY <1>1 DEF FactNodes, Present
<1>2. pc \in Live => mem = disk /\ mem \in Trees
  BY DEF IInv, TypeOK, FilesInStep
<1>3. ASSUME NEW n \in Ids \ Facts, NEW p \in Ids, ExecutorAddsNode(n, p, "pending")
      PROVE  \A f \in Facts : disk'[f].status # "absent" => disk[f].status # "absent"
  <2>1. mem = disk /\ mem \in Trees
    BY <1>2, <1>3 DEF ExecutorAddsNode, Live, Busy
  <2>2. \A m \in Ids : disk'[m].status = IF m = n THEN "pending" ELSE mem[m].status
    BY <1>3, <2>1, AddedStatus
  <2> QED
    BY <2>1, <2>2, MinerIds
<1>4. CASE AddTopic
  <2>1. CASE ExecutorAddsNode(Topic(node), node, "pending")
    <3>1. Topic(node) \in Ids \ Facts /\ node \in Ids
      BY <1>4, <2>1 DEF AddTopic, ExecutorAddsNode, Present
    <3> QED
      BY <1>3, <2>1, <3>1
  <2> QED
    BY <1>4, <2>1 DEF AddTopic, vars
<1>5. CASE TakePaper
  <2>1. CASE ExecutorAddsNode(Head(queue), Topic(node), "pending")
    <3>1. Head(queue) \in Papers
      BY <1>5, HeadTailProperties DEF TakePaper, HitsArePapers
    <3>2. Head(queue) \in Ids \ Facts /\ Topic(node) \in Ids
      BY <2>1, <3>1, MinerIds, FactSets DEF ExecutorAddsNode, Present
    <3> QED
      BY <1>3, <2>1, <3>2
  <2> QED
    BY <1>5, <2>1 DEF TakePaper, vars
<1>6. CASE Search \/ SkipSeen \/ Extract \/ RejectFact \/ PersistFactInStore
  BY <1>6 DEF Search, SkipSeen, Extract, RejectFact, PersistFactInStore, vars
<1>7. CASE \/ ExtractRaises \/ FlushRaises \/ ReturnDone \/ AdvanceStep
           \/ LoseRecords \/ ResumeWithStore \/ UNCHANGED minerVars
  BY <1>7
  DEF ExtractRaises, FlushRaises, ReturnDone, AdvanceStep, LoseRecords,
      ResumeWithStore, ProcessGone, Complete, Crash, Resume, ExecutorReturns,
      ExecutorAdvances, minerVars, vars
<1>8. CASE ClosePaper
  <2>1. ExecutorSettlesNode(Head(queue), "done") /\ Head(queue) \in Present(mem)
    BY <1>8 DEF ClosePaper, ExecutorSettlesNode
  <2>2. mem = disk /\ mem \in Trees
    BY <1>2, <2>1 DEF ExecutorSettlesNode, Live, Busy
  <2>3. \A m \in Ids : disk'[m].status =
                         IF m = Head(queue) THEN "done" ELSE mem[m].status
    BY <2>1, <2>2, SettledStatus DEF Present
  <2> QED
    BY <2>1, <2>2, <2>3, MinerIds DEF Present
<1>9. CASE DispatchMiner
  <2>1. PICK n \in Observed(mem) : SaveTree(SetStatus(mem, n, "running"))
    BY <1>9 DEF DispatchMiner, Dispatch
  <2>2. mem = disk /\ mem \in Trees
    BY <1>2, <1>9 DEF DispatchMiner, Dispatch, Live
  <2>3. n \in Ids /\ mem[n].status # "absent"
    BY <2>2, ObservedIsOpen DEF OpenStatus
  <2>4. "running" \in Status
    BY DEF Status, OpenStatus
  <2>5. \A m \in Ids : SetStatus(mem, n, "running")[m].status =
                         IF m = n THEN "running" ELSE mem[m].status
    BY <2>2, <2>3, <2>4, SetStatusFacts
  <2> QED
    BY <2>1, <2>2, <2>3, <2>5, MinerIds DEF SaveTree
<1>10. CASE RecordRefsOverId
  <2>1. pc \in Busy /\ disk' = SetRefs(mem, node)
    BY <1>10 DEF RecordRefsOverId, RecordRefs, SaveTree, Busy
  <2>2. mem = disk /\ mem \in Trees /\ node \in Ids
    BY <1>2, <2>1 DEF Live, IInv, TypeOK
  <2> QED
    BY <2>1, <2>2, SetRefsFacts, MinerIds
<1>11. CASE CreateTree
  BY <1>11, InitialStatuses, FactSets, MinerIds DEF CreateTree, SaveTree
<1>12. CASE RecordOutcome
  <2>1. pc = "record" /\ disk' = SetStatus(mem, node, OutcomeOf(result))
    BY <1>12 DEF RecordOutcome, SaveTree
  <2>2. mem = disk /\ mem \in Trees /\ node \in Ids /\ disk[node].status = "running"
    BY <1>2, <2>1 DEF Live, Busy, IInv, TypeOK, AttemptsAccounted
  <2>3. OutcomeOf(result) \in Status
    BY DEF OutcomeOf, Status, ClosedStatus
  <2>4. \A m \in Ids : disk'[m].status =
                         IF m = node THEN OutcomeOf(result) ELSE disk[m].status
    BY <2>1, <2>2, <2>3, SetStatusFacts
  <2> QED
    BY <2>2, <2>4, MinerIds
<1>13. CASE CreateCursor \/ ResumeWithoutEffect \/ Advance
  BY <1>13 DEF CreateCursor, ResumeWithoutEffect, Advance, vars
<1> QED
  BY <1>4, <1>5, <1>6, <1>7, <1>8, <1>9, <1>10, <1>11, <1>12, <1>13
  DEF MinerNext, MinerStep, OtherLoopStep

\* Deaths are counted, and only they are.
LEMMA DeathsCounted ==
  ASSUME [Next]_vars
  PROVE  crashes' = IF Crash THEN crashes + 1 ELSE crashes
<1>1. CASE Crash
  BY <1>1 DEF Crash
<1>2. CASE ~Crash /\ \/ CreateTree \/ CreateCursor \/ Resume \/ ResumeWithoutEffect
                     \/ LoopStep \/ UNCHANGED vars
  BY <1>2 DEF CreateTree, CreateCursor, Resume, ResumeWithoutEffect, LoopStep,
              Dispatch, Complete, RecordOutcome, RecordRefs, Advance, history, vars
<1>3. CASE ~Crash /\ ExecutorStep
  BY <1>3 DEF ExecutorStep, ExecutorAddsNode, ExecutorSettlesNode,
              ExecutorAdvances, ExecutorReturns, history
<1> QED
  BY <1>1, <1>2, <1>3 DEF Next

\* A step that fails nothing loses nothing.
LEMMA StoredInStep ==
  ASSUME IInv, HitsArePapers, StageMatches, StoreHeld, StoreCounted,
         [MinerNext]_minerVars, [Next]_vars, ~FlushRaises, ~Crash
  PROVE  /\ store' \subseteq FactNodes(disk')
         /\ records' \subseteq FactNodes(disk')
         /\ stage' = "store" => fact' \in FactNodes(disk')
         /\ failures' \in Nat /\ failures' >= failures
         /\ Unstored' \subseteq Unstored
<1> USE DEF StoreCounted, Unstored
<1>1. CASE PersistFactInTree
  <2>1. PICK f \in First(Facts \ Present(mem)) :
               ExecutorAddsNode(f, Head(queue), "done") /\ fact' = f
    BY <1>1 DEF PersistFactInTree
  <2>2. f \in Facts /\ f \in Ids /\ Head(queue) \in Ids
    BY <2>1, MinerIds DEF First, ExecutorAddsNode, Present
  <2>3. mem = disk /\ mem \in Trees
    BY <2>1 DEF ExecutorAddsNode, IInv, TypeOK, FilesInStep, Live, Busy
  <2>4. \A m \in Ids : disk'[m].status = IF m = f THEN "done" ELSE mem[m].status
    BY <2>1, <2>2, <2>3, AddedStatus
  <2>5. FactNodes(disk') = FactNodes(disk) \cup {f}
    BY <2>2, <2>3, <2>4, MinerIds DEF FactNodes, Present
  <2> QED
    BY <1>1, <2>1, <2>5 DEF PersistFactInTree, kept
<1>2. CASE ~PersistFactInTree
  <2>1. FactNodes(disk') = FactNodes(disk)
    BY <1>2, FactsEnterOnce
  <2>2. CASE PersistFactInStore
    BY <2>1, <2>2 DEF PersistFactInStore, StageMatches, StoreHeld
  <2>3. CASE AddTopic \/ TakePaper \/ ClosePaper \/ AdvanceStep
    BY <2>1, <2>3 DEF AddTopic, TakePaper, ClosePaper, AdvanceStep, kept
  <2>4. CASE Search \/ SkipSeen \/ Extract \/ RejectFact
    BY <2>1, <2>4 DEF Search, SkipSeen, Extract, RejectFact, kept
  <2>5. CASE ExtractRaises \/ ReturnDone
    BY <2>1, <2>5 DEF ExtractRaises, ReturnDone, LocalsReset, kept
  <2>6. CASE LoseRecords
    <3>1. stage = "idle"
      BY <2>6 DEF LoseRecords, ProcessGone, Complete, StageMatches
    <3> QED
      BY <2>1, <2>6, <3>1 DEF LoseRecords, LocalsReset
  <2>7. CASE ResumeWithStore
    BY <2>1, <2>7 DEF ResumeWithStore, locals
  <2>8. CASE DispatchMiner
    <3>1. stage = "idle"
      BY <2>8 DEF DispatchMiner, Dispatch, StageMatches
    <3> QED
      BY <2>1, <2>8, <3>1 DEF DispatchMiner, kept
  <2>9. CASE RecordRefsOverId \/ OtherLoopStep \/ UNCHANGED minerVars
    BY <2>1, <2>9 DEF RecordRefsOverId, OtherLoopStep, minerVars, miner, kept, locals
  <2> QED
    BY <1>2, <2>2, <2>3, <2>4, <2>5, <2>6, <2>7, <2>8, <2>9 DEF MinerNext, MinerStep
<1> QED
  BY <1>1, <1>2

\* A flush that raises, or a death, loses the fact in hand and no other.
LEMMA FailureLosesOne ==
  ASSUME IInv, HitsArePapers, StageMatches, StoreCounted,
         [MinerNext]_minerVars, [Next]_vars, FlushRaises \/ Crash
  PROVE  /\ store' \subseteq FactNodes(disk')
         /\ records' \subseteq FactNodes(disk')
         /\ stage' # "store"
         /\ failures' = failures + (IF Crash THEN 0 ELSE 1)
         /\ \E f \in Ids : Unstored' \subseteq Unstored \cup {f}
<1> USE DEF StoreCounted, Unstored
<1>1. FactNodes(disk') = FactNodes(disk)
  <2>1. ~PersistFactInTree
    BY DEF FlushRaises, Crash, PersistFactInTree, ExecutorAddsNode, First,
           ExecutorReturns, ProcessEnds, process
  <2> QED
    BY <2>1, FactsEnterOnce
<1>2. CASE FlushRaises
  <2>1. stage = "store" /\ fact \in FactNodes(disk) /\ fact \in Ids
    BY <1>2, FactSets DEF FlushRaises
  <2>2. ~Crash
    BY <1>2 DEF FlushRaises, Crash, ExecutorReturns, ProcessEnds
  <2>3. Unstored' \subseteq Unstored \cup {fact}
    BY <1>1, <1>2, <2>1 DEF FlushRaises, LocalsReset
  <2> QED
    BY <1>1, <1>2, <2>1, <2>2, <2>3 DEF FlushRaises, LocalsReset
<1>3. CASE Crash
  <2>1. LoseRecords
    BY <1>3
    DEF MinerNext, MinerStep, AddTopic, Search, SkipSeen, TakePaper, Extract,
        ExtractRaises, RejectFact, PersistFactInTree, PersistFactInStore,
        FlushRaises, ClosePaper, AdvanceStep, ReturnDone, DispatchMiner, Dispatch,
        RecordRefsOverId, RecordRefs, ResumeWithStore, Resume, OtherLoopStep,
        CreateTree, CreateCursor, ResumeWithoutEffect, RecordOutcome, Advance,
        ExecutorAddsNode, ExecutorSettlesNode, ExecutorAdvances, ExecutorReturns,
        ProcessGone, Complete, Crash, ProcessEnds, process, minerVars, vars
  <2>2. \E f \in Ids : Unstored' \subseteq Unstored \cup {f}
    <3>1. CASE stage = "store"
      <4>1. fact \in Ids
        BY <3>1, FactSets
      <4>2. Unstored' \subseteq Unstored \cup {fact}
        BY <1>1, <2>1 DEF LoseRecords, LocalsReset
      <4> QED
        BY <4>1, <4>2
    <3>2. CASE stage # "store"
      BY <1>1, <2>1, <3>2, IdFacts DEF LoseRecords, LocalsReset
    <3> QED
      BY <3>1, <3>2
  <2> QED
    BY <1>1, <1>3, <2>1, <2>2 DEF LoseRecords, LocalsReset
<1> QED
  BY <1>2, <1>3

\* Every step keeps what the store misses within what failed.
LEMMA CountedStep ==
  ASSUME IInv, HitsArePapers, StageMatches, StoreHeld, StoreCounted,
         [MinerNext]_minerVars, [Next]_vars
  PROVE  StoreCounted'
<1>1. /\ crashes \in Nat /\ failures \in Nat
      /\ Unstored \in SUBSET Ids /\ Cardinality(Unstored) \in Nat
      /\ Cardinality(Unstored) <= crashes + failures
  BY IdSetsFinite, FactSets DEF IInv, TypeOK, StoreCounted
<1>2. CASE FlushRaises \/ Crash
  <2>1. PICK f \in Ids : Unstored' \subseteq Unstored \cup {f}
    BY <1>2, FailureLosesOne
  <2>2. Unstored' \in SUBSET Ids /\ Cardinality(Unstored') \in Nat
    BY <1>1, <2>1, IdSetsFinite
  <2>3. Cardinality(Unstored') <= Cardinality(Unstored) + 1
    BY <1>1, <2>1, OneMoreId
  <2>4. /\ failures' = failures + (IF Crash THEN 0 ELSE 1)
        /\ crashes' = IF Crash THEN crashes + 1 ELSE crashes
    BY <1>2, FailureLosesOne, DeathsCounted
  <2>5. failures' \in Nat /\ Cardinality(Unstored') <= crashes' + failures'
    <3>1. CASE Crash
      BY <1>1, <2>2, <2>3, <2>4, <3>1
    <3>2. CASE ~Crash
      BY <1>1, <2>2, <2>3, <2>4, <3>2
    <3> QED
      BY <3>1, <3>2
  <2> QED
    BY <1>2, <2>5, FailureLosesOne DEF StoreCounted
<1>3. CASE ~FlushRaises /\ ~Crash
  <2>1. Unstored' \in SUBSET Unstored /\ failures' \in Nat /\ failures' >= failures
    BY <1>3, StoredInStep
  <2>2. Cardinality(Unstored') <= Cardinality(Unstored)
    BY <1>1, <2>1, FewerIds
  <2>3. Cardinality(Unstored') \in Nat /\ crashes' = crashes
    BY <1>1, <1>3, <2>1, IdSetsFinite, DeathsCounted
  <2>4. Cardinality(Unstored') <= crashes' + failures'
    BY <1>1, <2>1, <2>2, <2>3
  <2> QED
    BY <1>3, <2>1, <2>4, StoredInStep DEF StoreCounted
<1> QED
  BY <1>2, <1>3

\* Before the run there is no fact anywhere.
LEMMA CountedInit == MinerInit => StoreCounted
<1> SUFFICES ASSUME MinerInit PROVE StoreCounted
  OBVIOUS
<1>1. FactNodes(disk) = {}
  BY InitialStatuses DEF MinerInit, Init, FactNodes, Present
<1>2. Unstored = {}
  BY <1>1 DEF Unstored
<1>3. Cardinality(Unstored) = 0
  BY <1>2, FS_EmptySet
<1> QED
  BY <1>1, <1>3 DEF MinerInit, Init, StoreCounted

\* Tree first, store second, for any number of papers, deaths and failures: the
\* store is part of the tree, and one crash or failed dispatch costs it one fact.
THEOREM StoreFollowsTree == MinerSpec => []StoreTracksTree
<1>1. MinerInit => StageMatches /\ StoreHeld
  BY DEF MinerInit, StageMatches, StoreHeld
<1>2. StageMatches /\ [MinerNext]_minerVars => StageMatches'
  BY StageStep
<1>3. HitsArePapers /\ [MinerNext]_minerVars => HitsArePapers'
  BY HitsStep
<1>4. IInv /\ StageMatches /\ StoreHeld /\ [MinerNext]_minerVars /\ [Next]_vars
        => StoreHeld'
  BY StoreStep
<1>5. IInv /\ HitsArePapers /\ StageMatches /\ StoreHeld /\ StoreCounted
        /\ [MinerNext]_minerVars /\ [Next]_vars => StoreCounted'
  BY CountedStep
<1>6. IInv /\ StoreCounted => StoreTracksTree
  <2> SUFFICES ASSUME IInv, StoreCounted PROVE StoreTracksTree
    OBVIOUS
  <2> DEFINE missing == FactNodes(disk) \ store
  <2>1. /\ crashes \in Nat /\ failures \in Nat
        /\ Unstored \in SUBSET Ids /\ missing \in SUBSET Ids
        /\ Cardinality(Unstored) \in Nat /\ Cardinality(missing) \in Nat
    BY IdSetsFinite, FactSets DEF IInv, TypeOK, StoreCounted
  <2>2. CASE stage = "store"
    <3>1. fact \in Ids
      BY <2>2, FactSets DEF StoreCounted
    <3>2. missing \in SUBSET (Unstored \cup {fact})
      BY DEF Unstored
    <3>3. Cardinality(missing) <= Cardinality(Unstored) + 1
      BY <2>1, <3>1, <3>2, OneMoreId
    <3>4. Cardinality(missing) <= crashes + failures + 1
      BY <2>1, <3>3 DEF StoreCounted
    <3> QED
      BY <2>2, <3>4 DEF StoreTracksTree, StoreCounted
  <2>3. CASE stage # "store"
    <3>1. missing = Unstored
      BY <2>3 DEF Unstored
    <3>2. Cardinality(missing) <= crashes + failures + 0
      BY <2>1, <3>1 DEF StoreCounted
    <3> QED
      BY <2>3, <3>2 DEF StoreTracksTree, StoreCounted
  <2> QED
    BY <2>2, <2>3
<1> QED
  BY <1>1, <1>2, <1>3, <1>4, <1>5, <1>6, HitsInit, CountedInit,
     CoordinatorInvariance, MinerImplementsCoordinator, PTL
  DEF MinerSpec, ImplementsCoordinator, Spec

-----------------------------------------------------------------------------
(***************************************************************************)
(* Type correctness                                                        *)
(***************************************************************************)

Stages == {"topic", "search", "paper", "extract", "facts", "store", "return"}

\* The miner is at work exactly while the coordinator awaits it, and a fact is in
\* hand exactly between its two saves, while it still counts as to be verified.
MinerShape ==
  /\ stage \in Stages \cup {"idle"}
  /\ (pc = "execute") <=> (stage # "idle")
  /\ seen \subseteq Papers
  /\ left \in Nat
  /\ stage = "store" => left > 0 /\ fact \in Facts
  /\ stage # "store" => fact = NoNode
  /\ records \subseteq Facts
  /\ store \subseteq Facts
  /\ named \subseteq Papers
  /\ mined \in [Papers -> Nat]
  /\ failures \in Nat

\* The steps of the executor leave the coordinator waiting, but for its return.
LEMMA Awaited ==
  /\ \A n, p, s : ExecutorAddsNode(n, p, s) => pc' = pc
  /\ \A n, s : ExecutorSettlesNode(n, s) => pc' = pc
  /\ ExecutorAdvances => pc' = pc
  /\ \A r : ExecutorReturns(r) => pc' = "record"
  /\ UNCHANGED vars => pc' = pc
  BY DEF ExecutorAddsNode, ExecutorSettlesNode, ExecutorAdvances, ExecutorReturns,
         process, vars

\* Every step keeps the shape.
LEMMA ShapeStep ==
  ASSUME HitsArePapers, MinerShape, [MinerNext]_minerVars
  PROVE  MinerShape'
<1> USE DEF MinerShape, Stages
<1>1. stage \in {"extract", "facts", "store"} => Head(queue) \in Papers
  BY HeadTailProperties DEF HitsArePapers
<1>2. CASE AddTopic
  BY <1>2, Awaited DEF AddTopic, kept
<1>3. CASE Search \/ SkipSeen \/ RejectFact
  BY <1>3, Awaited DEF Search, SkipSeen, RejectFact, kept
<1>4. CASE TakePaper
  <2>1. Head(queue) \in Papers
    BY <1>4, HeadTailProperties DEF TakePaper, HitsArePapers
  <2>2. pc' = pc /\ named' \subseteq Papers
    BY <1>4, <2>1, Awaited DEF TakePaper
  <2> QED
    BY <1>4, <2>1, <2>2 DEF TakePaper
<1>5. CASE Extract
  <2>1. left' \in Nat
    BY <1>5, FactsAssumption DEF Extract
  <2> QED
    BY <1>5, <2>1, Awaited DEF Extract, kept
<1>6. CASE PersistFactInTree
  <2>1. fact' \in Facts /\ pc' = pc
    BY <1>6, Awaited DEF PersistFactInTree, First
  <2> QED
    BY <1>6, <2>1 DEF PersistFactInTree, kept
<1>7. CASE PersistFactInStore
  BY <1>7, Awaited DEF PersistFactInStore
<1>8. CASE ClosePaper
  <2>1. mined' \in [Papers -> Nat]
    BY <1>8, <1>1 DEF ClosePaper
  <2> QED
    BY <1>8, <2>1, Awaited DEF ClosePaper
<1>9. CASE AdvanceStep
  BY <1>9, Awaited DEF AdvanceStep, kept
<1>10. CASE ExtractRaises \/ FlushRaises \/ ReturnDone
  <2>1. pc' = "record" /\ LocalsReset
    BY <1>10, Awaited DEF ExtractRaises, FlushRaises, ReturnDone
  <2>2. /\ records' \subseteq Facts /\ store' \subseteq Facts /\ named' \subseteq Papers
        /\ mined' \in [Papers -> Nat] /\ failures' \in Nat
    BY <1>10 DEF ExtractRaises, FlushRaises, ReturnDone, kept
  <2> QED
    BY <2>1, <2>2 DEF LocalsReset
<1>11. CASE LoseRecords
  BY <1>11
  DEF LoseRecords, ProcessGone, Complete, Crash, ProcessEnds, LocalsReset
<1>12. CASE DispatchMiner
  BY <1>12 DEF DispatchMiner, Dispatch, kept
<1>13. CASE RecordRefsOverId
  BY <1>13 DEF RecordRefsOverId, RecordRefs, locals
<1>14. CASE ResumeWithStore
  BY <1>14 DEF ResumeWithStore, Resume, locals
<1>15. CASE OtherLoopStep
  <2>1. stage = "idle" /\ pc' # "execute"
    BY <1>15 DEF OtherLoopStep, CreateTree, CreateCursor, ResumeWithoutEffect,
                 RecordOutcome, Advance, vars
  <2> QED
    BY <1>15, <2>1 DEF OtherLoopStep, miner, locals, kept
<1>16. CASE UNCHANGED minerVars
  BY <1>16, Awaited DEF minerVars, miner, locals, kept
<1> QED
  BY <1>2, <1>3, <1>4, <1>5, <1>6, <1>7, <1>8, <1>9, <1>10, <1>11, <1>12, <1>13, <1>14,
     <1>15, <1>16
  DEF MinerNext, MinerStep

\* The miner's locals, the store's list and the coordinator's state are of their
\* kinds; run() of literature/executor.py has something in hand exactly where it
\* uses it, and runs exactly while the coordinator waits for it.
THEOREM MinerTypeCorrect == MinerSpec => []MinerTypeOK
<1>1. MinerInit => MinerShape
  BY MinerIds DEF MinerInit, MinerShape, Init
<1>2. HitsArePapers /\ MinerShape /\ [MinerNext]_minerVars => MinerShape'
  BY ShapeStep
<1>3. HitsArePapers /\ [MinerNext]_minerVars => HitsArePapers'
  BY HitsStep
<1>4. IInv /\ HitsArePapers /\ MinerShape => MinerTypeOK
  BY DEF IInv, HitsArePapers, MinerShape, MinerTypeOK, Stages
<1> QED
  BY <1>1, <1>2, <1>3, <1>4, HitsInit, CoordinatorInvariance, PTL DEF MinerSpec
=============================================================================
