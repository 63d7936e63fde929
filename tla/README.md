# A verification of Loop-SCI

Loop-SCI runs a research task as a loop over a persistent *idea tree*: a
coordinator picks a node, hands it to an executor (literature mining, hypothesis
critique, plan assembly, or a bare LLM agent), records the outcome and goes on
until nothing is left or its step budget is spent. Everything it knows between two
commands is in a few files of a run directory. This directory holds the TLA+ models
of that machinery, the TLC runs that check them and the TLAPS proofs about them.

## 1. Inventory of the system

| Part | Source (`src/loop_sci/`) | State it keeps | Operations | Hard behaviour |
|---|---|---|---|---|
| Idea tree | `_vendor/arbor/idea_tree.py`, `state/idea_tree.py` | nodes: status, parent, children, refs; `idea_tree.json` | add_node, update_node, save, load, leaf queries | every mutation is an atomic file replacement, but `refs` is set past `update_node` and saved separately |
| Run session | `state/session.py` | cursor (status, step); `run.json` | create, load, advance_step, mark_complete | two files, written one after the other; death in between |
| Coordinator | `engine/coordinator.py` | `steps`, the node in hand | observe, dispatch, record, advance, complete | resume of an interrupted dispatch; budget against work |
| Commands | `cli.py` | none | run, resume, inspect | what a half-written directory looks like to resume |
| Executor seam | `engine/executor.py`, `engine/types.py` | none | run(unit) -> result | may raise, may mutate the tree while the loop awaits it |
| Verdict ledger | `hypothesis/ledger.py` | entries; `verdict-ledger.jsonl` | load, append, accepted_node_ids | torn last line; memory ahead of the file when a write fails |
| Hypothesis executor | `hypothesis/executor.py`, `hypothesis/stages/*` | accepted ids, kills per region, stall counter (all in memory) | rounds of prospect, forge, contract, adversary, score, autopsy | crash between ledger and tree; repeated run over the same tree |
| Hypothesis coordinator, ranking | `hypothesis/coordinator.py`, `hypothesis/ranked.py`, `hypothesis/scoring.py` | none | pick by score, rank, score | tie-breaks, missing scores |
| Literature executor | `literature/executor.py`, `literature/factbase/*`, `literature/extract/*` | topic and paper nodes, fact store file | search, dedup, extract, verify, persist | paper node added before its facts; topic node never closed |
| Search dispatch | `literature/search/*` | none | fan out to sources, back off, merge | one source failing, duplicates across sources |
| Verification | `literature/verify/*` | none | citation layers, grounding judge | unavailable registries, verdict precedence |
| Plan assembler | `plan/*` | plan files, call budget | gate, assemble fields, downgrade, write | non-atomic pair of files; resume reads a torn one |
| Provider | `provider/*`, `_vendor/arbor/llm/*` | none | create with retries | retryable against fatal errors |
| Agent runtime, tools | `engine/agent_runtime.py`, `engine/tools.py`, `_vendor/arbor/*` | message history, tool registry | turn loop, tool dispatch | max_turns, tool errors |
| Events | `events/`, `_vendor/arbor/events/*` | subscribers | emit | a subscriber that raises |
| Configuration | `config/*`, `conf/` | none | load, validate | pure input handling |

### How the parts interact

* `cli.run` creates a `RunSession` and hands it to a `Coordinator`; `cli.resume` loads
  one and does the same. The session owns the idea tree and the cursor.
* The coordinator awaits one executor at a time: `executor.run(unit) -> result`. The
  executors hold the same session and mutate the same tree *while they are awaited*:
  they add nodes, settle nodes other than the one dispatched, and call
  `session.advance_step()` themselves, in addition to the coordinator's own call.
* `HypothesisExecutor` owns a second file, the verdict ledger, and reads both files when
  it starts, to find out what was settled already. It also reads the fact store that
  `LitMinerExecutor` writes. `PlanAssemblerExecutor` reads accepted hypotheses from the
  tree and writes plan files.
* One asyncio task per process drives all of this; only the search over sources and an
  agent's read-only tools fan out below it. What makes the system hard is not
  parallel threads but *persistence*: each file is written at its own point, and the
  process may die, or a call may fail, between any two of those points.

### What makes each part correct

| Part | Properties |
|---|---|
| Coordinator, session, tree | a node is handed out again only after a death; an outcome, once recorded, stays; the files never drift apart by more than the deaths explain; a resumed run is completed; a completed run is never touched |
| Verdict ledger | a re-opened ledger shows real entries, once, in order; an interruption costs at most one entry; the live cache is never behind the file |
| Hypothesis executor | one verdict per hypothesis, whatever crashes; the tree says what the verdict said; closed regions and escalation are respected; nothing is left pending; run ends |
| Hypothesis stages, ranking, scoring | gates fire in order and fail closed; the generator never acquits itself; ranking is total and stable |
| Literature executor | the fact store lags behind the tree by no more than the deaths and failures explain, and never shrinks; a paper is mined once; what is skipped was mined; the run ends although topics are never closed |
| Search dispatch, verification | one failing source loses nothing of another; a fact is verified or refused for a cause, and matches the record it was compared with; every search ends |
| Plan assembler | the two files of a plan agree; a plan that passes its gate stands on stored facts; a plan is paid for once and never changes |
| Agent loop | the provider is always asked with a history that ends on the user; calls and results stay together; compaction loses neither the task nor what is new; writes run alone; the loop ends |

## 2. The modules

| Module | Models | Kind |
|---|---|---|
| `IdeaTree` | the tree and its operations | operators |
| `RunJournal` | what a run directory promises | abstract specification |
| `Coordinator` | the loop, the session, the commands, process death | state machine, implements `RunJournal` |
| `CoordinatorProofs` | | theorems |
| `LedgerFile` | what a reader can see of the ledger, and what the next append does to it | operators and abstract specification |
| `VerdictLedger` | the JSONL file line by line | state machine, implements `LedgerFile` |
| `VerdictLedgerProofs` | | theorems |
| `Recursion` | induction over the numbers and functions defined step by step, for the proofs that need them | lemmas |
| `HypothesisLifecycle` | what the engine promises about one hypothesis | abstract specification |
| `HypothesisExecutor` | the rounds of `run` over tree and ledger; uses `LedgerFile` | state machine, implements `HypothesisLifecycle` |
| `HypothesisExecutorProofs` | | theorems |
| `LitMiner` | the literature miner under the coordinator: topic, paper and fact nodes, the fact store | state machine, extends and implements `Coordinator` |
| `LitMinerProofs` | | theorems |
| `FactPipeline` | what a dispatch of the miner does outside: the search over all sources, the layers of verification | state machine |
| `FactPipelineProofs` | | theorems |
| `PlanAssembler` | one run of the plan assembler: calls, gate, two files, requests for a plan that is there | state machine |
| `PlanAssemblerProofs` | | theorems |
| `AgentLoop` | the agent behind the bare executor: turns, recovery, tool calls, compaction | state machine |
| `AgentLoopProofs` | | theorems |
| `MC*` | the instances that TLC checks | |

Some definitions are commented `Fault:`. They are plausible bugs of the definition that
follows them; nothing uses them, except the check that each property notices one.

### Coordinator

`mem` and `disk` are `session.tree` and `idea_tree.json`; `cursor` and `run` are
`session.cursor` and `run.json`. `pc` is the place in `Coordinator.run`: `observe`,
`execute` (the executor is awaited), `record`, `refs` (the second save of `_record`),
`advance`. One action is one file write with what surrounds it, so that `Crash` can
fall between any two of them. `_observe`'s three passes (pending leaves, a pending
ROOT, stale running nodes) are `Observed`; ids are numbers because the code only sorts
them. While `pc = "execute"` the executor takes any of `ExecutorAddsNode`,
`ExecutorSettlesNode`, `ExecutorAdvances`, in any order, before it returns any result,
which covers what the three executors do to the session. The commands are `CreateTree`,
`CreateCursor` (the two writes of `RunSession.create`) and `Resume`.
`attempts`, `recorded`, `extra`, `owed` and `crashes` are history: no guard reads them
but for the two bounds `MaxCrashes` and `MaxExtra`.

`RunJournal` knows items that are none, open or closed and one bit, complete. The
refinement mapping reads them from the files, not from memory: it says what anyone who
opens the directory can rely on.

### Verdict ledger

The file is a sequence of lines, each a sequence of chunks, a chunk being the opening
part of an entry's JSON object or the whole of it. An interrupted append leaves nothing,
a part, or the whole object without its newline. `Loaded` parses line by line and skips
what does not parse, as `__init__` does. `Fail` is an `OSError` (the entry is in
`_entries` already), `Die` the end of the process. `LedgerFile` is the same file as
three fields: `readable`, `open` (the entry whose newline is missing) and `torn`.

### Hypothesis executor

`pc` names the stage: `prospect`, `cards`, `forge`, `candidates`, `contract`, `shelve` and
`shelveRefs` (a closed region), `adversary`, `settle`, `advance`. The language models'
answers are choices: how many cards and candidates, which ids (an id is a digest of the
text, so that a repeated answer names the same node), the latent root, the verdict, and
answers of the wrong shape, which raise where the code does not catch them. A hypothesis
node is its status and whether the contract is on it. `Judge` is the verdict together
with its append to the ledger; `SettleUp` and `SettleDown` are the save that follows;
a crash in between is the case the module exists for.

Not in the model: the pivot (it changes prompts only), texts, scores and reasons, the
statuses of card nodes, and the tree saves the coordinator makes between two calls of
`run` in one process.

### Literature miner

`LitMiner` extends `Coordinator`: the miner's steps are conjuncts of the executor's
actions there (`AddTopic`, `TakePaper` and `PersistFactInTree` of `ExecutorAddsNode`,
`ClosePaper` of `ExecutorSettlesNode`, `AdvanceStep` of `ExecutorAdvances`, and so on), or
leave the coordinator alone. `stage` is the place in `LitMinerExecutor.run`; `queue` the
hits not yet looked at, `seen` the local `seen_eids`, `left` the facts of the paper in
hand. `store` and `records` are the store's file and its list in memory, and `named` the
papers whose node still has an external id in its refs: the coordinator's `_record`
*replaces* the refs of the node it dispatched, so that a dispatched paper node drops out
of `named` (`RecordRefsOverId`). What a search returns, how many facts an answer holds
and which are verified are choices. A fact is saved in the tree and then in the store,
two actions with a crash or a failing flush in between. `mined` and `failures` are
history.

The run's `ImplementsCoordinator` is `Coordinator!Spec` itself: with it, and its proof,
the properties of the loop hold of a mining run and need not be checked again.

### The outside of the literature miner

`FactPipeline` has the same `run` as `LitMiner`, without saves and crashes, but with what
`LitMiner` leaves open. The sources are numbered in the order of the dictionary of
clients. A search asks all of them; each answers, is throttled (and asked again, up to
`MaxRetries`) or fails, in any order, and `Merge` waits for all of them, as `gather` does.
`Looked` is the merged list, source by source, cut to `max_papers`. A paper has a record:
its source, its external id, DOI, year, surnames, and whether it has an abstract. The node
id is `paper_` and the external id with `:` and `/` replaced, so that two ids may share a
node (`NodeId`). `owner` is the external id in the refs of each node, from which `seen_eids`
is read. A fact then
goes through `CheckIdentifier` (L1), `FetchFinds`/`FetchMisses` and, for a paper with a
DOI, `DoiFinds`/`DoiMisses` source by source (L2), `CheckMetadata` (L3) and `Ground` (L4).
Whoever is asked answers with any record of its own, or with nothing: the paper's own source
as well, whose record need not be the one that the search gave. It may have another year,
other authors or no abstract, and it may even be that of another paper, since nothing in the code compares the
ids. L3 and L4 are there to refuse a fact whose record differs from the hit. The overlap of
evidence and text is one of four bands. `last`, `trouble` and `runs` are history; no guard
reads them but for the bound `MaxRuns`.

`LitMiner` itself does not retry a search: its call of `dispatch` passes no `retry_on`,
which is `MaxRetries = 0`.

### Plan assembler

`pc` is the place in `_assemble`, `draft` the plan as far as it is assembled. A plan is
what its gate looks at: which of the calls' fields are filled, the facts it stands on,
the papers among its references, the grades of its derivation. `md` and `json` are the
two files of each node: none, torn, or whole with what they hold. Each of the three calls
has two attempts; what they answer is a choice. `Crash`, a failed write and a torn write may fall at
any place.

The tree, the store and the cursor are the session's, and the rest of the session moves
them between two plans: the hypothesis engine ranks hypotheses (`AddHypotheses`), the
coordinator records what it dispatched and may take a node out of the ranked list by
replacing its refs (`RecordDispatched`), and the miner stores facts (`AddFacts`). Each of the three
ends in its own call of `advance_step` on the cursor that a plan's end advances too
(`StepElsewhere`): the step is counted, or counted in memory only because `run.json` could not be
written, or not reached because something raised or the process died. `elsewhere` counts
the steps made there, `begun` the assemblies; both are history, read by no guard but for
the bound `MaxElsewhere`.

### Agent loop

`pc` is the place in `_run_loop`: a turn begins, the history is compacted, the provider is
called, tools run. A message is its kind, its turn, and whether its results are whole
or cut down to a preview. Whether the history is too long is a choice at each place where
tokens are counted; so is what the provider answers: text, calls (a batch of read, write
and unknown tools), an answer cut off, a timeout, a prompt that is too long, an error.
Reads run at most `Concurrency` at a time and in any order, then writes one by one; a
call may raise, which ends the run while reads already begun go on. The compactions are
operators on the history, translated with their boundaries, because what they may lose is
the question.

## 3. The runs

| Run | Question | States | Shows |
|---|---|---|---|
| `coordinator` | Does the loop keep its promises over the two files whatever dies when? | 535 594 | 4 safety properties, the journal, and that a run completes |
| `complete_but_pending` | Is a complete run free of pending leaves? | violation | no: the step budget completes it too |
| `ledger` | What survives torn appends? | 2 980 | at most one lost entry per interruption, order, cache ahead of file |
| `ledger_entry_lost` | Do appended entries survive? | violation | no: the one after a torn line is glued to it |
| `hypothesis` | Is each hypothesis judged once and settled as judged, through crashes and reruns? | 727 419 | 5 safety properties, the lifecycle, and that a run ends |
| `pending_never_critiqued` | Is a skipped candidate one that was critiqued? | violation | no: the key it looks for is on every node |
| `mining` | Do tree, fact store and cursor agree when the miner works, dies and fails? | 39 621 | 2 safety properties, types, the miner is an executor, and the run ends |
| `skipped_never_mined` | Was a paper that is skipped mined? | violation | no: its node is saved before it is mined |
| `evidence` | Is every fact verified or refused for a cause, whatever the sources answer? | 222 741 | 2 safety properties, that a failing source costs no other's hits, and that a dispatch ends |
| `plan` | Do the two files of a plan agree, and does it stand on stored facts, through deaths and repeated requests? | 1 280 036 | 4 safety properties, that plans are final, and that a run ends |
| `partial_plan` | Is there a whole plan or none after an error? | violation | no: the files are written in place, one after the other |
| `agent` | Is the history sound whatever fails, is cut off or compacted? | 175 116 | 5 safety properties, that the newest message stays, and that the run ends |

**Bounds.** `coordinator`: ROOT and two more ids (a leaf, and a child below it or beside
it, so that parents stop being leaves), a budget of two steps (one is not enough to tell
"the budget is spent" from "this was the first step"), two crashes (one that leaves a
running node, one during its second attempt), one cursor step by an executor. `ledger`:
five appends with three interruptions, enough for a torn line, the append it swallows, a
second tear of the same line and an intact append after it. `hypothesis`: three
hypotheses below two cards and two regions with a threshold of two, so that a region is
closed by candidates of one card and met by one of another; three rounds with escalation
at two, so that the counter is reset, reached, and the range exceeded; two runs of which
one fails, so that a run meets what a failed one left. More failures than one cannot
meet a further run within two runs; for those, and for every other size, see the proofs.
`mining`: two papers, of which one is
skipped or repeated while the other is mined; two hits per search, two facts per paper
and in all, so that a batch is cut and a fact is lost while another is flushed late; two
dispatches per process, one crash and two failures, which is enough for a paper node
to be dispatched, to lose its external id and to be mined twice afterwards. Node ids leave
room for every topic two processes can add.
`evidence`: a source that can be asked for its own ids and one that cannot; a paper and
another record of the same work, which share a DOI; a paper without authors whose node id
is that of another one; a paper that nothing can look up; and a second record of one id,
with fewer authors and neither a year nor an abstract, which the source may give for either.
Two hits are looked at, so
that the sources compete for them, and the second dispatch meets what the first has
mined. One retry and one fact per paper: a source's retries do not interact with those of
another, nor does one fact with the next (the outcome starts from nothing each time).
`plan`: a hypothesis with facts and one without, three requests and one failure, so that a
request meets a whole plan, a torn one, and one that is missing its step; three steps of
the rest of the session, so that steps fall before, between and after two plans. `agent`: four
turns, three attempts, a nudge limit and a cut-off limit that are both reached; batches
with a read after a write and with an unknown tool; a history that is longer than what
the compactions keep, and two compactions that take messages out, so that the second one
meets what the first has left.
The violating runs use the smallest instance that shows the case, with two failures.

**Deadlock** is checked in the runs of the coordinator, the miner and the ledger, whose processes can
always be started again; the other four really stop when their calls of `run` and their
failures are used up, and the agent when its run is over.

**Fairness.** `Coordinator!FairSpec`: the process goes on while it lives; the awaited
executor returns, which the code bounds by `max_turns` and by the timeout of the
provider's client; and somebody resumes an interrupted run. The last one is an
assumption about the operator, and without it nothing could be promised. `MaxCrashes`
makes deaths finite. `LitMiner!FairMinerSpec`
keeps these and replaces the executor's return by weak fairness of the miner's next step;
`MiningCompletes` thus shows that `run` does return. `HypothesisExecutor!FairSpec` has one conjunct, weak fairness of
what `run` does next: it is straight-line code between awaits, and each await is a call
of a client with a timeout. `PlanAssembler!FairSpec` (what `_assemble` does next) and
`AgentLoop!FairSpec` (its next step; a tool is assumed to come to an end) are the same.
`FactPipeline!FairSpec` is weak fairness of a step of the dispatch: `make_async_client` gives every
source a timeout of 30 seconds, and a throttled source is asked again a limited number of times.
None of them is fair to a new request or to a failure.

## 4. What is proved

The theorems of the seven `*Proofs` modules hold for every value of the
constants; they assume of them only what the `ASSUME`s of the modules say (counts are
natural numbers, thresholds and budgets are positive, the "none" values are not ids).

*Coordinator.* Type correctness, `AttemptsBounded`, `CursorTracksTree`,
`RecordedWithinBudget`, the refinement of `RunJournal`, `RunningCostDeaths` and
`RefsLostOnlyToDeaths`. None of these is inductive. The
inductive invariant `IInv` adds: memory equals the files while a process lives
(`FilesInStep`); a node that is `running` on disk was left by a crash or is in hand
(`AttemptsAccounted`), which is what makes a second dispatch cost a crash; the cursor
lags by one exactly between the tree's save and its own (`CountersAccounted`); and what
was counted was closed (`WorkClosed`), which the journal needs for completion.
The last two properties count the node in hand as well; what is lost for good (`Stranded`,
`Dropped`) is inductive with `IInv`, because it grows only when a process dies, and then by the node in hand.

*Ledger.* Type correctness, `LoadsInOrder`, `LossBounded`, `CacheCoversFile` and the
refinement of `LedgerFile`, for a file of any length. The argument is about one write: it
changes the last line only and may begin another one, and what a reader loads of the
lines before it (the *settled* ones) is then the same. `LossInv` strengthens `LossBounded`:
the entries that were appended and cannot be read, and one more if the last line is not
empty, are at most the interruptions, so that the line which the next append will be
glued to has been counted before it costs anything. That `Loaded`, a recursive function, is defined
and is determined by the lines one at a time is an induction over lines.

*Induction.* The library's induction theorems take an operator as a parameter, which the
provers cannot instantiate. `Recursion` has the first-order form instead: a set that
contains 0, and with each number the next one, contains all (from the well-foundedness of
<, by a smallest counterexample), and a function that a step defines
one value at a time exists (`StepwiseExists`). The ledger and the merging of hits use them.

*Hypothesis executor.* Type correctness, `KillsBounded`, `EscalationStops`,
`AcceptedWereJudged`, `AcceptancesDocumented`, `NothingLeftOpen` and the refinement of
`HypothesisLifecycle`; of the run's properties, only `RunEnds` is left to TLC. `IInv` adds: the live tree
has the statuses of the file (`TreesInStep`); the status of a node is one its verdict
allows (`StatusFollowsVerdict`); the candidate in hand is pending and, until it is
judged, without a verdict (`CandidateInStep`); no ledger entry, in the file or the cache,
lies about a verdict (`LedgerTrue`); the candidate before the adversary is in an open
region; the stall counter is below its threshold until the loop is left; each append
that was cut short accounts for one lost verdict, already lost, about to be swallowed by
the tail of the file, or in hand (`LossesInStep`); and while nothing failed only the
candidate in hand is pending (`PendingInHand`). The
argument in one line: a verdict is issued only for a candidate whose node was absent,
whatever was lost, because any earlier attempt had already saved the node. That the
guard at `executor.py:300` skips more than it says is what makes this hold, and is also
the finding `pending_never_critiqued`. `JudgedAreSettled` and
`ClosedHaveContracts` are proved again by sets that grow only when something fails and then by the
candidate in hand (`Unsettled`, `Bare`); no later save of the whole tree takes a contract
away, since memory has every contract the file has (`ContractsInStep`).

*Literature miner.* Every step of a mining run is a step of `Coordinator` or leaves it alone,
for which only the hits in hand need to be known to be papers (`HitsArePapers`). From
there `IInv` of the coordinator is available: memory equals the files, so that no node
leaves the tree (`PresenceGrows`). `StoredFactsStay` then follows from `StoreHeld` (a live
process holds at least what the file holds), and `NamedMinedOnce` from `NamedHeld`: a
paper without a node was not mined, the paper in hand is not mined yet if it is named,
and while hits are looked at whatever is named counts as seen. `StoreTracksTree` rests on
`StoreCounted`: facts enter the tree in one place (`FactsEnterOnce`), all that is stored or
held for a later flush is in the tree, and what the store misses (`Unstored`) grows only by
the fact in hand when the process dies or the flush raises. `MinerTypeOK` is inductive with
the coordinator's types and `HitsArePapers`, if a fact in hand is counted among those left
to be verified.

*Facts.* Type correctness, `StoredMatchRecords`, `SettledForCause` and `NoneLeftOut`. The
second and third are about the
outcome, which depends on what the layers before have found; `LayersPassed` says what is
known of the paper in hand and of the record when a layer is reached. The record comes
from the paper's own source (`OwnSource`) or, after trouble with that source, from another
one by way of the DOI (`AskedElsewhere`). Nothing more is known of it, so that a refusal has one of
two kinds of cause: there was no record, and then there was trouble or no way to ask; or
there was one, and it is not of the same work, or the text does not bear the claim.
`MatchIsSameWork` shows that L3 refuses a record exactly when it is not of the same work.
`NoneLeftOut`
is an induction over the sources in the order in which their hits are merged: what one has found is in
the list from its turn on, and the cut to `max_papers` takes nothing from a list that is
shorter.

*Plans.* Type correctness, `JsonHasMarkdown`, `PlansAreFinal`, `NoRespend`,
`PassedPlansAreGrounded` and `CursorCountsSteps`. The invariant adds where a run must be for either file to
be incomplete (`FilesInStep`), and that a draft that has not met its gate is not passed
(`UngatedDraft`): the files are whole and agree because the guard at the start of a run
looks at the .json, which is written last. For the cursor, `CursorCounted` counts the whole
plans and the steps made elsewhere, puts the plan in hand on both sides, and adds that `run.json` is never ahead of memory, so that a write that failed
is made up for by the next.

*Agent.* Type correctness, `EndsOnUser`, `TaskRemembered`, `WritesRunAlone`, `NewestKept`,
`PairsKept` and `NewResultsWhole`.
`Conversation` says that the history is never empty and ends on the user wherever the
turn goes on; the lemmas on `Snipped`, `Summarized`, `Halved` and `Emergency` say of a
history of any length that each keeps its end, and which keep its beginning. `BatchOrder`
says that writes are made in order and after all reads, from which `WritesRunAlone` follows.

`PairsKept` counts: a compaction maps the parted pairs that it leaves, but for one at the
place of its cut, one to one to parted pairs of the history before (`Moved`, `MovedCount`).
The emergency truncation, whose two halves overlap in a short history, would part two
pairs of one that begins with two results or two calls in a row. `Apart` says that no
history that is truncated so begins like this: calls follow a message of the
user and results follow calls, so that only a cut puts two of a kind side by side,
and a history that begins so is then longer than the end the truncation keeps, so that
what it puts after the first two messages is not the whole history again. With one message kept the
truncation repeats the whole history whatever its length; then two of a kind stand at its
front only, and the halving or the summary before the truncation takes them away. `NewResultsWhole` holds
because what only notes follow is at most `notes` messages from the end (`Fresh`).

*Proved and not in a run:* the types of `Coordinator`, `HypothesisExecutor`, `FactPipeline`,
`PlanAssembler` and `AgentLoop`, `RecordedWithinBudget`, `EscalationStops`,
`AcceptedWereJudged` and `StoredFactsStay`. The runs are kept for what takes several steps
to go wrong; these are theorems for every size, which a run would only repeat.

*Only model-checked:* `RunCompletes`, `MiningCompletes` and every `RunEnds`: liveness under
fairness is out of the prover's reach. Every invariant and every other property of a passing
run is also a theorem.

## 5. Findings

Each of these has a run that shows the code against what its own text says:

1. `executor.py:300` (`pending_never_critiqued`): a hypothesis whose node was saved before a
   crash or a failed call is skipped by every later run although nobody critiqued it.
2. `ledger.py:86` (`ledger_entry_lost`): after a torn line the next complete entry is lost as
   well.
3. `coordinator.py:137` (`complete_but_pending`): a run whose budget is spent is marked
   complete with work pending.
4. `literature/executor.py:156` (`skipped_never_mined`): a paper whose node was saved before
   a crash or a raising extraction is skipped as processed by every later search, and its
   own dispatch marks it done; nothing was extracted from it.
5. `plan/executor.py:266` (`partial_plan`): the two files of a plan are written in place; a
   write that fails leaves a torn .md, or a whole .md with a torn .json, behind the error
   result. A torn .json also keeps the plan from ever being assembled again.

Met on the way, and bounded by a property rather than refuted by a run:

* References of an outcome are a second save (`coordinator.py:217`): each death loses those
  of one node at most (`RefsLostOnlyToDeaths`).
* A dispatched node that a crash leaves running after children were added below it is
  never taken up again (`coordinator.py:167`): one for each death (`RunningCostDeaths`).
* The contract reaches a node after its verdict (`executor.py:319`), and a crash after the
  ledger's append leaves a judged hypothesis pending and unscored for good
  (`executor.py:352`): one for each failure (`JudgedAreSettled`). A candidate of a closed
  region is saved once without its contract (`ClosedHaveContracts`).
* A paper node that was dispatched loses its external id (`coordinator.py:218`) and is mined
  again by every search that finds it: `NamedMinedOnce` of `LitMiner`.
* A run that died inside `create` passes the check of `resume` and cannot be loaded
  (`cli.py:123`).

Read in the code while modelling, with no property of their own:

* The first source can fill `max_papers`, and the hits are cut before those already mined
  are left out: a repeated dispatch then looks at nothing new
  (`literature/executor.py:154`).
* A paper without authors never has a verified fact: an empty list of expected authors is
  not None (`citation.py:291`). One work that two sources know has two external ids and is
  mined twice. Nothing compares the id of the resolved paper with the one cited.
* The docstring of `apply_load_bearing_downgrade` (`plan/results.py:77`) gives a derivation
  whose last step is a guess the confidence "final" where an earlier step is [paper] or
  [inferred]. The code (`results.py:92`) says "low", and the plan then fails its gate; a comment
  (`results.py:99`) and a test (`tests/unit/plan/test_results.py:26`) argue for the code's
  rule. `PassedPlansAreGrounded` states the code's and the test's rule; it contradicts the docstring.
* Card nodes are saved pending and never settled (`hypothesis/executor.py:263`): one whose
  forge yields nothing stays a pending leaf, which the coordinator then dispatches as a topic.
* A client that is configured under another name than its papers carry is not asked for
  them; without a DOI their facts fail at L1 (`citation.py:216`).
* Two external ids that differ only in `:` and `/` against `_` share a node
  (`literature/executor.py:164`): the second paper gets none of its own, so that later
  searches do not know it as processed.
* In the restatement band the novelty score grows with the overlap (`hypothesis/scoring.py`).
* `with_retry` with no retries left to make raises None, which is a TypeError (`provider/errors.py`).
* One counter of attempts serves timeouts and prompts that are too long, so that a late
  prompt that is too long gives up without the compaction meant for it (`agent.py:551`).
  `CutOff` answers are reported by no OpenAI-compatible provider: it never says
  `max_tokens`.

## 6. Not modelled

* *Hypothesis ranking, scoring, tools* and what the stages compute from an answer: pure
  functions of texts and scores without a state of their own, with unit tests at their
  boundaries; the executor model takes every result they can give as a choice.
* *Search adapters*: `FactPipeline` takes from them what they may answer; requests and the
  parsing of records are I/O and layout.
* *Provider*: network I/O; `AgentLoop` and the executors take its errors as choices.
* *Event bus, tool registry*: nothing that a run persists or decides reads them. The
  subscribers of the bus run inline in `emit`, and no tool is wired to the agent.
* *Configuration, renderers, the vendored experiment and git helpers*: no state of a run.
* In `HypothesisExecutor` the stall counter and the kills per region start from zero in
  every call, as in the code (`hypothesis/executor.py:235`); what an interrupted topic may cost over
  several calls is not bounded by any property.
* Two processes on one run directory: nothing in the code prevents or survives it
  (`session.py:94`); the model keeps one process per run.

## 7. Plan

Done: `Coordinator`, `VerdictLedger`, `HypothesisExecutor`, `LitMiner`, `FactPipeline`,
`PlanAssembler`, `AgentLoop`, each with its proofs. What would come next:

1. The composition of `FactPipeline` with `LitMiner`: a refinement that maps the layers to
   the choice `RejectFact` or `PersistFactInTree` of one fact.
2. The coordinator driving the hypothesis executor over one tree, where a pending hypothesis
   left by a failed call is dispatched as a topic of its own.
3. The adversary's gates, scoring and ranking as operators against reference definitions.
