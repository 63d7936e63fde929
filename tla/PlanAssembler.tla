--------------------------- MODULE PlanAssembler ---------------------------
(***************************************************************************)
(* PlanAssemblerExecutor.run of plan/executor.py: up to three calls of the *)
(* provider, the deterministic parts, the gate, and the two files of a     *)
(* plan, with the process dying or a write failing at any point and the    *)
(* same hypothesis being asked for again.                                  *)
(*                                                                         *)
(* A plan is what its gate looks at.  The strings of one call are one      *)
(* field, which is filled when none of them is empty; a reference is the   *)
(* paper it names (collect_references makes only verified ones, and one    *)
(* for each paper); the candidates for "target" come from the hypothesis   *)
(* alone and are never missing, so that they are left out.                 *)
(***************************************************************************)
EXTENDS Integers, Sequences, FiniteSets

CONSTANTS
  Nodes,            \* hypothesis nodes of the tree
  Facts,            \* fact ids that a derivation may cite
  Papers,
  PaperOf,          \* Fact.source_ref
  Cites,            \* RankedHypothesis.grounding_fact_ids
  DatasetFacts,     \* facts that mention something like a dataset
  Derivations,      \* raw derivations that call 2 may answer
  CallBudget,       \* PlanConfig.call_budget
  MaxRuns,          \* bound: calls of run in a behaviour
  MaxElsewhere,     \* bound: steps of the session that are no plan's
  MaxFailures       \* bound: deaths and failed writes in a behaviour

Grades == {"paper", "inferred", "guess"}
NoFact == "no fact"

ASSUME FactsAssumption ==
  /\ PaperOf \in [Facts -> Papers]
  /\ Cites \in [Nodes -> SUBSET Facts]
  /\ DatasetFacts \subseteq Facts
  /\ NoFact \notin Facts
ASSUME DerivationsAssumption == Derivations \subseteq Seq(Grades \cup {"other"})
ASSUME PlanConfigAssumption ==
  CallBudget \in Int /\ MaxRuns \in Nat /\ MaxElsewhere \in Nat /\ MaxFailures \in Nat

NoNode == "no node"
ASSUME NoNodeAssumption == NoNode \notin Nodes

VARIABLES
  pc,               \* "down", "ready" between runs, or a place in _assemble
  ranked,           \* nodes that get_ranked lists
  stored,           \* facts in the fact store
  node,             \* unit.node_id of the run
  call, attempt,    \* provider call 1 to 3 in progress, and its attempt
  draft,            \* the plan as far as it is assembled
  md, json,         \* plans/<node_id>.md and .json
  cursor, savedCursor,  \* session.cursor["step"], and run.json
  result            \* what the last run returned

\* History; no guard reads it, except for the bounds.
VARIABLES begun,    \* assemblies begun for each node, ever
          elsewhere,  \* steps that another executor or the coordinator counted
          runs, failures

files == <<md, json>>
steps == <<cursor, savedCursor>>
history == <<begun, elsewhere, runs, failures>>
vars == <<pc, ranked, stored, node, call, attempt, draft, md, json, cursor,
          savedCursor, result, begun, elsewhere, runs, failures>>

-----------------------------------------------------------------------------
ReasoningFields == {"reasoning"}
TitleFields == {"title and abstract"}
Fields == ReasoningFields \cup TitleFields

Checks == Fields \cup {"datasets", "source", "references", "confidence"}

Plan == [filled     : SUBSET Fields,
         derivation : Seq(Grades),
         confidence : {"low", "final"},
         datasets   : SUBSET (Facts \cup {NoFact}),
         source     : SUBSET (Facts \cup {NoFact}),
         references : SUBSET Papers,
         passed     : BOOLEAN,
         failures   : SUBSET Checks]

\* What _assemble starts from: no field, no derivation, confidence "low".
Blank == [filled |-> {}, derivation |-> <<>>, confidence |-> "low",
          datasets |-> {}, source |-> {}, references |-> {},
          passed |-> FALSE, failures |-> {}]

\* render_markdown: the sections show every field, but neither the gate nor
\* where candidates and references come from.
Sections == [filled     : SUBSET Fields,
             derivation : Seq(Grades),
             confidence : {"low", "final"},
             references : SUBSET Papers]
Markdown(p) == [filled |-> p.filled, derivation |-> p.derivation,
                confidence |-> p.confidence, references |-> p.references]

\* A file is missing, cut short, or holds all of what was written.
File(Content) == [state : {"none", "torn", "whole"}, holds : Content]
Missing(blank) == [state |-> "none", holds |-> blank]
Torn(blank) == [state |-> "torn", holds |-> blank]
Whole(content) == [state |-> "whole", holds |-> content]

Results == [node : Nodes \cup {NoNode}, status : {"none", "done", "error"}]
NoResult == [node |-> NoNode, status |-> "none"]

InAssemble == {"call", "gate", "md", "json", "advance"}

TypeOK ==
  /\ pc \in {"down", "ready"} \cup InAssemble
  /\ ranked \in SUBSET Nodes
  /\ stored \in SUBSET Facts
  /\ node \in (IF pc \in InAssemble THEN Nodes ELSE {NoNode})
  /\ call \in 1 .. 3
  /\ attempt \in 1 .. 2
  /\ draft \in Plan
  /\ md \in [Nodes -> File(Sections)]
  /\ json \in [Nodes -> File(Plan)]
  /\ cursor \in Nat
  /\ savedCursor \in Nat
  /\ result \in Results
  /\ begun \in [Nodes -> Nat]
  /\ elsewhere \in Nat
  /\ runs \in Nat
  /\ failures \in Nat

Init ==
  /\ pc = "down"
  /\ ranked = {}
  /\ stored = {}
  /\ node = NoNode
  /\ call = 1
  /\ attempt = 1
  /\ draft = Blank
  /\ md = [n \in Nodes |-> Missing(Markdown(Blank))]
  /\ json = [n \in Nodes |-> Missing(Blank)]
  /\ cursor = 0
  /\ savedCursor = 0
  /\ result = NoResult
  /\ begun = [n \in Nodes |-> 0]
  /\ elsewhere = 0
  /\ runs = 0
  /\ failures = 0

-----------------------------------------------------------------------------
(***************************************************************************)
(* The deterministic parts                                                 *)
(***************************************************************************)

\* The cited facts that the store resolves.
Grounding(n) == Cites[n] \cap stored

\* A candidate list is never empty: without facts it holds the marker.
OrMarker(facts) == IF facts = {} THEN {NoFact} ELSE facts

\* build_dst_candidates
Datasets(n) == OrMarker(Grounding(n) \cap DatasetFacts)
Source(n) == OrMarker(Grounding(n))

\* collect_references, of which _assemble never asks for extras: one reference
\* for each paper.
References(n) == {PaperOf[f] : f \in Grounding(n)}

\* Fault: a grade that is none of the three is left as it is.
CoercedNot(raw) == raw

\* _coerce_step: a grade that is none of the three counts as a guess.
Coerced(raw) == [i \in DOMAIN raw |-> IF raw[i] \in Grades THEN raw[i] ELSE "guess"]

\* apply_load_bearing_downgrade: everything rests on the last step.  (Its docstring
\* says "final" for a last guess after a paper; its code and its test say "low".)
Confidence(derivation) ==
  IF derivation = <<>> \/ derivation[Len(derivation)] = "guess" THEN "low" ELSE "final"

\* run_gate
GateFailures(p) ==
  (Fields \ p.filled)
    \cup {c \in {"datasets", "source", "references"} : p[c] = {}}
    \cup {c \in {"confidence"} : p.confidence # "final"}

Gated(p) == [p EXCEPT !.failures = GateFailures(p), !.passed = GateFailures(p) = {}]

-----------------------------------------------------------------------------
(***************************************************************************)
(* The surroundings: the rest of the session, and the process              *)
(***************************************************************************)

Idle == pc \in {"down", "ready"}

\* session.advance_step, of which every executor and the coordinator make a call.
AdvanceStep ==
  /\ cursor' = cursor + 1
  /\ savedCursor' = cursor + 1

\* The end of what the rest of the session does between two plans: the step is
\* counted, or counted in memory and not written, or the executor raises or the
\* process dies before.
StepElsewhere ==
  /\ pc = "ready"
  /\ \/ /\ elsewhere < MaxElsewhere
        /\ elsewhere' = elsewhere + 1
        /\ AdvanceStep
        /\ UNCHANGED <<pc, result, failures>>
     \/ /\ elsewhere < MaxElsewhere /\ failures < MaxFailures
        /\ elsewhere' = elsewhere + 1
        /\ failures' = failures + 1
        /\ cursor' = cursor + 1
        /\ UNCHANGED <<pc, result, savedCursor>>
     \/ /\ failures < MaxFailures
        /\ failures' = failures + 1
        /\ pc' \in {"ready", "down"}
        /\ result' = NoResult
        /\ UNCHANGED <<steps, elsewhere>>
  /\ UNCHANGED <<node, call, attempt, draft, files, begun, runs>>

\* A run of the hypothesis engine puts hypothesis nodes into the tree.
AddHypotheses(new) ==
  /\ ranked' = ranked \cup new
  /\ StepElsewhere
  /\ UNCHANGED stored

\* The coordinator records a node that it dispatched, and may replace its refs,
\* which get_ranked looks for.
RecordDispatched(n) ==
  /\ ranked' \in {ranked, ranked \ {n}}
  /\ StepElsewhere
  /\ UNCHANGED stored

\* A run of the literature miner puts verified facts into the store.
AddFacts(new) ==
  /\ stored' = stored \cup new
  /\ StepElsewhere
  /\ UNCHANGED ranked

Construct ==
  /\ pc = "down"
  /\ pc' = "ready"
  /\ cursor' = savedCursor
  /\ UNCHANGED <<ranked, stored, node, call, attempt, draft, files, savedCursor,
                 result, history>>

\* run is over, with its locals.
Leave(where, r) ==
  /\ pc' = where
  /\ node' = NoNode
  /\ call' = 1
  /\ attempt' = 1
  /\ draft' = Blank
  /\ result' = r

Returned(status) == [node |-> node, status |-> status]

\* A failure is counted, and it is the end of the run, by an exception that run
\* turns into an error result, or of the process.
Fail ==
  /\ failures < MaxFailures
  /\ failures' = failures + 1
  /\ \/ Leave("ready", Returned("error"))
     \/ Leave("down", NoResult)

Crash ==
  /\ pc # "down"
  /\ failures < MaxFailures
  /\ failures' = failures + 1
  /\ Leave("down", NoResult)
  /\ UNCHANGED <<ranked, stored, files, steps, begun, elsewhere, runs>>

-----------------------------------------------------------------------------
(***************************************************************************)
(* run                                                                     *)
(***************************************************************************)

\* The run ends where it began: the node is not a ranked hypothesis, its plan
\* exists, or the file of its plan does not parse.
Answer(n, status) ==
  /\ pc = "ready"
  /\ runs < MaxRuns
  /\ runs' = runs + 1
  /\ result' = [node |-> n, status |-> status]
  /\ UNCHANGED <<pc, ranked, stored, node, call, attempt, draft, files, steps,
                 begun, elsewhere, failures>>

RefuseUnknown(n) == n \notin ranked /\ Answer(n, "error")

\* Fault: a plan read back is counted as one more step.
CountExisting(n) ==
  /\ pc = "ready"
  /\ runs < MaxRuns
  /\ runs' = runs + 1
  /\ json[n].state = "whole"
  /\ AdvanceStep
  /\ result' = [node |-> n, status |-> "done"]
  /\ UNCHANGED <<pc, ranked, stored, node, call, attempt, draft, files, begun,
                 elsewhere, failures>>

ReturnExisting(n) ==
  /\ n \in ranked
  /\ json[n].state = "whole"
  /\ Answer(n, "done")

FailToParse(n) ==
  /\ n \in ranked
  /\ json[n].state = "torn"
  /\ Answer(n, "error")

\* Fault: a plan that failed its gate is not resumed.
AssemblableUnlessPassed(n) == n \in ranked /\ ~json[n].holds.passed

\* The resume guard asks whether the .json exists.
Assemblable(n) == n \in ranked /\ json[n].state = "none"

\* As many of the three calls are made as the budget has.
FirstCall == IF CallBudget >= 1 THEN "call" ELSE "gate"

Begin(n) ==
  /\ pc = "ready"
  /\ runs < MaxRuns
  /\ runs' = runs + 1
  /\ Assemblable(n)
  /\ node' = n
  /\ pc' = FirstCall
  /\ result' = NoResult
  /\ begun' = [begun EXCEPT ![n] = @ + 1]
  /\ UNCHANGED <<ranked, stored, call, attempt, draft, files, steps, elsewhere, failures>>

\* The call in progress is over.
NextCall ==
  /\ attempt' = 1
  /\ IF call < 3 /\ call < CallBudget
     THEN call' = call + 1 /\ UNCHANGED pc
     ELSE pc' = "gate" /\ UNCHANGED call

AnswerReasoning(filled) ==
  /\ pc = "call"
  /\ call = 1
  /\ draft' = [draft EXCEPT !.filled = filled]
  /\ NextCall
  /\ UNCHANGED <<ranked, stored, node, files, steps, result, history>>

AnswerResults(raw) ==
  /\ pc = "call"
  /\ call = 2
  /\ draft' = [draft EXCEPT !.derivation = Coerced(raw), !.confidence = Confidence(Coerced(raw))]
  /\ NextCall
  /\ UNCHANGED <<ranked, stored, node, files, steps, result, history>>

AnswerTitle(filled) ==
  /\ pc = "call"
  /\ call = 3
  /\ draft' = [draft EXCEPT !.filled = @ \cup filled]
  /\ NextCall
  /\ UNCHANGED <<ranked, stored, node, files, steps, result, history>>

\* Fault: a failing call is repeated for as long as it fails.
RetryForever ==
  /\ pc = "call"
  /\ attempt' = 3 - attempt
  /\ UNCHANGED <<pc, call, ranked, stored, node, draft, files, steps, result, history>>

\* The call fails or its answer has the wrong shape: it is tried once more, and
\* then its fields stay empty.
FailCall ==
  /\ pc = "call"
  /\ IF attempt = 1
     THEN attempt' = 2 /\ UNCHANGED <<pc, call>>
     ELSE NextCall
  /\ UNCHANGED <<ranked, stored, node, draft, files, steps, result, history>>

\* The deterministic fields, the references and the gate.
Gate ==
  /\ pc = "gate"
  /\ draft' = Gated([draft EXCEPT !.datasets = Datasets(node),
                                  !.source = Source(node),
                                  !.references = References(node)])
  /\ pc' = "md"
  /\ UNCHANGED <<ranked, stored, node, call, attempt, files, steps, result, history>>

\* Fault: the .json is written although the .md could not be.
WriteMdOrNot ==
  /\ pc = "md"
  /\ md' \in {md, [md EXCEPT ![node] = Whole(Markdown(draft))]}
  /\ pc' = "json"
  /\ UNCHANGED <<ranked, stored, node, call, attempt, draft, json, steps, result, history>>

\* The Markdown is written first ...
WriteMd ==
  /\ pc = "md"
  /\ md' = [md EXCEPT ![node] = Whole(Markdown(draft))]
  /\ pc' = "json"
  /\ UNCHANGED <<ranked, stored, node, call, attempt, draft, json, steps, result, history>>

\* (write_text truncates the file and then fills it)
WriteMdCutShort ==
  /\ pc = "md"
  /\ md' = [md EXCEPT ![node] = Torn(Markdown(Blank))]
  /\ Fail
  /\ UNCHANGED <<ranked, stored, json, steps, begun, elsewhere, runs>>

\* ... and then the .json, which the resume guard looks for.
WriteJson ==
  /\ pc = "json"
  /\ json' = [json EXCEPT ![node] = Whole(draft)]
  /\ pc' = "advance"
  /\ UNCHANGED <<ranked, stored, node, call, attempt, draft, md, steps, result, history>>

WriteJsonCutShort ==
  /\ pc = "json"
  /\ json' = [json EXCEPT ![node] = Torn(Blank)]
  /\ Fail
  /\ UNCHANGED <<ranked, stored, md, steps, begun, elsewhere, runs>>

\* The step is counted, and the result is "done".
Advance ==
  /\ pc = "advance"
  /\ AdvanceStep
  /\ Leave("ready", Returned("done"))
  /\ UNCHANGED <<ranked, stored, files, history>>

\* The cursor is counted in memory and then not written.
AdvanceUnsaved ==
  /\ pc = "advance"
  /\ cursor' = cursor + 1
  /\ Fail
  /\ UNCHANGED <<ranked, stored, files, savedCursor, begun, elsewhere, runs>>

-----------------------------------------------------------------------------
\* What run does once it has begun.
Work ==
  \/ \E filled \in SUBSET ReasoningFields : AnswerReasoning(filled)
  \/ \E raw \in Derivations : AnswerResults(raw)
  \/ \E filled \in SUBSET TitleFields : AnswerTitle(filled)
  \/ FailCall
  \/ Gate
  \/ WriteMd
  \/ WriteJson
  \/ Advance

Next ==
  \/ \E new \in SUBSET Nodes : AddHypotheses(new)
  \/ \E n \in Nodes : RecordDispatched(n)
  \/ \E new \in SUBSET Facts : AddFacts(new)
  \/ Construct
  \/ \E n \in Nodes : RefuseUnknown(n) \/ ReturnExisting(n) \/ FailToParse(n) \/ Begin(n)
  \/ Work
  \/ WriteMdCutShort
  \/ WriteJsonCutShort
  \/ AdvanceUnsaved
  \/ Crash

Spec == Init /\ [][Next]_vars

\* A run that has begun goes on: the provider answers or its call fails.
FairSpec == Spec /\ WF_vars(Work)

-----------------------------------------------------------------------------
(***************************************************************************)
(* Properties                                                              *)
(***************************************************************************)

Planned == {n \in Nodes : json[n].state = "whole"}

\* Whenever a .json exists, even a torn one, the .md beside it is whole and
\* shows the same plan, whatever was cut short or begun again in between.
JsonHasMarkdown ==
  \A n \in Nodes :
    /\ json[n].state # "none" => md[n].state = "whole"
    /\ json[n].state = "whole" => md[n].holds = Markdown(json[n].holds)

\* A plan that passed its gate, in the file or about to get there, stands on
\* facts that are in the store, each with its paper among the references; its
\* source is not the marker; its last step has one of the two grades that are no
\* guess, whatever grade the provider named, and whatever the steps before it are, as
\* the test of the downgrade has it (its docstring does not); all calls answered.
Grounded(n, p) ==
  /\ p.source # {} /\ p.source \subseteq Cites[n] \cap stored
  /\ p.references = {PaperOf[f] : f \in p.source}
  /\ p.derivation # <<>>
  /\ p.derivation[Len(p.derivation)] \in {"paper", "inferred"}
  /\ p.filled = Fields
PassedPlansAreGrounded ==
  /\ \A n \in Planned : json[n].holds.passed => Grounded(n, json[n].holds)
  /\ draft.passed => Grounded(node, draft)

\* A plan is assembled once: neither of its files ever changes again, and no
\* fact that arrives later changes what its gate said.
PlansAreFinal ==
  [][\A n \in Planned : json'[n] = json[n] /\ md'[n] = md[n]]_vars

\* However often a node is asked for, its plan is paid for once, and once more
\* for each failure.
NoRespend ==
  \A n \in Nodes :
    begun[n] <= failures + (IF json[n].state # "none" \/ n = node THEN 1 ELSE 0)

\* Every step of the session is counted once: the cursor, in memory and in
\* run.json, is never ahead of the plans that exist and the steps elsewhere, and
\* behind by the plan in hand and by one for each failure at most.
CursorCountsSteps ==
  LET done == Cardinality(Planned) + elsewhere
  IN  /\ cursor <= done
      /\ savedCursor <= done
      /\ done <= savedCursor + failures + (IF pc = "advance" THEN 1 ELSE 0)

\* A run comes to an end.
RunEnds == (pc \in InAssemble) ~> Idle

(***************************************************************************)
(* What the code's own text says and the code does not do                  *)
(***************************************************************************)

\* "A partial plan is NEVER persisted on error": after an error result there is
\* a whole plan or nothing.
NoPartialPlanOnError ==
  result.status = "error" =>
    \/ md[result.node].state = "none" /\ json[result.node].state = "none"
    \/ md[result.node].state = "whole" /\ json[result.node].state = "whole"
=============================================================================
