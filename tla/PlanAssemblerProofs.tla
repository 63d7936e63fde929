------------------------ MODULE PlanAssemblerProofs ------------------------
(***************************************************************************)
(* Proofs about PlanAssembler, for any hypotheses, facts and answers, and  *)
(* any number of runs and failures.  What carries the proofs is where the  *)
(* two files are while a run is under way (FilesInStep), and that a draft  *)
(* has no gate result before the gate (UngatedDraft).                      *)
(***************************************************************************)
EXTENDS PlanAssembler, FiniteSetTheorems, TLAPS

-----------------------------------------------------------------------------
\* The .json is missing until the run writes it; the .md comes first.
FilesInStep ==
  /\ pc \in {"call", "gate", "md", "json"} => json[node].state = "none"
  /\ pc = "json" => md[node] = Whole(Markdown(draft))
  /\ pc = "advance" => json[node] = Whole(draft) /\ md[node] = Whole(Markdown(draft))

\* Before the gate there is no gate result, and the confidence is about the
\* derivation.
UngatedDraft ==
  /\ pc \in {"down", "ready"} => draft = Blank
  /\ pc \in {"call", "gate"} => ~draft.passed
  /\ draft.confidence = Confidence(draft.derivation)

IInv == TypeOK /\ JsonHasMarkdown /\ FilesInStep

GroundedInv == IInv /\ UngatedDraft /\ PassedPlansAreGrounded

-----------------------------------------------------------------------------
(***************************************************************************)
(* Lemmas about the parts of a plan                                        *)
(***************************************************************************)

LEMMA BlankIsPlan == Blank \in Plan
  BY DEF Blank, Plan, Grades

\* Whatever was called a grade becomes one of the three.
LEMMA CoercedIsDerivation ==
  ASSUME NEW raw \in Derivations
  PROVE  Coerced(raw) \in Seq(Grades) /\ Len(Coerced(raw)) = Len(raw)
<1>1. raw \in Seq(Grades \cup {"other"})
  BY DerivationsAssumption
<1>2. Len(raw) \in Nat /\ DOMAIN raw = 1 .. Len(raw)
  BY <1>1
<1>3. \A i \in DOMAIN raw : (IF raw[i] \in Grades THEN raw[i] ELSE "guess") \in Grades
  BY DEF Grades
<1>4. Coerced(raw) \in [1 .. Len(raw) -> Grades]
  BY <1>2, <1>3 DEF Coerced
<1> QED
  BY <1>2, <1>4

LEMMA ConfidenceIsGrade == \A d : Confidence(d) \in {"low", "final"}
  BY DEF Confidence

\* A gated plan is a plan, and its gate says whether all checks passed.
LEMMA GatedIsPlan ==
  ASSUME NEW p \in Plan
  PROVE  /\ Gated(p) \in Plan
         /\ Gated(p).passed <=> GateFailures(p) = {}
         /\ Gated(p).filled = p.filled
         /\ Gated(p).derivation = p.derivation
         /\ Gated(p).confidence = p.confidence
         /\ Gated(p).source = p.source
         /\ Gated(p).references = p.references
<1>1. GateFailures(p) \subseteq Checks
  BY DEF GateFailures, Checks, Fields
<1>2. (GateFailures(p) = {}) \in BOOLEAN
  OBVIOUS
<1> QED
  BY <1>1, <1>2 DEF Gated, Plan

\* The deterministic parts have the types a plan needs.
LEMMA PartsOfPlan ==
  ASSUME NEW n \in Nodes, stored \in SUBSET Facts
  PROVE  /\ Datasets(n) \in SUBSET (Facts \cup {NoFact})
         /\ Source(n) \in SUBSET (Facts \cup {NoFact})
         /\ References(n) \in SUBSET Papers
  BY FactsAssumption DEF Datasets, Source, References, OrMarker, Grounding

\* The plan that is put before the gate.
Complete(n) == [draft EXCEPT !.datasets = Datasets(n),
                             !.source = Source(n),
                             !.references = References(n)]

LEMMA CompleteIsPlan ==
  ASSUME NEW n \in Nodes, TypeOK
  PROVE  /\ Complete(n) \in Plan
         /\ Complete(n).filled = draft.filled
         /\ Complete(n).derivation = draft.derivation
         /\ Complete(n).confidence = draft.confidence
         /\ Complete(n).source = Source(n)
         /\ Complete(n).references = References(n)
  BY PartsOfPlan DEF Complete, TypeOK, Plan

LEMMA FilesAreTyped ==
  ASSUME NEW p \in Plan
  PROVE  /\ Markdown(p) \in Sections
         /\ Whole(p) \in File(Plan) /\ Whole(Markdown(p)) \in File(Sections)
         /\ Torn(p) \in File(Plan) /\ Torn(Markdown(p)) \in File(Sections)
         /\ Missing(p) \in File(Plan) /\ Missing(Markdown(p)) \in File(Sections)
<1>1. Markdown(p) \in Sections
  BY DEF Markdown, Sections, Plan
<1> QED
  BY <1>1 DEF Whole, Torn, Missing, File

-----------------------------------------------------------------------------
(***************************************************************************)
(* Types                                                                   *)
(***************************************************************************)

LEMMA InitInvariant == Init => IInv
<1> SUFFICES ASSUME Init PROVE IInv
  OBVIOUS
<1>1. Blank \in Plan
  BY BlankIsPlan
<1>2. Missing(Blank) \in File(Plan) /\ Missing(Markdown(Blank)) \in File(Sections)
  BY <1>1, FilesAreTyped
<1>3. TypeOK
  BY <1>1, <1>2 DEF Init, TypeOK, NoResult, Results, InAssemble
<1>4. \A n \in Nodes : json[n].state = "none"
  BY DEF Init, Missing
<1> QED
  BY <1>3, <1>4 DEF Init, IInv, JsonHasMarkdown, FilesInStep

LEMMA LeaveTyped ==
  ASSUME TypeOK, NEW r \in Results, NEW where \in {"down", "ready"}, Leave(where, r)
  PROVE  /\ pc' \in {"down", "ready"} /\ node' = NoNode
         /\ call' \in 1 .. 3 /\ attempt' \in 1 .. 2
         /\ draft' = Blank /\ draft' \in Plan /\ result' \in Results
         /\ node' \in (IF pc' \in InAssemble THEN Nodes ELSE {NoNode})
  BY BlankIsPlan DEF Leave, InAssemble

LEMMA ReturnedTyped ==
  ASSUME TypeOK, pc \in InAssemble
  PROVE  /\ Returned("done") \in Results /\ Returned("error") \in Results
         /\ NoResult \in Results
  BY DEF TypeOK, Returned, Results, NoResult

LEMMA FailTyped ==
  ASSUME TypeOK, pc \in InAssemble, Fail
  PROVE  /\ pc' \in {"down", "ready"} /\ node' = NoNode
         /\ call' \in 1 .. 3 /\ attempt' \in 1 .. 2
         /\ draft' = Blank /\ draft' \in Plan /\ result' \in Results
         /\ node' \in (IF pc' \in InAssemble THEN Nodes ELSE {NoNode})
         /\ failures' \in Nat /\ failures' = failures + 1
<1>1. failures' \in Nat /\ failures' = failures + 1
  BY DEF Fail, TypeOK
<1>2. CASE Leave("ready", Returned("error"))
  BY <1>1, <1>2, ReturnedTyped, LeaveTyped
<1>3. CASE Leave("down", NoResult)
  BY <1>1, <1>3, ReturnedTyped, LeaveTyped
<1> QED
  BY <1>2, <1>3 DEF Fail

LEMMA NextCallTyped ==
  ASSUME TypeOK, pc = "call", NextCall
  PROVE  /\ pc' \in {"call", "gate"}
         /\ call' \in 1 .. 3 /\ attempt' \in 1 .. 2
<1>1. call \in 1 .. 3 /\ call < 3 => call + 1 \in 1 .. 3
  OBVIOUS
<1> QED
  BY <1>1 DEF NextCall, TypeOK

\* A step of run in which the provider answers or fails.
Calls ==
  \/ \E filled \in SUBSET ReasoningFields : AnswerReasoning(filled)
  \/ \E raw \in Derivations : AnswerResults(raw)
  \/ \E filled \in SUBSET TitleFields : AnswerTitle(filled)
  \/ FailCall

\* The draft after such a step.
LEMMA CallsDraft ==
  ASSUME TypeOK, Calls
  PROVE  /\ draft' \in Plan
         /\ draft'.passed = draft.passed
         /\ draft.confidence = Confidence(draft.derivation)
              => draft'.confidence = Confidence(draft'.derivation)
<1> USE DEF TypeOK
<1>1. ASSUME NEW filled \in SUBSET ReasoningFields, AnswerReasoning(filled)
      PROVE  draft' \in Plan /\ draft'.passed = draft.passed
             /\ draft'.confidence = draft.confidence /\ draft'.derivation = draft.derivation
  BY <1>1 DEF AnswerReasoning, Plan, Fields
<1>2. ASSUME NEW raw \in Derivations, AnswerResults(raw)
      PROVE  draft' \in Plan /\ draft'.passed = draft.passed
             /\ draft'.confidence = Confidence(draft'.derivation)
  <2>1. Coerced(raw) \in Seq(Grades)
    BY CoercedIsDerivation
  <2>2. Confidence(Coerced(raw)) \in {"low", "final"}
    BY ConfidenceIsGrade
  <2>3. draft' = [draft EXCEPT !.derivation = Coerced(raw),
                               !.confidence = Confidence(Coerced(raw))]
    BY <1>2 DEF AnswerResults
  <2> QED
    BY <2>1, <2>2, <2>3 DEF Plan
<1>3. ASSUME NEW filled \in SUBSET TitleFields, AnswerTitle(filled)
      PROVE  draft' \in Plan /\ draft'.passed = draft.passed
             /\ draft'.confidence = draft.confidence /\ draft'.derivation = draft.derivation
  BY <1>3 DEF AnswerTitle, Plan, Fields
<1>4. CASE FailCall
  BY <1>4 DEF FailCall
<1> QED
  BY <1>1, <1>2, <1>3, <1>4 DEF Calls

\* It moves within the calls, or on to the gate, and touches nothing else.
LEMMA CallsMove ==
  ASSUME TypeOK, Calls
  PROVE  /\ pc = "call" /\ pc' \in {"call", "gate"}
         /\ call' \in 1 .. 3 /\ attempt' \in 1 .. 2
         /\ UNCHANGED <<ranked, stored, node, files, steps, result, history>>
<1>1. CASE \E filled \in SUBSET ReasoningFields : AnswerReasoning(filled)
  BY <1>1, NextCallTyped DEF AnswerReasoning
<1>2. CASE \E raw \in Derivations : AnswerResults(raw)
  BY <1>2, NextCallTyped DEF AnswerResults
<1>3. CASE \E filled \in SUBSET TitleFields : AnswerTitle(filled)
  BY <1>3, NextCallTyped DEF AnswerTitle
<1>4. CASE FailCall
  <2>1. CASE attempt = 1
    BY <1>4, <2>1 DEF FailCall, TypeOK
  <2>2. CASE attempt # 1
    BY <1>4, <2>2, NextCallTyped DEF FailCall
  <2> QED
    BY <2>1, <2>2
<1> QED
  BY <1>1, <1>2, <1>3, <1>4 DEF Calls

-----------------------------------------------------------------------------
(***************************************************************************)
(* One lemma for each kind of step                                         *)
(***************************************************************************)

\* What the rest of the session does between two plans.
Elsewhere ==
  \/ \E new \in SUBSET Nodes : AddHypotheses(new)
  \/ \E n \in Nodes : RecordDispatched(n)
  \/ \E new \in SUBSET Facts : AddFacts(new)

\* Whatever it is, it ends in StepElsewhere, and only adds facts.
LEMMA ElsewhereFacts ==
  ASSUME TypeOK, Elsewhere
  PROVE  /\ StepElsewhere
         /\ stored \subseteq stored' /\ ranked' \in SUBSET Nodes /\ stored' \in SUBSET Facts
<1> USE DEF TypeOK
<1>1. CASE \E new \in SUBSET Nodes : AddHypotheses(new)
  BY <1>1 DEF AddHypotheses
<1>2. CASE \E n \in Nodes : RecordDispatched(n)
  BY <1>2 DEF RecordDispatched
<1>3. CASE \E new \in SUBSET Facts : AddFacts(new)
  BY <1>3 DEF AddFacts
<1> QED
  BY <1>1, <1>2, <1>3 DEF Elsewhere

\* StepElsewhere moves the cursor and its count together, but for a failure.
LEMMA StepElsewhereFacts ==
  ASSUME TypeOK, StepElsewhere
  PROVE  /\ pc = "ready" /\ pc' \in {"down", "ready"}
         /\ cursor' \in Nat /\ savedCursor' \in Nat /\ elsewhere' \in Nat
         /\ result' \in Results
         /\ failures \in Nat /\ failures' \in {failures, failures + 1}
         /\ UNCHANGED <<node, call, attempt, draft, files, begun, runs>>
<1>1. NoResult \in Results
  BY DEF NoResult, Results
<1>2. cursor \in Nat /\ savedCursor \in Nat /\ elsewhere \in Nat /\ failures \in Nat
  BY DEF TypeOK
<1> QED
  BY <1>1, <1>2 DEF StepElsewhere, AdvanceStep, steps, TypeOK

\* Between runs the surroundings change, and a run may end where it began.
Between ==
  \/ Elsewhere
  \/ Construct
  \/ \E n \in Nodes : RefuseUnknown(n) \/ ReturnExisting(n) \/ FailToParse(n)

LEMMA BetweenFacts ==
  ASSUME TypeOK, Between
  PROVE  /\ pc \in {"down", "ready"} /\ pc' \in {"down", "ready"}
         /\ stored \subseteq stored' /\ ranked' \in SUBSET Nodes /\ stored' \in SUBSET Facts
         /\ cursor' \in Nat /\ savedCursor' \in Nat /\ elsewhere' \in Nat
         /\ result' \in Results /\ runs' \in Nat
         /\ failures \in Nat /\ failures' \in {failures, failures + 1}
         /\ UNCHANGED <<node, call, attempt, draft, files, begun>>
<1> USE DEF TypeOK
<1>1. CASE Elsewhere
  BY <1>1, ElsewhereFacts, StepElsewhereFacts DEF files
<1>3. CASE Construct
  BY <1>3 DEF Construct, files, history
<1>4. CASE \E n \in Nodes : RefuseUnknown(n) \/ ReturnExisting(n) \/ FailToParse(n)
  <2>1. PICK n \in Nodes, status \in {"done", "error"} : Answer(n, status)
    BY <1>4 DEF RefuseUnknown, ReturnExisting, FailToParse
  <2>2. [node |-> n, status |-> status] \in Results
    BY DEF Results
  <2> QED
    BY <2>1, <2>2 DEF Answer, files, steps
<1> QED
  BY <1>1, <1>3, <1>4 DEF Between

LEMMA BeginTyped ==
  ASSUME TypeOK, NEW n \in Nodes, Begin(n)
  PROVE  /\ pc' \in {"call", "gate"} /\ node' = n /\ TypeOK'
<1> USE DEF TypeOK
<1>1. pc' \in {"call", "gate"} /\ node' = n
  BY DEF Begin, FirstCall
<1>2. begun' \in [Nodes -> Nat] /\ runs' \in Nat
  BY DEF Begin
<1>3. result' \in Results
  BY DEF Begin, NoResult, Results
<1> QED
  BY <1>1, <1>2, <1>3 DEF Begin, InAssemble, files, steps

LEMMA GateTyped ==
  ASSUME TypeOK, Gate
  PROVE  /\ pc = "gate" /\ pc' = "md" /\ node \in Nodes
         /\ draft' = Gated(Complete(node)) /\ draft' \in Plan
         /\ TypeOK'
<1>1. pc = "gate" /\ pc' = "md" /\ node \in Nodes
  BY DEF Gate, TypeOK, InAssemble
<1>2. draft' = Gated(Complete(node))
  BY DEF Gate, Complete
<1>3. draft' \in Plan
  BY <1>1, <1>2, CompleteIsPlan, GatedIsPlan
<1> QED
  BY <1>1, <1>2, <1>3 DEF Gate, TypeOK, InAssemble, files, steps, history

LEMMA WriteMdTyped ==
  ASSUME TypeOK, WriteMd
  PROVE  /\ pc = "md" /\ pc' = "json" /\ node \in Nodes /\ TypeOK'
<1>1. pc = "md" /\ pc' = "json" /\ node \in Nodes
  BY DEF WriteMd, TypeOK, InAssemble
<1>2. md' \in [Nodes -> File(Sections)]
  BY <1>1, FilesAreTyped DEF WriteMd, TypeOK
<1> QED
  BY <1>1, <1>2 DEF WriteMd, TypeOK, InAssemble, steps, history

LEMMA WriteJsonTyped ==
  ASSUME TypeOK, WriteJson
  PROVE  /\ pc = "json" /\ pc' = "advance" /\ node \in Nodes /\ TypeOK'
<1>1. pc = "json" /\ pc' = "advance" /\ node \in Nodes
  BY DEF WriteJson, TypeOK, InAssemble
<1>2. json' \in [Nodes -> File(Plan)]
  BY <1>1, FilesAreTyped DEF WriteJson, TypeOK
<1> QED
  BY <1>1, <1>2 DEF WriteJson, TypeOK, InAssemble, steps, history

\* Where a run ends by a failure or normally.
Ending == WriteMdCutShort \/ WriteJsonCutShort \/ AdvanceUnsaved \/ Advance \/ Crash

LEMMA EndingTyped ==
  ASSUME TypeOK, Ending
  PROVE  /\ pc' \in {"down", "ready"} /\ node' = NoNode /\ draft' = Blank
         /\ failures \in Nat /\ failures' \in {failures, failures + 1}
         /\ (WriteMdCutShort \/ WriteJsonCutShort) => failures' = failures + 1
         /\ UNCHANGED <<stored, begun>>
         /\ TypeOK'
<1> USE DEF TypeOK
<1>1. CASE WriteMdCutShort
  <2>1. pc \in InAssemble /\ node \in Nodes
    BY <1>1 DEF WriteMdCutShort, InAssemble
  <2>2. md' \in [Nodes -> File(Sections)]
    BY <1>1, <2>1, BlankIsPlan, FilesAreTyped DEF WriteMdCutShort
  <2> QED
    BY <1>1, <2>1, <2>2, FailTyped DEF WriteMdCutShort, steps
<1>2. CASE WriteJsonCutShort
  <2>1. pc \in InAssemble /\ node \in Nodes
    BY <1>2 DEF WriteJsonCutShort, InAssemble
  <2>2. json' \in [Nodes -> File(Plan)]
    BY <1>2, <2>1, BlankIsPlan, FilesAreTyped DEF WriteJsonCutShort
  <2> QED
    BY <1>2, <2>1, <2>2, FailTyped DEF WriteJsonCutShort, steps
<1>3. CASE AdvanceUnsaved
  <2>1. pc \in InAssemble
    BY <1>3 DEF AdvanceUnsaved, InAssemble
  <2>2. ~WriteMdCutShort /\ ~WriteJsonCutShort
    BY <1>3 DEF AdvanceUnsaved, WriteMdCutShort, WriteJsonCutShort
  <2> QED
    BY <1>3, <2>1, <2>2, FailTyped DEF AdvanceUnsaved, files
<1>4. CASE Advance
  <2>1. pc \in InAssemble
    BY <1>4 DEF Advance, InAssemble
  <2>2. Leave("ready", Returned("done"))
    BY <1>4 DEF Advance
  <2>3. ~WriteMdCutShort /\ ~WriteJsonCutShort
    BY <1>4 DEF Advance, WriteMdCutShort, WriteJsonCutShort
  <2> QED
    BY <1>4, <2>1, <2>2, <2>3, ReturnedTyped, LeaveTyped
    DEF Advance, AdvanceStep, files, history
<1>5. CASE Crash
  <2>1. NoResult \in Results
    BY DEF NoResult, Results
  <2>2. Leave("down", NoResult) /\ failures' = failures + 1
    BY <1>5 DEF Crash
  <2> QED
    BY <1>5, <2>1, <2>2, LeaveTyped DEF Crash, files, steps
<1> QED
  BY <1>1, <1>2, <1>3, <1>4, <1>5 DEF Ending

LEMMA StepKinds ==
  ASSUME [Next]_vars
  PROVE  \/ Between \/ (\E n \in Nodes : Begin(n)) \/ Calls \/ Gate
         \/ WriteMd \/ WriteJson \/ Ending \/ UNCHANGED vars
  BY DEF Next, Work, Between, Elsewhere, Calls, Ending

-----------------------------------------------------------------------------
(***************************************************************************)
(* The invariant                                                           *)
(***************************************************************************)

LEMMA TypeStep ==
  ASSUME TypeOK, [Next]_vars
  PROVE  TypeOK'
<1>1. CASE Between
  BY <1>1, BetweenFacts DEF TypeOK, InAssemble, files
<1>2. CASE \E n \in Nodes : Begin(n)
  BY <1>2, BeginTyped
<1>3. CASE Calls
  BY <1>3, CallsDraft, CallsMove DEF TypeOK, InAssemble, files, steps, history
<1>4. CASE Gate \/ WriteMd \/ WriteJson
  BY <1>4, GateTyped, WriteMdTyped, WriteJsonTyped
<1>5. CASE Ending
  BY <1>5, EndingTyped
<1>6. CASE UNCHANGED vars
  BY <1>6 DEF vars, TypeOK
<1> QED
  BY <1>1, <1>2, <1>3, <1>4, <1>5, <1>6, StepKinds

LEMMA FilesStep ==
  ASSUME IInv, [Next]_vars
  PROVE  JsonHasMarkdown' /\ FilesInStep'
<1> USE DEF IInv, JsonHasMarkdown, FilesInStep
<1>1. CASE Between
  BY <1>1, BetweenFacts DEF files
<1>2. CASE \E n \in Nodes : Begin(n)
  <2>1. PICK n \in Nodes : Begin(n)
    BY <1>2
  <2> QED
    BY <2>1, BeginTyped DEF Begin, Assemblable, files
<1>3. CASE Calls
  BY <1>3, CallsMove DEF files
<1>4. CASE Gate
  BY <1>4, GateTyped DEF Gate, files
<1>5. CASE WriteMd
  <2>1. node \in Nodes /\ pc = "md" /\ pc' = "json" /\ json[node].state = "none"
    BY <1>5, WriteMdTyped
  <2>2. /\ md' = [md EXCEPT ![node] = Whole(Markdown(draft))]
        /\ UNCHANGED <<json, node, draft>>
    BY <1>5 DEF WriteMd
  <2>3. md'[node] = Whole(Markdown(draft)) /\ \A n \in Nodes \ {node} : md'[n] = md[n]
    BY <2>1, <2>2 DEF TypeOK
  <2> QED
    BY <2>1, <2>2, <2>3
<1>6. CASE WriteJson
  <2>1. node \in Nodes /\ pc = "json" /\ pc' = "advance"
    BY <1>6, WriteJsonTyped
  <2>2. /\ json' = [json EXCEPT ![node] = Whole(draft)]
        /\ UNCHANGED <<md, node, draft>>
    BY <1>6 DEF WriteJson
  <2>3. json'[node] = Whole(draft) /\ \A n \in Nodes \ {node} : json'[n] = json[n]
    BY <2>1, <2>2 DEF TypeOK
  <2>4. md[node] = Whole(Markdown(draft))
    BY <2>1
  <2> QED
    BY <2>1, <2>2, <2>3, <2>4 DEF Whole
<1>7. CASE Ending
  <2>1. pc' \in {"down", "ready"}
    BY <1>7, EndingTyped
  <2>2. CASE WriteMdCutShort
    <3>1. node \in Nodes /\ json[node].state = "none"
      BY <2>2 DEF WriteMdCutShort, TypeOK, InAssemble
    <3>2. \A n \in Nodes \ {node} : md'[n] = md[n]
      BY <2>2 DEF WriteMdCutShort, TypeOK
    <3> QED
      BY <2>1, <2>2, <3>1, <3>2 DEF WriteMdCutShort
  <2>3. CASE WriteJsonCutShort
    <3>1. node \in Nodes /\ md[node] = Whole(Markdown(draft))
      BY <2>3 DEF WriteJsonCutShort, TypeOK, InAssemble
    <3>2. json'[node] = Torn(Blank) /\ \A n \in Nodes \ {node} : json'[n] = json[n]
      BY <2>3, <3>1 DEF WriteJsonCutShort, TypeOK
    <3> QED
      BY <2>1, <2>3, <3>1, <3>2 DEF WriteJsonCutShort, Torn, Whole
  <2>4. CASE AdvanceUnsaved \/ Advance \/ Crash
    BY <2>1, <2>4 DEF AdvanceUnsaved, Advance, Crash, files
  <2> QED
    BY <1>7, <2>2, <2>3, <2>4 DEF Ending
<1>8. CASE UNCHANGED vars
  BY <1>8 DEF vars
<1> QED
  BY <1>1, <1>2, <1>3, <1>4, <1>5, <1>6, <1>7, <1>8, StepKinds

LEMMA Invariant == Spec => []IInv
<1>1. Init => IInv
  BY InitInvariant
<1>2. IInv /\ [Next]_vars => IInv'
  BY TypeStep, FilesStep DEF IInv
<1> QED
  BY <1>1, <1>2, PTL DEF Spec

\* In every behaviour of the plan assembler the variables have their types.
THEOREM PlanTypesHold == Spec => []TypeOK
<1>1. IInv => TypeOK
  BY DEF IInv
<1> QED
  BY <1>1, Invariant, PTL

\* Whatever write is cut short and however often a node is asked for again, a
\* .json, even a torn one, has beside it a whole .md, and a whole .json has the
\* .md of the same plan: writing the .md first is enough.
THEOREM PlansAreShown == Spec => []JsonHasMarkdown
<1>1. IInv => JsonHasMarkdown
  BY DEF IInv
<1> QED
  BY <1>1, Invariant, PTL

-----------------------------------------------------------------------------
(***************************************************************************)
(* Plans do not change                                                     *)
(***************************************************************************)

LEMMA PlansStay ==
  ASSUME IInv, [Next]_vars
  PROVE  \A n \in Planned : json'[n] = json[n] /\ md'[n] = md[n]
<1> SUFFICES ASSUME NEW n \in Nodes, json[n].state = "whole"
             PROVE  json'[n] = json[n] /\ md'[n] = md[n]
  BY DEF Planned
<1>1. CASE WriteMd \/ WriteMdCutShort
  <2>1. node # n
    BY <1>1 DEF IInv, FilesInStep, WriteMd, WriteMdCutShort
  <2> QED
    BY <1>1, <2>1 DEF WriteMd, WriteMdCutShort, IInv, TypeOK
<1>2. CASE WriteJson \/ WriteJsonCutShort
  <2>1. node # n
    BY <1>2 DEF IInv, FilesInStep, WriteJson, WriteJsonCutShort
  <2> QED
    BY <1>2, <2>1 DEF WriteJson, WriteJsonCutShort, IInv, TypeOK
<1>3. CASE AdvanceUnsaved \/ Advance \/ Crash \/ UNCHANGED vars
  BY <1>3 DEF AdvanceUnsaved, Advance, Crash, vars, files
<1>4. CASE Between \/ Calls \/ Gate \/ (\E m \in Nodes : Begin(m))
  BY <1>4, BetweenFacts, CallsMove DEF IInv, Gate, Begin, files
<1> QED
  BY <1>1, <1>2, <1>3, <1>4, StepKinds DEF Ending

\* Neither file of a plan ever changes once its .json is whole.
THEOREM PlansNeverChange == Spec => PlansAreFinal
<1>1. IInv /\ [Next]_vars => [\A n \in Planned : json'[n] = json[n] /\ md'[n] = md[n]]_vars
  BY PlansStay
<1> QED
  BY <1>1, Invariant, PTL DEF Spec, PlansAreFinal

-----------------------------------------------------------------------------
(***************************************************************************)
(* A plan is paid for once                                                 *)
(***************************************************************************)

LEMMA SpendStep ==
  ASSUME IInv, NoRespend, [Next]_vars
  PROVE  NoRespend'
<1> USE DEF NoRespend
<1>1. CASE Between
  <2>1. /\ node' = node /\ json' = json /\ begun' = begun
        /\ failures \in Nat /\ failures' \in {failures, failures + 1}
        /\ begun \in [Nodes -> Nat]
    BY <1>1, BetweenFacts DEF IInv, files, TypeOK
  <2>2. \A n \in Nodes :
          begun[n] <= failures' + (IF json[n].state # "none" \/ n = node THEN 1 ELSE 0)
    BY <2>1
  <2> QED
    BY <2>1, <2>2
<1>2. CASE \E n \in Nodes : Begin(n)
  <2>1. PICK n \in Nodes : Begin(n)
    BY <1>2
  <2>2. /\ begun'[n] = begun[n] + 1 /\ \A m \in Nodes \ {n} : begun'[m] = begun[m]
        /\ begun \in [Nodes -> Nat] /\ failures \in Nat
    BY <2>1 DEF Begin, IInv, TypeOK
  <2>3. json[n].state = "none" /\ node = NoNode /\ n # NoNode
    BY <2>1, NoNodeAssumption DEF Begin, Assemblable, IInv, TypeOK, InAssemble
  <2>4. node' = n /\ UNCHANGED <<json, failures>>
    BY <2>1 DEF Begin, files
  <2>5. begun[n] <= failures
    BY <2>2, <2>3
  <2>6. \A m \in Nodes \ {n} : m # node
    BY <2>3, NoNodeAssumption
  <2> QED
    BY <2>2, <2>3, <2>4, <2>5, <2>6
<1>3. CASE Calls \/ Gate \/ WriteMd
  BY <1>3, CallsMove DEF IInv, Gate, WriteMd, files, history
<1>4. CASE WriteJson
  <2>1. \A m \in Nodes : json'[m].state # "none" \/ m = node' <=> json[m].state # "none" \/ m = node
    BY <1>4 DEF WriteJson, IInv, TypeOK, Whole
  <2> QED
    BY <1>4, <2>1 DEF WriteJson, history
<1>5. CASE Ending
  <2>1. /\ begun' = begun /\ failures \in Nat /\ failures' \in {failures, failures + 1}
        /\ begun \in [Nodes -> Nat] /\ node' = NoNode
    BY <1>5, EndingTyped DEF IInv, TypeOK
  <2>2. \A m \in Nodes : json[m].state # "none" => json'[m].state # "none"
    BY <1>5 DEF Ending, WriteMdCutShort, WriteJsonCutShort, AdvanceUnsaved, Advance,
                Crash, files, IInv, TypeOK, Torn
  <2>3. CASE Advance
    <3>1. node \in Nodes /\ json[node].state = "whole" /\ json' = json /\ failures' = failures
      BY <2>3 DEF Advance, IInv, TypeOK, InAssemble, FilesInStep, Whole, files, history
    <3> QED
      BY <2>1, <3>1
  <2>4. CASE ~Advance
    <3>1. failures' = failures + 1
      BY <1>5, <2>4 DEF Ending, WriteMdCutShort, WriteJsonCutShort, AdvanceUnsaved, Crash, Fail
    <3> QED
      BY <2>1, <2>2, <3>1
  <2> QED
    BY <2>3, <2>4
<1>6. CASE UNCHANGED vars
  BY <1>6 DEF vars
<1> QED
  BY <1>1, <1>2, <1>3, <1>4, <1>5, <1>6, StepKinds

\* For any number of runs the plan of a node is begun once, and once more for
\* each failure at most: no request makes the provider work for a plan again.
THEOREM PlansArePaidOnce == Spec => []NoRespend
<1>1. Init => NoRespend
  BY DEF Init, NoRespend
<1>2. IInv /\ NoRespend /\ [Next]_vars => NoRespend'
  BY SpendStep
<1> QED
  BY <1>1, <1>2, Invariant, PTL DEF Spec

-----------------------------------------------------------------------------
(***************************************************************************)
(* What passed the gate is grounded                                        *)
(***************************************************************************)

\* A gate that passes has found every field, a source and a last step.
LEMMA GatePassesGrounded ==
  ASSUME GroundedInv, Gate, draft'.passed
  PROVE  Grounded(node, draft')
<1>1. node \in Nodes /\ draft' = Gated(Complete(node))
  BY GateTyped DEF GroundedInv, IInv
<1>2. Complete(node) \in Plan
  BY <1>1, CompleteIsPlan DEF GroundedInv, IInv
<1>3. GateFailures(Complete(node)) = {}
  BY <1>1, <1>2, GatedIsPlan
<1>4. /\ Complete(node).filled = draft.filled /\ Complete(node).derivation = draft.derivation
      /\ Complete(node).confidence = draft.confidence
      /\ Complete(node).source = Source(node) /\ Complete(node).references = References(node)
  BY <1>1, CompleteIsPlan DEF GroundedInv, IInv
<1>5. /\ draft'.filled = draft.filled /\ draft'.derivation = draft.derivation
      /\ draft'.source = Source(node) /\ draft'.references = References(node)
  BY <1>1, <1>2, <1>4, GatedIsPlan
<1>6. draft'.filled = Fields
  BY <1>2, <1>3, <1>4, <1>5 DEF GateFailures, Plan
<1>7. References(node) # {} /\ draft.confidence = "final"
  BY <1>3, <1>4 DEF GateFailures
<1>8. Grounding(node) # {} /\ Source(node) = Grounding(node)
  BY <1>7 DEF References, Source, OrMarker
<1>9. draft.derivation # <<>> /\ draft.derivation[Len(draft.derivation)] # "guess"
  BY <1>7 DEF GroundedInv, UngatedDraft, Confidence
<1>10. draft.derivation[Len(draft.derivation)] \in Grades
  <2>1. draft.derivation \in Seq(Grades)
    BY DEF GroundedInv, IInv, TypeOK, Plan
  <2>2. Len(draft.derivation) \in 1 .. Len(draft.derivation)
    BY <1>9, <2>1
  <2> QED
    BY <2>1, <2>2
<1>11. UNCHANGED stored
  BY DEF Gate
<1> QED
  BY <1>5, <1>6, <1>8, <1>9, <1>10, <1>11 DEF Grounded, Grounding, References, Grades

LEMMA GroundedStep ==
  ASSUME GroundedInv, [Next]_vars
  PROVE  UngatedDraft' /\ PassedPlansAreGrounded'
<1> USE DEF GroundedInv, UngatedDraft, PassedPlansAreGrounded, Planned
<1>1. /\ ~Blank.passed /\ Blank.confidence = Confidence(Blank.derivation)
  BY DEF Blank, Confidence
<1>2. CASE Between
  <2>1. stored \subseteq stored' /\ UNCHANGED <<json, draft, node>>
        /\ pc \in {"down", "ready"} /\ pc' \in {"down", "ready"}
    BY <1>2, BetweenFacts DEF IInv, files
  <2> QED
    BY <1>1, <2>1 DEF Grounded
<1>3. CASE \E n \in Nodes : Begin(n)
  <2>1. PICK n \in Nodes : Begin(n)
    BY <1>3
  <2>2. pc = "ready" /\ pc' \in {"call", "gate"} /\ UNCHANGED <<json, draft, stored>>
    BY <2>1, BeginTyped DEF Begin, files, IInv
  <2> QED
    BY <1>1, <2>2 DEF Grounded
<1>4. CASE Calls
  <2>1. /\ pc = "call" /\ pc' \in {"call", "gate"} /\ UNCHANGED <<stored, json>>
        /\ draft'.passed = draft.passed /\ draft'.confidence = Confidence(draft'.derivation)
    BY <1>4, CallsMove, CallsDraft DEF IInv, files
  <2> QED
    BY <2>1 DEF Grounded
<1>5. CASE Gate
  <2>1. /\ pc' = "md" /\ UNCHANGED <<stored, json, node>>
        /\ draft' = Gated(Complete(node)) /\ node \in Nodes
    BY <1>5, GateTyped DEF Gate, IInv, files
  <2>2. draft'.confidence = Confidence(draft'.derivation)
    BY <2>1, CompleteIsPlan, GatedIsPlan DEF IInv
  <2>3. draft'.passed => Grounded(node, draft')
    BY <1>5, GatePassesGrounded
  <2> QED
    BY <2>1, <2>2, <2>3 DEF Grounded
<1>6. CASE WriteMd
  <2>1. pc' = "json" /\ UNCHANGED <<stored, json, node, draft>>
    BY <1>6 DEF WriteMd
  <2> QED
    BY <2>1 DEF Grounded
<1>7. CASE WriteJson
  <2>1. pc' = "advance" /\ UNCHANGED <<stored, node, draft>>
    BY <1>7 DEF WriteJson
  <2>2. \A n \in Nodes : json'[n] = IF n = node THEN Whole(draft) ELSE json[n]
    BY <1>7 DEF WriteJson, IInv, TypeOK
  <2>3. \A n \in Nodes : json'[n].state = "whole" /\ json'[n].holds.passed
          => Grounded(n, json'[n].holds)
    BY <2>2 DEF Whole
  <2> QED
    BY <2>1, <2>3 DEF Grounded
<1>8. CASE Ending
  <2>1. pc' \in {"down", "ready"} /\ draft' = Blank /\ UNCHANGED stored
    BY <1>8, EndingTyped DEF IInv
  <2>2. \A n \in Nodes : json'[n].state = "whole" => json'[n] = json[n]
    BY <1>8 DEF Ending, WriteMdCutShort, WriteJsonCutShort, AdvanceUnsaved, Advance,
                Crash, files, IInv, TypeOK, Torn
  <2> QED
    BY <1>1, <2>1, <2>2 DEF Grounded
<1>9. CASE UNCHANGED vars
  BY <1>9 DEF vars, Grounded
<1> QED
  BY <1>2, <1>3, <1>4, <1>5, <1>6, <1>7, <1>8, <1>9, StepKinds DEF IInv

\* A plan that passed its gate stands on stored facts that the hypothesis
\* cites, with a reference for each of their papers, and its last derivation
\* step is not a guess: for whatever the provider answered.
THEOREM PassedMeansGrounded == Spec => []PassedPlansAreGrounded
<1>1. Init => GroundedInv
  <2>1. Init => IInv
    BY InitInvariant
  <2>2. Init => UngatedDraft /\ PassedPlansAreGrounded
    BY DEF Init, UngatedDraft, PassedPlansAreGrounded, Planned, Blank, Confidence, Missing
  <2> QED
    BY <2>1, <2>2 DEF GroundedInv
<1>2. GroundedInv /\ [Next]_vars => GroundedInv'
  BY GroundedStep, TypeStep, FilesStep DEF GroundedInv, IInv
<1>3. GroundedInv => PassedPlansAreGrounded
  BY DEF GroundedInv
<1> QED
  BY <1>1, <1>2, <1>3, PTL DEF Spec
-----------------------------------------------------------------------------
(***************************************************************************)
(* The cursor counts steps                                                 *)
(***************************************************************************)

\* The plan whose step is not counted yet.
Pending == IF pc = "advance" THEN 1 ELSE 0

\* As CursorCountsSteps, with the plan in hand on both sides; and what run.json
\* counts is never ahead of memory, so that the next write catches up.
CursorCounted ==
  /\ IsFiniteSet(Planned)
  /\ savedCursor <= cursor
  /\ cursor + Pending <= Cardinality(Planned) + elsewhere
  /\ Cardinality(Planned) + elsewhere <= savedCursor + failures + Pending

\* Every step but one leaves the set of plans alone; that one adds one.
LEMMA PlannedStep ==
  ASSUME IInv, [Next]_vars
  PROVE  /\ ~WriteJson => Planned' = Planned
         /\ WriteJson => node \notin Planned /\ Planned' = Planned \cup {node}
<1> USE DEF IInv, TypeOK, FilesInStep, Planned, InAssemble
<1>1. CASE WriteJson
  <2>1. node \in Nodes /\ json[node].state = "none"
    BY <1>1 DEF WriteJson
  <2>2. /\ json'[node].state = "whole"
        /\ \A n \in Nodes \ {node} : json'[n] = json[n]
    BY <1>1, <2>1 DEF WriteJson, Whole
  <2> QED
    BY <1>1, <2>1, <2>2
<1>2. CASE WriteJsonCutShort
  <2>1. node \in Nodes /\ json[node].state = "none"
    BY <1>2 DEF WriteJsonCutShort
  <2>2. /\ json'[node].state = "torn"
        /\ \A n \in Nodes \ {node} : json'[n] = json[n]
    BY <1>2, <2>1 DEF WriteJsonCutShort, Torn
  <2>3. ~WriteJson
    BY <1>2, <2>1, <2>2 DEF WriteJson, Whole
  <2> QED
    BY <2>1, <2>2, <2>3
<1>3. CASE ~WriteJson /\ ~WriteJsonCutShort
  <2>1. json' = json
    <3>1. CASE Between \/ Calls
      BY <3>1, BetweenFacts, CallsMove DEF files
    <3>2. CASE (\E n \in Nodes : Begin(n)) \/ Gate \/ WriteMd \/ UNCHANGED vars
      BY <3>2 DEF Begin, Gate, WriteMd, files, vars
    <3>3. CASE Ending
      BY <1>3, <3>3 DEF Ending, WriteMdCutShort, AdvanceUnsaved, Advance, Crash, files
    <3> QED
      BY <1>3, <3>1, <3>2, <3>3, StepKinds
  <2> QED
    BY <1>3, <2>1
<1> QED
  BY <1>1, <1>2, <1>3

LEMMA CursorStep ==
  ASSUME IInv, CursorCounted, [Next]_vars
  PROVE  CursorCounted'
<1> DEFINE plans == Cardinality(Planned)
<1>1. /\ cursor \in Nat /\ savedCursor \in Nat /\ failures \in Nat
      /\ elsewhere \in Nat /\ plans \in Nat /\ IsFiniteSet(Planned)
  BY FS_CardinalityType DEF IInv, TypeOK, CursorCounted
<1>2. CASE WriteJson
  <2>1. /\ IsFiniteSet(Planned') /\ Cardinality(Planned') = plans + 1
    BY <1>1, <1>2, PlannedStep, FS_AddElement
  <2>2. Pending = 0 /\ Pending' = 1 /\ UNCHANGED <<cursor, savedCursor, elsewhere, failures>>
    BY <1>2 DEF WriteJson, Pending, steps, history
  <2> QED
    BY <1>1, <2>1, <2>2 DEF CursorCounted
<1>3. CASE ~WriteJson
  <2>1. IsFiniteSet(Planned') /\ Cardinality(Planned') = plans
    BY <1>1, <1>3, PlannedStep
  <2>2. CASE Elsewhere
    <3>1. /\ StepElsewhere /\ pc = "ready" /\ pc' \in {"down", "ready"}
      BY <2>2, ElsewhereFacts, StepElsewhereFacts DEF IInv
    <3>2. Pending = 0 /\ Pending' = 0
      BY <3>1 DEF Pending
    <3>3. \/ /\ elsewhere' = elsewhere + 1 /\ failures' = failures
             /\ cursor' = cursor + 1 /\ savedCursor' = cursor + 1
          \/ /\ elsewhere' = elsewhere + 1 /\ failures' = failures + 1
             /\ cursor' = cursor + 1 /\ savedCursor' = savedCursor
          \/ /\ elsewhere' = elsewhere /\ failures' = failures + 1
             /\ cursor' = cursor /\ savedCursor' = savedCursor
      BY <3>1 DEF StepElsewhere, AdvanceStep, steps
    <3> QED
      BY <1>1, <2>1, <3>2, <3>3 DEF CursorCounted
  <2>3. CASE Between /\ ~Elsewhere
    <3>1. Pending = 0 /\ Pending' = 0
      BY <2>3, BetweenFacts DEF IInv, Pending
    <3>2. /\ cursor' \in {cursor, savedCursor}
          /\ UNCHANGED <<savedCursor, elsewhere, failures>>
      BY <2>3 DEF Between, Construct, RefuseUnknown, ReturnExisting, FailToParse, Answer,
                  steps, history
    <3> QED
      BY <1>1, <2>1, <3>1, <3>2 DEF CursorCounted
  <2>4. CASE \/ (\E n \in Nodes : Begin(n)) \/ Calls \/ Gate \/ WriteMd
             \/ UNCHANGED vars
    <3>1. UNCHANGED <<cursor, savedCursor, elsewhere, failures>>
      BY <2>4, CallsMove DEF IInv, Begin, Gate, WriteMd, steps, history, vars
    <3>2. Pending' = Pending
      BY <2>4, CallsMove DEF IInv, Begin, FirstCall, Gate, WriteMd, Pending, vars
    <3> QED
      BY <1>1, <2>1, <3>1, <3>2 DEF CursorCounted
  <2>5. CASE Ending
    <3>1. pc' \in {"down", "ready"} /\ Pending' = 0
      BY <2>5, EndingTyped DEF IInv, Pending
    <3>2. CASE Advance
      <4>1. /\ Pending = 1 /\ cursor' = cursor + 1 /\ savedCursor' = cursor + 1
            /\ UNCHANGED <<elsewhere, failures>>
        BY <3>2 DEF Advance, AdvanceStep, Pending, history
      <4> QED
        BY <1>1, <2>1, <3>1, <4>1 DEF CursorCounted
    <3>3. CASE AdvanceUnsaved
      <4>1. /\ Pending = 1 /\ cursor' = cursor + 1 /\ savedCursor' = savedCursor
            /\ failures' = failures + 1 /\ elsewhere' = elsewhere
        BY <3>3 DEF AdvanceUnsaved, Fail, Pending
      <4> QED
        BY <1>1, <2>1, <3>1, <4>1 DEF CursorCounted
    <3>4. CASE WriteMdCutShort \/ WriteJsonCutShort \/ Crash
      <4>1. UNCHANGED <<cursor, savedCursor, elsewhere>> /\ failures' = failures + 1
        BY <3>4 DEF WriteMdCutShort, WriteJsonCutShort, Crash, Fail, steps
      <4>2. Pending \in {0, 1}
        BY DEF Pending
      <4> QED
        BY <1>1, <2>1, <3>1, <4>1, <4>2 DEF CursorCounted
    <3> QED
      BY <2>5, <3>2, <3>3, <3>4 DEF Ending
  <2> QED
    BY <1>3, <2>2, <2>3, <2>4, <2>5, StepKinds
<1> QED
  BY <1>2, <1>3

\* For any number of plans, steps elsewhere and failures, the cursor is never ahead
\* of the steps that were made, whoever made them, and run.json is behind by one for
\* each failure besides the plan in hand.
THEOREM CursorFollowsSteps == Spec => []CursorCountsSteps
<1>1. Init => CursorCounted
  <2> SUFFICES ASSUME Init PROVE CursorCounted
    OBVIOUS
  <2>1. Planned = {}
    BY DEF Init, Planned, Missing
  <2> QED
    BY <2>1, FS_EmptySet DEF Init, CursorCounted, Pending
<1>2. IInv /\ CursorCounted /\ [Next]_vars => CursorCounted'
  BY CursorStep
<1>3. IInv /\ CursorCounted => CursorCountsSteps
  <2> SUFFICES ASSUME IInv, CursorCounted PROVE CursorCountsSteps
    OBVIOUS
  <2>1. /\ cursor \in Nat /\ savedCursor \in Nat /\ failures \in Nat
        /\ elsewhere \in Nat /\ Cardinality(Planned) \in Nat
    BY FS_CardinalityType DEF IInv, TypeOK, CursorCounted
  <2>2. Pending \in {0, 1} /\ Pending = (IF pc = "advance" THEN 1 ELSE 0)
    BY DEF Pending
  <2>3. /\ savedCursor <= cursor /\ cursor + Pending <= Cardinality(Planned) + elsewhere
        /\ Cardinality(Planned) + elsewhere <= savedCursor + failures + Pending
    BY DEF CursorCounted
  <2>4. /\ cursor <= Cardinality(Planned) + elsewhere
        /\ savedCursor <= Cardinality(Planned) + elsewhere
    BY <2>1, <2>2, <2>3
  <2> QED
    BY <2>2, <2>3, <2>4 DEF CursorCountsSteps
<1> QED
  BY <1>1, <1>2, <1>3, Invariant, PTL DEF Spec
=============================================================================
