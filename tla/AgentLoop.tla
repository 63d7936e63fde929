----------------------------- MODULE AgentLoop -----------------------------
(***************************************************************************)
(* Agent.run of _vendor/arbor/agent.py, as Executor.run of                 *)
(* engine/executor.py calls it for one unit: turns of a conversation with  *)
(* a provider, its recovery from failing calls and answers that are cut    *)
(* off, the execution of tool calls, and the compaction of a history that  *)
(* has grown too long (_vendor/arbor/context.py).                          *)
(*                                                                         *)
(* A message is its kind, the turn it belongs to and whether its tool      *)
(* results may have been cut down to a preview.  Token counts are a choice *)
(* (the history is too long, or not), so is what the provider answers, and *)
(* so is whether an answer describes work to come without a call           *)
(* (_looks_like_premature_no_tool_stop looks for phrases in it).           *)
(***************************************************************************)
EXTENDS Integers, Sequences, FiniteSets

CONSTANTS
  MaxTurns,         \* AgentConfig.max_turns
  MaxAttempts,      \* AgentConfig.llm_retry_attempts
  NudgeLimit,       \* 3 in the code
  CutoffLimit,      \* 3 in the code
  Concurrency,      \* AgentConfig.max_tool_concurrency
  KeepRecent,       \* ContextConfig.compact_keep_recent
  SnipKeep,         \* keep_recent_n of the recovery, 10 in the code
  Batches,          \* calls of one answer: the kinds of tools they name
  MaxNotes,         \* bound: notes delivered in a run
  MaxSplices        \* bound: compactions that take messages out

ToolKinds == {"read", "write", "unknown"}

ASSUME LimitsAssumption ==
  /\ MaxTurns \in Nat \ {0} /\ MaxAttempts \in Nat \ {0} /\ Concurrency \in Nat \ {0}
  /\ NudgeLimit \in Nat /\ CutoffLimit \in Nat
ASSUME KeepAssumption == KeepRecent \in Nat \ {0} /\ SnipKeep \in Nat
ASSUME BatchesAssumption == Batches \subseteq Seq(ToolKinds) \ {<<>>}
ASSUME BoundsAssumption == MaxNotes \in Nat /\ MaxSplices \in Nat

VARIABLES
  pc,               \* "turn", "compact", "call", "tools", "over"
  turn,             \* total_turns
  attempt,          \* of _call_llm_with_recovery
  messages,         \* self.messages
  nudges,           \* no_tool_nudges
  cutoffs,          \* _max_tokens_recovery_count
  batch, progress,  \* calls of this turn, and how far each is
  outcome           \* ExecutorResult.status

\* History; no guard reads it, except for the bounds.
VARIABLES
  notes,            \* notes delivered
  splices,          \* compactions that took messages out ...
  halvings          \* ... among them those without a summary

conversation == <<turn, messages, nudges, cutoffs>>
calls == <<batch, progress>>
history == <<notes, splices, halvings>>
vars == <<pc, turn, attempt, messages, nudges, cutoffs, batch, progress,
          outcome, notes, splices, halvings>>

-----------------------------------------------------------------------------
(***************************************************************************)
(* Messages                                                                *)
(***************************************************************************)

\* "cut" is an answer that was cut off and whose calls nobody executes.
FromUser == {"task", "note", "results", "prompt", "summary"}
FromModel == {"text", "calls", "cut", "ack"}

Message == [kind : FromUser \cup FromModel, turn : 0 .. MaxTurns, whole : BOOLEAN]

Msg(kind, t) == [kind |-> kind, turn |-> t, whole |-> TRUE]

\* Fault: the boundary is two messages further.
SnippedTooFar(m, keep) ==
  [i \in DOMAIN m |-> IF m[i].kind = "results" /\ i <= Len(m) - keep + 2
                      THEN [m[i] EXCEPT !.whole = FALSE] ELSE m[i]]

\* _snip_old_tool_results: results before the last keep messages are cut down.
\* (_drop_redundant_reads looks for a tool named Read, which there is none of.)
Snipped(m, keep) ==
  [i \in DOMAIN m |-> IF m[i].kind = "results" /\ i <= Len(m) - keep
                      THEN [m[i] EXCEPT !.whole = FALSE] ELSE m[i]]

\* m[-n:], which is all of m when n is 0.
Last(m, n) == IF n = 0 \/ n >= Len(m) THEN m ELSE SubSeq(m, Len(m) - n + 1, Len(m))

\* _summarize_old_messages: everything but the last messages becomes a summary,
\* or, when the summarizing call fails, the older half is dropped.
Long(m) == Len(m) > KeepRecent

Summarized(m) == <<Msg("summary", 0), Msg("ack", 0)>> \o Last(m, KeepRecent)
Halved(m) == SubSeq(m, Len(m) \div 2 + 1, Len(m))

\* Fault: the first messages only.
EmergencyHead(m) == SubSeq(m, 1, IF Len(m) < 2 THEN Len(m) ELSE 2)

\* Fault: the last messages only.
EmergencyTail(m) == Last(m, 2 + KeepRecent \div 2)

\* Emergency truncation: the first two messages and the last few.
Emergency(m) == SubSeq(m, 1, IF Len(m) < 2 THEN Len(m) ELSE 2) \o Last(m, KeepRecent \div 2)

-----------------------------------------------------------------------------
(***************************************************************************)
(* Calls of one answer                                                     *)
(***************************************************************************)

Reads == {i \in DOMAIN batch : batch[i] # "write"}
Writes == {i \in DOMAIN batch : batch[i] = "write"}
In(s) == {i \in DOMAIN batch : progress[i] = s}

TypeOK ==
  /\ pc \in {"turn", "compact", "call", "tools", "over"}
  /\ turn \in 0 .. MaxTurns
  /\ attempt \in 1 .. MaxAttempts
  /\ messages \in Seq(Message)
  /\ nudges \in 0 .. NudgeLimit
  /\ cutoffs \in Nat
  /\ batch \in Seq(ToolKinds)
  /\ progress \in [DOMAIN batch -> {"waiting", "running", "done", "raised"}]
  /\ outcome \in {"none", "done", "bounded_exit", "error"}
  /\ notes \in Nat
  /\ splices \in Nat
  /\ halvings \in Nat

Init ==
  /\ pc = "turn"
  /\ turn = 0
  /\ attempt = 1
  /\ messages = <<Msg("task", 0)>>
  /\ nudges = 0
  /\ cutoffs = 0
  /\ batch = <<>>
  /\ progress = <<>>
  /\ outcome = "none"
  /\ notes = 0
  /\ splices = 0
  /\ halvings = 0

\* The run returns or raises; Executor.run makes a status of either.
End(status) == pc' = "over" /\ outcome' = status

-----------------------------------------------------------------------------
(***************************************************************************)
(* Turns and compaction                                                    *)
(***************************************************************************)

\* The turn begins with the notes of the user and of the tools, if any.
BeginTurn(n) ==
  /\ pc = "turn"
  /\ turn < MaxTurns
  /\ notes + n <= MaxNotes
  /\ turn' = turn + 1
  /\ messages' = messages \o [i \in 1 .. n |-> Msg("note", turn + 1)]
  /\ notes' = notes + n
  /\ pc' = "compact"
  /\ UNCHANGED <<attempt, nudges, cutoffs, calls, outcome, splices, halvings>>

Exhausted ==
  /\ pc = "turn"
  /\ turn = MaxTurns
  /\ End("bounded_exit")
  /\ UNCHANGED <<attempt, conversation, calls, history>>

\* maybe_compact when the history fits, at once or after its first layers.
FitAsIs ==
  /\ pc = "compact"
  /\ pc' = "call"
  /\ UNCHANGED <<attempt, conversation, calls, outcome, history>>

FitSnipped ==
  /\ pc = "compact"
  /\ messages' = Snipped(messages, KeepRecent)
  /\ pc' = "call"
  /\ UNCHANGED <<turn, attempt, nudges, cutoffs, calls, outcome, history>>

\* Both ways to splice count once each.
Splice(m, spliced, halved) ==
  /\ spliced + splices <= MaxSplices
  /\ messages' = m
  /\ splices' = splices + spliced
  /\ halvings' = halvings + halved
  /\ UNCHANGED notes

\* It does not fit: the fourth layer takes the old messages out, and if that is
\* not enough, the emergency truncation takes more.
FitSummarized(emergency, fails) ==
  LET snipped == Snipped(messages, KeepRecent)
      shorter == IF ~Long(snipped) THEN snipped
                 ELSE IF fails THEN Halved(snipped) ELSE Summarized(snipped)
  IN  /\ pc = "compact"
      /\ fails => Long(snipped)
      /\ Splice(IF emergency THEN Emergency(shorter) ELSE shorter,
                (IF Long(snipped) THEN 1 ELSE 0) + (IF emergency THEN 1 ELSE 0),
                IF fails THEN 1 ELSE 0)
      /\ pc' = "call"
      /\ UNCHANGED <<turn, attempt, nudges, cutoffs, calls, outcome>>

-----------------------------------------------------------------------------
(***************************************************************************)
(* The call of the provider, when it fails                                 *)
(***************************************************************************)

Retry == attempt' = attempt + 1 /\ UNCHANGED <<pc, outcome>>
GiveUp == attempt' = 1 /\ End("error")

\* A failure that may pass is tried again up to the limit, any other one once.
ErrorLimit(transient) == IF transient \/ MaxAttempts < 2 THEN MaxAttempts ELSE 2

\* Fault: a failure that may pass is tried again without a limit.
ErrorAgain(transient) ==
  /\ pc = "call"
  /\ attempt' = IF transient /\ attempt = MaxAttempts THEN 1 ELSE attempt + 1
  /\ attempt < MaxAttempts \/ transient
  /\ UNCHANGED <<pc, outcome, conversation, calls, history>>

CallError(transient) ==
  /\ pc = "call"
  /\ IF attempt >= ErrorLimit(transient) THEN GiveUp ELSE Retry
  /\ UNCHANGED <<conversation, calls, history>>

\* The prompt is too long: the first attempt snips and the second one summarizes
\* before the next is made, if there is a next; a later attempt gives up.
TooLong(fails) ==
  /\ pc = "call"
  /\ fails => attempt = 2 /\ Long(messages)
  /\ IF attempt = 1
     THEN messages' = Snipped(messages, SnipKeep) /\ UNCHANGED history
     ELSE IF attempt = 2 /\ Long(messages)
     THEN IF fails THEN Splice(Halved(messages), 1, 1)
                   ELSE Splice(Summarized(messages), 1, 0)
     ELSE UNCHANGED <<messages, history>>
  /\ IF attempt >= 3 \/ attempt >= MaxAttempts THEN GiveUp ELSE Retry
  /\ UNCHANGED <<turn, nudges, cutoffs, calls>>

-----------------------------------------------------------------------------
(***************************************************************************)
(* The answer of the provider                                              *)
(***************************************************************************)

Answers == attempt' = 1

\* Fault: the model is not asked to go on.
ContinueUnprompted(withCalls) ==
  /\ pc = "call"
  /\ cutoffs < CutoffLimit
  /\ Answers
  /\ cutoffs' = cutoffs + 1
  /\ messages' = Append(messages, Msg(IF withCalls THEN "cut" ELSE "text", turn))
  /\ pc' = "turn"
  /\ UNCHANGED <<turn, nudges, calls, outcome, history>>

\* An answer that was cut off is continued, without its calls, a few times.
ContinueCutOff(withCalls) ==
  /\ pc = "call"
  /\ cutoffs < CutoffLimit
  /\ Answers
  /\ cutoffs' = cutoffs + 1
  /\ messages' = messages \o <<Msg(IF withCalls THEN "cut" ELSE "text", turn),
                               Msg("prompt", turn)>>
  /\ pc' = "turn"
  /\ UNCHANGED <<turn, nudges, calls, outcome, history>>

\* After that it counts as an answer like any other.
CountCutOff(cut) ==
  /\ cut => cutoffs >= CutoffLimit
  /\ cutoffs' = IF cut THEN cutoffs + 1 ELSE 0

\* A text that describes work to come, without calls: the model is nudged.
Nudge(cut) ==
  /\ pc = "call"
  /\ nudges < NudgeLimit
  /\ turn < MaxTurns
  /\ CountCutOff(cut)
  /\ Answers
  /\ nudges' = nudges + 1
  /\ messages' = messages \o <<Msg("text", turn), Msg("prompt", turn)>>
  /\ pc' = "turn"
  /\ UNCHANGED <<turn, calls, outcome, history>>

\* Any other text, and one for which there is no nudge left, is final.
Finish(cut) ==
  /\ pc = "call"
  /\ CountCutOff(cut)
  /\ Answers
  /\ messages' = Append(messages, Msg("text", turn))
  /\ End("done")
  /\ UNCHANGED <<turn, nudges, calls, history>>

AskTools(cut, b) ==
  /\ pc = "call"
  /\ CountCutOff(cut)
  /\ Answers
  /\ nudges' = 0
  /\ messages' = Append(messages, Msg("calls", turn))
  /\ batch' = b
  /\ progress' = [i \in DOMAIN b |-> "waiting"]
  /\ pc' = "tools"
  /\ UNCHANGED <<turn, outcome, history>>

-----------------------------------------------------------------------------
(***************************************************************************)
(* The tools                                                               *)
(***************************************************************************)

Move(i, s) == progress' = [progress EXCEPT ![i] = s]

\* The reads wait for a semaphore in order.  When one of them has raised, those
\* after it go on all the same, although run is over.
CanRead(i) ==
  /\ i \in Reads
  /\ progress[i] = "waiting"
  /\ \A j \in Reads : j < i => progress[j] # "waiting"
  /\ Cardinality(In("running")) < Concurrency

StartRead(i) ==
  /\ CanRead(i)
  /\ batch[i] = "read"
  /\ Move(i, "running")
  /\ UNCHANGED <<pc, attempt, conversation, batch, outcome, history>>

\* A tool that does not exist is answered at once.
RefuseUnknown(i) ==
  /\ CanRead(i)
  /\ batch[i] = "unknown"
  /\ Move(i, "done")
  /\ UNCHANGED <<pc, attempt, conversation, batch, outcome, history>>

\* Fault: the writes do not wait for the reads.
CanWriteAmongReads(i) ==
  /\ pc = "tools"
  /\ i \in Writes
  /\ progress[i] = "waiting"
  /\ \A j \in Writes : j < i => progress[j] = "done"

\* The writes begin after all reads, one after the other.
CanWrite(i) ==
  /\ pc = "tools"
  /\ i \in Writes
  /\ progress[i] = "waiting"
  /\ \A j \in Reads : progress[j] = "done"
  /\ \A j \in Writes : j < i => progress[j] = "done"

StartWrite(i) ==
  /\ CanWrite(i)
  /\ Move(i, "running")
  /\ UNCHANGED <<pc, attempt, conversation, batch, outcome, history>>

\* A tool that returns or raises has a result either way.
EndTool(i) ==
  /\ progress[i] = "running"
  /\ Move(i, "done")
  /\ UNCHANGED <<pc, attempt, conversation, batch, outcome, history>>

\* Arguments that are JSON but not an object raise before the tool is tried, out
\* of run; gather does not cancel what it awaits.
RaiseBadArguments(i) ==
  /\ CanRead(i) \/ CanWrite(i)
  /\ batch[i] # "unknown"
  /\ Move(i, "raised")
  /\ IF pc = "tools" THEN End("error") ELSE UNCHANGED <<pc, outcome>>
  /\ UNCHANGED <<attempt, conversation, batch, history>>

\* Fault: the results come with the next answer only.
DeliverNothing ==
  /\ pc = "tools"
  /\ \A i \in DOMAIN batch : progress[i] = "done"
  /\ batch' = <<>>
  /\ progress' = <<>>
  /\ pc' = "turn"
  /\ UNCHANGED <<attempt, conversation, outcome, history>>

DeliverResults ==
  /\ pc = "tools"
  /\ \A i \in DOMAIN batch : progress[i] = "done"
  /\ messages' = Append(messages, Msg("results", turn))
  /\ batch' = <<>>
  /\ progress' = <<>>
  /\ pc' = "turn"
  /\ UNCHANGED <<turn, attempt, nudges, cutoffs, outcome, history>>

-----------------------------------------------------------------------------
Compact ==
  \/ FitAsIs
  \/ FitSnipped
  \/ \E emergency, fails \in BOOLEAN : FitSummarized(emergency, fails)

Call ==
  \/ \E transient \in BOOLEAN : CallError(transient)
  \/ \E fails \in BOOLEAN : TooLong(fails)
  \/ \E withCalls \in BOOLEAN : ContinueCutOff(withCalls)
  \/ \E cut \in BOOLEAN :
       Nudge(cut) \/ Finish(cut) \/ \E b \in Batches : AskTools(cut, b)

Tools ==
  \/ \E i \in DOMAIN batch :
       StartRead(i) \/ RefuseUnknown(i) \/ StartWrite(i) \/ EndTool(i) \/ RaiseBadArguments(i)
  \/ DeliverResults

Next ==
  \/ \E n \in 0 .. MaxNotes : BeginTurn(n)
  \/ Exhausted
  \/ Compact
  \/ Call
  \/ Tools

Spec == Init /\ [][Next]_vars

\* The provider answers or its client times out, and a tool comes to an end.
FairSpec == Spec /\ WF_vars(Next)

-----------------------------------------------------------------------------
(***************************************************************************)
(* Properties                                                              *)
(***************************************************************************)

\* Whatever was nudged, cut off, retried or compacted before, the provider is
\* asked with a history that ends on a message of the user ("self.messages ends
\* on a user/tool_result message here").
EndsOnUser ==
  pc \in {"compact", "call"} =>
    messages # <<>> /\ messages[Len(messages)].kind \in FromUser

\* Results belong to the answer right before them.  Only a compaction may part
\* the two, and each parts one pair at most, whichever side it takes.
Unasked(m) == {i \in DOMAIN m :
                 m[i].kind = "results" /\ ~(i > 1 /\ m[i - 1] = Msg("calls", m[i].turn))}
Unanswered(m) == {i \in DOMAIN m :
                    m[i].kind = "calls" /\
                    ~(i < Len(m) /\ m[i + 1].kind = "results" /\ m[i + 1].turn = m[i].turn)}
InHand == IF pc = "tools" \/ In("raised") # {} THEN {Len(messages)} ELSE {}
PairsKept ==
  /\ Cardinality(Unasked(messages)) <= splices
  /\ Cardinality(Unanswered(messages) \ InHand) <= splices

\* The task, or a summary of it, is what the history starts with, unless a call
\* that was to summarize it failed.
TaskRemembered == halvings = 0 => messages[1].kind \in {"task", "summary"}

\* Results that the model has not seen are never cut down to a preview, as long
\* as fewer notes come with them than messages are kept and no truncation has
\* repeated some of the notes.
NewResultsWhole ==
  MaxNotes < KeepRecent /\ MaxNotes < SnipKeep /\ splices = 0 =>
    \A i \in DOMAIN messages :
      (\A j \in i + 1 .. Len(messages) : messages[j].kind = "note") => messages[i].whole

\* A write never runs beside another call, and none begins once a call of its
\* batch has raised, although reads still go on then.
WritesRunAlone ==
  \A i \in Writes \cap In("running") :
    /\ In("running") = {i}
    /\ In("raised") = {}
    /\ pc = "tools"

\* No step loses the newest message, compaction and recovery included.
NewestStays ==
  \E i \in DOMAIN messages' :
    /\ messages'[i].kind = messages[Len(messages)].kind
    /\ messages'[i].turn = messages[Len(messages)].turn
NewestKept == [][NewestStays]_vars

\* The run ends, whatever fails, and no call is left running after it.
RunEnds == <>[](pc = "over" /\ In("running") = {})
=============================================================================
