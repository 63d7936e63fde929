-------------------------- MODULE AgentLoopProofs --------------------------
(***************************************************************************)
(* Theorems about AgentLoop, for every limit, every set of batches and a   *)
(* history of any length.                                                  *)
(***************************************************************************)
EXTENDS AgentLoop, FiniteSetTheorems, SequenceTheorems, TLAPS

-----------------------------------------------------------------------------
(***************************************************************************)
(* Compaction                                                              *)
(***************************************************************************)

\* n is a history that ends the way m ends.
EndsLike(n, m) ==
  /\ n \in Seq(Message)
  /\ n # <<>>
  /\ n[Len(n)].kind = m[Len(m)].kind
  /\ n[Len(n)].turn = m[Len(m)].turn

\* A history begins with the task, or with a summary of it.
BeginsWithTask(m) == m[1].kind \in {"task", "summary"}

\* A message made in a turn of the run is a message.
LEMMA MsgTyped ==
  ASSUME NEW k \in FromUser \cup FromModel, NEW t \in 0 .. MaxTurns
  PROVE  Msg(k, t) \in Message /\ Msg(k, t).kind = k /\ Msg(k, t).turn = t
  BY DEF Msg, Message

\* Cutting old results down to a preview changes no kind and no turn.
LEMMA SnippedKeeps ==
  ASSUME NEW m \in Seq(Message), m # <<>>, NEW keep \in Nat
  PROVE  /\ EndsLike(Snipped(m, keep), m)
         /\ BeginsWithTask(m) => BeginsWithTask(Snipped(m, keep))
         /\ Len(Snipped(m, keep)) = Len(m)
<1> DEFINE n == Snipped(m, keep)
<1>1. DOMAIN n = 1 .. Len(m) /\ Len(m) \in Nat \ {0}
  BY DEF Snipped
<1>2. ASSUME NEW i \in 1 .. Len(m)
      PROVE  n[i] \in Message /\ n[i].kind = m[i].kind /\ n[i].turn = m[i].turn
  <2>1. m[i] \in Message
    BY <1>2
  <2>2. n[i] = m[i] \/ n[i] = [m[i] EXCEPT !.whole = FALSE]
    <3>1. i \in DOMAIN m
      BY <1>2
    <3>2. QED
      BY <3>1, Zenon DEF Snipped
  <2>3. QED
    BY <2>1, <2>2 DEF Message
<1>3. n \in Seq(Message) /\ Len(n) = Len(m)
  <2>1. n = [i \in 1 .. Len(m) |-> n[i]]
    BY DEF Snipped
  <2>2. QED
    BY <2>1, <1>1, <1>2
<1>4. QED
  BY <1>1, <1>2, <1>3 DEF EndsLike, BeginsWithTask

\* What is left when messages are taken from the front ends the way the whole does.
LEMMA SuffixKeepsEnd ==
  ASSUME NEW m \in Seq(Message), NEW i \in 1 .. Len(m)
  PROVE  EndsLike(SubSeq(m, i, Len(m)), m)
<1> DEFINE n == SubSeq(m, i, Len(m))
           k == Len(m) - i + 1
<1>1. Len(m) \in Nat \ {0} /\ k \in Nat \ {0}
  OBVIOUS
<1>2. n \in Seq(Message) /\ Len(n) = k
  BY <1>1
<1>3. n[k] = m[Len(m)]
  BY <1>1
<1> HIDE DEF n, k
<1>4. EndsLike(n, m)
  BY <1>1, <1>2, <1>3 DEF EndsLike
<1>5. QED
  BY <1>4 DEF n

\* The last messages end the way the whole does, and there is at least one.
LEMMA LastKeeps ==
  ASSUME NEW m \in Seq(Message), m # <<>>, NEW n \in Nat
  PROVE  EndsLike(Last(m, n), m)
<1>1. CASE n = 0 \/ n >= Len(m)
  BY <1>1 DEF Last, EndsLike
<1>2. CASE ~(n = 0 \/ n >= Len(m))
  BY <1>2, SuffixKeepsEnd DEF Last
<1>3. QED
  BY <1>1, <1>2

\* What is put before a history that is not empty does not change its end.
LEMMA PrefixKeepsEnd ==
  ASSUME NEW p \in Seq(Message), NEW n \in Seq(Message), n # <<>>
  PROVE  EndsLike(p \o n, n)
<1>1. Len(p \o n) = Len(p) + Len(n) /\ Len(p) \in Nat /\ Len(n) \in Nat \ {0}
  OBVIOUS
<1>2. (p \o n)[Len(p) + Len(n)] = n[Len(n)]
  BY <1>1
<1>3. QED
  BY <1>1, <1>2 DEF EndsLike

\* A summary takes the place of everything but the last messages.
LEMMA SummarizedKeeps ==
  ASSUME NEW m \in Seq(Message), m # <<>>
  PROVE  EndsLike(Summarized(m), m) /\ BeginsWithTask(Summarized(m))
<1> DEFINE p == <<Msg("summary", 0), Msg("ack", 0)>>
           n == Last(m, KeepRecent)
<1>1. p \in Seq(Message) /\ p[1].kind = "summary" /\ Len(p) = 2
  BY MsgTyped, LimitsAssumption DEF FromUser, FromModel
<1>2. EndsLike(n, m)
  BY LastKeeps, KeepAssumption
<1>3. EndsLike(p \o n, n)
  BY <1>1, <1>2, PrefixKeepsEnd DEF EndsLike
<1>4. (p \o n)[1] = p[1]
  BY <1>1, <1>2 DEF EndsLike
<1>5. Summarized(m) = p \o n
  BY DEF Summarized
<1> HIDE DEF p, n
<1>6. QED
  BY <1>1, <1>2, <1>3, <1>4, <1>5 DEF EndsLike, BeginsWithTask

\* Without a summary the newer half stays.
LEMMA HalvedKeeps ==
  ASSUME NEW m \in Seq(Message), m # <<>>
  PROVE  EndsLike(Halved(m), m)
<1>1. Len(m) \in Nat \ {0} /\ Len(m) \div 2 + 1 \in 1 .. Len(m)
  OBVIOUS
<1>2. QED
  BY <1>1, SuffixKeepsEnd DEF Halved

\* The emergency truncation keeps both ends.
LEMMA EmergencyKeeps ==
  ASSUME NEW m \in Seq(Message), m # <<>>
  PROVE  /\ EndsLike(Emergency(m), m)
         /\ BeginsWithTask(m) => BeginsWithTask(Emergency(m))
<1> DEFINE k == IF Len(m) < 2 THEN Len(m) ELSE 2
           p == SubSeq(m, 1, k)
           n == Last(m, KeepRecent \div 2)
<1>1. k \in 1 .. Len(m) /\ Len(m) \in Nat
  OBVIOUS
<1>2. p \in Seq(Message) /\ p[1] = m[1] /\ Len(p) = k
  BY <1>1
<1>3. EndsLike(n, m)
  <2>1. KeepRecent \div 2 \in Nat
    BY KeepAssumption
  <2>2. QED
    BY <2>1, LastKeeps
<1>4. Emergency(m) = p \o n
  BY DEF Emergency
<1> HIDE DEF k, p, n
<1>5. EndsLike(p \o n, n)
  BY <1>2, <1>3, PrefixKeepsEnd DEF EndsLike
<1>6. (p \o n)[1] = p[1]
  BY <1>1, <1>2, <1>3 DEF EndsLike
<1>7. QED
  BY <1>2, <1>3, <1>4, <1>5, <1>6 DEF EndsLike, BeginsWithTask

\* Messages that are added leave the others where they are.
LEMMA AddedKeep ==
  ASSUME NEW m \in Seq(Message), m # <<>>, NEW s \in Seq(Message)
  PROVE  /\ m \o s \in Seq(Message) /\ m \o s # <<>>
         /\ Len(m) \in DOMAIN (m \o s)
         /\ (m \o s)[Len(m)] = m[Len(m)]
         /\ BeginsWithTask(m) => BeginsWithTask(m \o s)
         /\ s = <<>> => (m \o s)[Len(m \o s)] = m[Len(m)]
         /\ s # <<>> => (m \o s)[Len(m \o s)] = s[Len(s)]
<1>1. Len(m) \in Nat \ {0} /\ Len(s) \in Nat /\ Len(m \o s) = Len(m) + Len(s)
  OBVIOUS
<1>2. (m \o s)[1] = m[1] /\ (m \o s)[Len(m)] = m[Len(m)]
  BY <1>1
<1>3. s # <<>> => (m \o s)[Len(m) + Len(s)] = s[Len(s)]
  BY <1>1
<1>4. DOMAIN (m \o s) = 1 .. Len(m) + Len(s) /\ m \o s \in Seq(Message)
  BY <1>1
<1>5. QED
  BY <1>1, <1>2, <1>3, <1>4 DEF BeginsWithTask

-----------------------------------------------------------------------------
(***************************************************************************)
(* The conversation: what a step does to it                                *)
(***************************************************************************)

Conversation ==
  /\ messages # <<>>
  /\ pc \in {"turn", "compact", "call"} => messages[Len(messages)].kind \in FromUser
  /\ TaskRemembered

\* What a step may do to the history: it stays one, and keeps its newest message.
Told ==
  /\ messages' \in Seq(Message)
  /\ messages' # <<>>
  /\ NewestStays

\* A history that is shortened keeps its end.
LEMMA ShortenedIsTold ==
  ASSUME TypeOK, messages # <<>>, EndsLike(messages', messages)
  PROVE  Told /\ messages'[Len(messages')].kind = messages[Len(messages)].kind
<1>1. Len(messages') \in DOMAIN messages'
  BY DEF EndsLike
<1>2. QED
  BY <1>1 DEF EndsLike, Told, NewestStays

\* A history that is added to keeps what it was.
LEMMA AddedIsTold ==
  ASSUME TypeOK, messages # <<>>, NEW s \in Seq(Message), messages' = messages \o s
  PROVE  /\ Told
         /\ BeginsWithTask(messages) => BeginsWithTask(messages')
         /\ s = <<>> => messages'[Len(messages')] = messages[Len(messages)]
         /\ s # <<>> => messages'[Len(messages')] = s[Len(s)]
  BY AddedKeep DEF TypeOK, Told, NewestStays

\* So does one that stays as it is.
LEMMA UnchangedIsTold ==
  ASSUME TypeOK, messages # <<>>, UNCHANGED messages
  PROVE  Told
<1>1. messages \in Seq(Message)
  BY DEF TypeOK
<1>2. Len(messages) \in DOMAIN messages
  BY <1>1
<1>3. QED
  BY <1>1, <1>2 DEF Told, NewestStays

\* Notes end a history as a message of the user does.
LEMMA BeginTurnTells ==
  ASSUME TypeOK, Conversation, NEW n \in 0 .. MaxNotes, BeginTurn(n)
  PROVE  Told /\ Conversation'
<1> DEFINE s == [i \in 1 .. n |-> Msg("note", turn + 1)]
<1>1. turn + 1 \in 0 .. MaxTurns /\ n \in Nat
  <2>1. turn \in 0 .. MaxTurns /\ turn < MaxTurns
    BY DEF BeginTurn, TypeOK
  <2>2. QED
    BY <2>1, LimitsAssumption, BoundsAssumption
<1>2. Msg("note", turn + 1) \in Message /\ Msg("note", turn + 1).kind = "note"
  BY <1>1, MsgTyped DEF FromUser
<1>3. s \in Seq(Message) /\ Len(s) = n /\ (s # <<>> => s[Len(s)].kind = "note")
  BY <1>1, <1>2
<1>4. messages' = messages \o s /\ pc = "turn" /\ UNCHANGED halvings
  BY DEF BeginTurn
<1> HIDE DEF s
<1>5. QED
  BY <1>3, <1>4, AddedIsTold DEF Conversation, TaskRemembered, BeginsWithTask, FromUser

\* A compaction keeps the newest message, and the task unless a summary failed.
LEMMA CompactTells ==
  ASSUME TypeOK, Conversation, Compact
  PROVE  Told /\ Conversation'
<1> USE DEF Conversation, TaskRemembered
<1>1. pc = "compact" /\ messages \in Seq(Message) /\ messages # <<>>
  BY DEF Compact, FitAsIs, FitSnipped, FitSummarized, TypeOK
<1>2. CASE FitAsIs
  BY <1>1, <1>2, UnchangedIsTold DEF FitAsIs, conversation, history
<1>3. CASE FitSnipped
  <2>1. messages' = Snipped(messages, KeepRecent) /\ UNCHANGED halvings
    BY <1>3 DEF FitSnipped, history
  <2>2. EndsLike(messages', messages) /\ (BeginsWithTask(messages) => BeginsWithTask(messages'))
    BY <1>1, <2>1, SnippedKeeps, KeepAssumption
  <2>3. Told /\ messages'[Len(messages')].kind = messages[Len(messages)].kind
    BY <1>1, <2>2, ShortenedIsTold
  <2>4. QED
    BY <1>1, <2>1, <2>2, <2>3 DEF BeginsWithTask, Told
<1>4. CASE \E emergency, fails \in BOOLEAN : FitSummarized(emergency, fails)
  <2>1. PICK emergency, fails \in BOOLEAN : FitSummarized(emergency, fails)
    BY <1>4
  <2> DEFINE snipped == Snipped(messages, KeepRecent)
             shorter == IF ~Long(snipped) THEN snipped
                        ELSE IF fails THEN Halved(snipped) ELSE Summarized(snipped)
  <2>2. messages' = IF emergency THEN Emergency(shorter) ELSE shorter
    BY <2>1 DEF FitSummarized, Splice
  <2>3. /\ halvings' = halvings + (IF fails THEN 1 ELSE 0)
        /\ halvings \in Nat
    BY <2>1 DEF FitSummarized, Splice, TypeOK
  <2>4. EndsLike(snipped, messages) /\ (BeginsWithTask(messages) => BeginsWithTask(snipped))
    BY <1>1, SnippedKeeps, KeepAssumption
  <2> HIDE DEF snipped
  <2>5. snipped \in Seq(Message) /\ snipped # <<>>
    BY <2>4 DEF EndsLike
  <2>6. /\ EndsLike(shorter, snipped)
        /\ ~fails /\ BeginsWithTask(snipped) => BeginsWithTask(shorter)
    BY <2>5, SummarizedKeeps, HalvedKeeps DEF EndsLike
  <2> HIDE DEF shorter
  <2>7. /\ EndsLike(messages', shorter)
        /\ BeginsWithTask(shorter) => BeginsWithTask(messages')
    BY <2>2, <2>6, EmergencyKeeps DEF EndsLike
  <2>8. EndsLike(messages', messages)
    BY <2>4, <2>6, <2>7 DEF EndsLike
  <2>9. halvings' = 0 => halvings = 0 /\ ~fails
    BY <2>3
  <2>10. Told /\ messages'[Len(messages')].kind = messages[Len(messages)].kind
    BY <1>1, <2>8, ShortenedIsTold
  <2>11. halvings' = 0 => BeginsWithTask(messages')
    BY <2>4, <2>6, <2>7, <2>9 DEF BeginsWithTask
  <2>12. QED
    BY <1>1, <2>10, <2>11 DEF BeginsWithTask, Told
<1>5. QED
  BY <1>2, <1>3, <1>4 DEF Compact

\* A step that leaves the history alone, and does not go on with the turn from
\* elsewhere, leaves the conversation as it is.
LEMMA UnchangedTells ==
  ASSUME TypeOK, Conversation, UNCHANGED <<messages, halvings>>, pc' \in {pc, "tools", "over"}
  PROVE  Told /\ Conversation'
  BY UnchangedIsTold DEF Conversation, TaskRemembered

\* A step that adds messages of the turn goes on with the turn only after one of
\* the user.
LEMMA AddingTells ==
  ASSUME TypeOK, Conversation, UNCHANGED halvings,
         NEW s \in Seq(Message), s # <<>>, messages' = messages \o s,
         s[Len(s)].kind \in FromUser \/ pc' \in {"tools", "over"}
  PROVE  Told /\ Conversation'
<1>1. /\ Told
      /\ BeginsWithTask(messages) => BeginsWithTask(messages')
      /\ messages'[Len(messages')] = s[Len(s)]
  BY AddedIsTold DEF Conversation
<1>2. TaskRemembered'
  BY <1>1 DEF Conversation, TaskRemembered, BeginsWithTask
<1>3. QED
  BY <1>1, <1>2 DEF Conversation, Told

\* Messages of the turn, as sequences to be added.
LEMMA OneAdded ==
  ASSUME TypeOK, NEW k \in FromUser \cup FromModel
  PROVE  /\ <<Msg(k, turn)>> \in Seq(Message) /\ <<Msg(k, turn)>> # <<>>
         /\ <<Msg(k, turn)>>[Len(<<Msg(k, turn)>>)].kind = k
         /\ \A m \in Seq(Message) : Append(m, Msg(k, turn)) = m \o <<Msg(k, turn)>>
<1>1. Msg(k, turn) \in Message /\ Msg(k, turn).kind = k
  BY MsgTyped DEF TypeOK
<1> DEFINE e == Msg(k, turn)
<1> HIDE DEF e
<1>2. \A m \in Seq(Message) : Append(m, e) = m \o <<e>>
  BY <1>1 DEF e
<1>3. QED
  BY <1>1, <1>2 DEF e

\* A message of the model and the prompt after it.
LEMMA TwoAdded ==
  ASSUME TypeOK, NEW k \in FromModel
  PROVE  /\ <<Msg(k, turn), Msg("prompt", turn)>> \in Seq(Message)
         /\ <<Msg(k, turn), Msg("prompt", turn)>> # <<>>
         /\ LET s == <<Msg(k, turn), Msg("prompt", turn)>> IN s[Len(s)].kind \in FromUser
<1>1. /\ Msg(k, turn) \in Message
      /\ Msg("prompt", turn) \in Message /\ Msg("prompt", turn).kind \in FromUser
  BY MsgTyped DEF TypeOK, FromUser
<1>2. QED
  BY <1>1

\* So does a call of the provider, whether it fails or is answered.
LEMMA CallTells ==
  ASSUME TypeOK, Conversation, Call
  PROVE  Told /\ Conversation'
<1>1. ASSUME NEW transient \in BOOLEAN, CallError(transient)
      PROVE  Told /\ Conversation'
  <2>1. UNCHANGED <<messages, halvings>> /\ pc' \in {pc, "over"}
    BY <1>1 DEF CallError, conversation, history, Retry, GiveUp, End
  <2>2. QED
    BY <2>1, UnchangedTells
<1>2. ASSUME NEW fails \in BOOLEAN, TooLong(fails)
      PROVE  Told /\ Conversation'
  <2>1. /\ pc = "call" /\ pc' \in {"call", "over"}
        /\ messages \in Seq(Message) /\ messages # <<>>
        /\ halvings \in Nat
    BY <1>2 DEF TooLong, Retry, GiveUp, End, TypeOK, Conversation
  <2>2. CASE messages' = Snipped(messages, SnipKeep) /\ UNCHANGED history
    <3>1. EndsLike(messages', messages) /\ (BeginsWithTask(messages) => BeginsWithTask(messages'))
      BY <2>1, <2>2, SnippedKeeps, KeepAssumption
    <3>2. Told /\ messages'[Len(messages')].kind = messages[Len(messages)].kind
      BY <2>1, <3>1, ShortenedIsTold
    <3>3. QED
      BY <2>1, <2>2, <3>1, <3>2 DEF Conversation, TaskRemembered, BeginsWithTask, Told, history
  <2>3. CASE Splice(Halved(messages), 1, 1)
    <3>1. EndsLike(messages', messages) /\ halvings' # 0
      BY <2>1, <2>3, HalvedKeeps DEF Splice
    <3>2. Told /\ messages'[Len(messages')].kind = messages[Len(messages)].kind
      BY <2>1, <3>1, ShortenedIsTold
    <3>3. QED
      BY <2>1, <3>1, <3>2 DEF Conversation, TaskRemembered, Told
  <2>4. CASE Splice(Summarized(messages), 1, 0)
    <3>1. EndsLike(messages', messages) /\ BeginsWithTask(messages')
      BY <2>1, <2>4, SummarizedKeeps DEF Splice
    <3>2. Told /\ messages'[Len(messages')].kind = messages[Len(messages)].kind
      BY <2>1, <3>1, ShortenedIsTold
    <3>3. QED
      BY <2>1, <3>1, <3>2 DEF Conversation, TaskRemembered, BeginsWithTask, Told
  <2>5. CASE UNCHANGED <<messages, history>>
    BY <2>1, <2>5, UnchangedTells DEF history
  <2>6. QED
    BY <1>2, <2>2, <2>3, <2>4, <2>5 DEF TooLong
<1>3. ASSUME NEW withCalls \in BOOLEAN, ContinueCutOff(withCalls)
      PROVE  Told /\ Conversation'
  <2>1. PICK k \in FromModel : messages' = messages \o <<Msg(k, turn), Msg("prompt", turn)>>
    BY <1>3, Zenon DEF ContinueCutOff, FromModel
  <2>2. UNCHANGED halvings
    BY <1>3 DEF ContinueCutOff, history
  <2>3. QED
    BY <2>1, <2>2, TwoAdded, AddingTells
<1>4. ASSUME NEW cut \in BOOLEAN, Nudge(cut)
      PROVE  Told /\ Conversation'
  <2>1. /\ messages' = messages \o <<Msg("text", turn), Msg("prompt", turn)>>
        /\ UNCHANGED halvings
    BY <1>4 DEF Nudge, history
  <2>2. "text" \in FromModel
    BY DEF FromModel
  <2>3. QED
    BY <2>1, <2>2, TwoAdded, AddingTells
<1>5. ASSUME NEW cut \in BOOLEAN, Finish(cut) \/ \E b \in Batches : AskTools(cut, b)
      PROVE  Told /\ Conversation'
  <2>1. PICK k \in FromModel : messages' = Append(messages, Msg(k, turn))
    BY <1>5, Zenon DEF Finish, AskTools, FromModel
  <2>2. UNCHANGED halvings /\ pc' \in {"tools", "over"}
    BY <1>5 DEF Finish, AskTools, End, history
  <2>3. messages' = messages \o <<Msg(k, turn)>>
    BY <2>1, OneAdded DEF TypeOK
  <2>4. QED
    BY <2>2, <2>3, OneAdded, AddingTells
<1>6. QED
  BY <1>1, <1>2, <1>3, <1>4, <1>5 DEF Call

\* So do the tools.
LEMMA ToolsTell ==
  ASSUME TypeOK, Conversation, Tools
  PROVE  Told /\ Conversation'
<1>1. CASE DeliverResults
  <2>1. "results" \in FromUser /\ messages' = Append(messages, Msg("results", turn)) /\ UNCHANGED halvings
    BY <1>1 DEF DeliverResults, FromUser, history
  <2>2. messages' = messages \o <<Msg("results", turn)>>
    BY <2>1, OneAdded DEF TypeOK
  <2>3. QED
    BY <2>1, <2>2, OneAdded, AddingTells
<1>2. CASE \E i \in DOMAIN batch :
             StartRead(i) \/ RefuseUnknown(i) \/ StartWrite(i) \/ EndTool(i) \/ RaiseBadArguments(i)
  <2>1. UNCHANGED <<messages, halvings>> /\ pc' \in {pc, "over"}
    BY <1>2 DEF StartRead, RefuseUnknown, StartWrite, EndTool, RaiseBadArguments,
                conversation, history, End
  <2>2. QED
    BY <2>1, UnchangedTells
<1>3. QED
  BY <1>1, <1>2 DEF Tools

\* So does every step.
LEMMA StepTells ==
  ASSUME TypeOK, Conversation, Next
  PROVE  Told /\ Conversation'
<1>1. CASE Exhausted
  BY <1>1, UnchangedTells DEF Exhausted, End, conversation, history
<1>2. QED
  BY <1>1, BeginTurnTells, CompactTells, CallTells, ToolsTell DEF Next

-----------------------------------------------------------------------------
(***************************************************************************)
(* Types                                                                   *)
(***************************************************************************)

\* The types of what belongs to the calls of one answer, and of the rest.
CallsTyped ==
  /\ batch \in Seq(ToolKinds)
  /\ progress \in [DOMAIN batch -> {"waiting", "running", "done", "raised"}]

CountsTyped ==
  /\ pc \in {"turn", "compact", "call", "tools", "over"}
  /\ turn \in 0 .. MaxTurns
  /\ attempt \in 1 .. MaxAttempts
  /\ nudges \in 0 .. NudgeLimit
  /\ cutoffs \in Nat
  /\ outcome \in {"none", "done", "bounded_exit", "error"}
  /\ notes \in Nat
  /\ splices \in Nat
  /\ halvings \in Nat

\* The types of the whole state.
LEMMA TypeParts == TypeOK <=> CallsTyped /\ CountsTyped /\ messages \in Seq(Message)
  BY DEF TypeOK, CallsTyped, CountsTyped

\* A step keeps the types of the calls ...
LEMMA CallsStayTyped ==
  ASSUME CallsTyped, Next
  PROVE  CallsTyped'
<1>1. CASE UNCHANGED calls
  BY <1>1 DEF calls, CallsTyped
<1>2. CASE \E cut \in BOOLEAN : \E b \in Batches : AskTools(cut, b)
  BY <1>2, BatchesAssumption DEF AskTools, CallsTyped
<1>3. CASE DeliverResults
  BY <1>3 DEF DeliverResults, CallsTyped
<1>4. CASE \E i \in DOMAIN batch :
             StartRead(i) \/ RefuseUnknown(i) \/ StartWrite(i) \/ EndTool(i) \/ RaiseBadArguments(i)
  <2>1. PICK i \in DOMAIN batch, s \in {"running", "done", "raised"} : Move(i, s)
    BY <1>4 DEF StartRead, RefuseUnknown, StartWrite, EndTool, RaiseBadArguments
  <2>2. UNCHANGED batch
    BY <1>4 DEF StartRead, RefuseUnknown, StartWrite, EndTool, RaiseBadArguments
  <2>3. QED
    BY <2>1, <2>2 DEF Move, CallsTyped
<1>5. QED
  BY <1>1, <1>2, <1>3, <1>4 DEF Next, BeginTurn, Exhausted, Compact, FitAsIs, FitSnipped,
     FitSummarized, Call, CallError, TooLong, ContinueCutOff, Nudge, Finish, Tools

\* What a call that failed leaves of attempt, pc and outcome.
FailedTyped ==
  /\ attempt' \in 1 .. MaxAttempts
  /\ pc' \in {"over", pc}
  /\ outcome' \in {outcome, "error"}

\* A retry stays below the limit of attempts.
LEMMA RetryTyped ==
  ASSUME CountsTyped, Retry, attempt < MaxAttempts
  PROVE  FailedTyped
<1>1. attempt \in 1 .. MaxAttempts /\ MaxAttempts \in Nat
  BY LimitsAssumption DEF CountsTyped
<1>2. attempt' \in 1 .. MaxAttempts
  BY <1>1 DEF Retry
<1>3. QED
  BY <1>2 DEF Retry, FailedTyped

\* Giving up resets them.
LEMMA GiveUpTyped ==
  ASSUME GiveUp
  PROVE  FailedTyped
<1>1. 1 \in 1 .. MaxAttempts
  BY LimitsAssumption
<1>2. QED
  BY <1>1 DEF GiveUp, End, FailedTyped

\* ... and of the rest ...
LEMMA CountsStayTyped ==
  ASSUME CountsTyped, Next
  PROVE  CountsTyped'
<1>0. /\ turn \in 0 .. MaxTurns /\ MaxTurns \in Nat
      /\ attempt \in 1 .. MaxAttempts /\ MaxAttempts \in Nat
      /\ nudges \in 0 .. NudgeLimit /\ NudgeLimit \in Nat
      /\ cutoffs \in Nat /\ notes \in Nat /\ splices \in Nat /\ halvings \in Nat
  BY LimitsAssumption DEF CountsTyped
<1>1. ASSUME NEW n \in 0 .. MaxNotes, BeginTurn(n)
      PROVE  CountsTyped'
  <2>1. turn' \in 0 .. MaxTurns /\ notes' \in Nat /\ pc' = "compact"
    <3>1. turn < MaxTurns /\ turn' = turn + 1 /\ notes' = notes + n /\ pc' = "compact"
      BY <1>1 DEF BeginTurn
    <3>2. n \in Nat
      BY BoundsAssumption
    <3>3. QED
      BY <1>0, <3>1, <3>2
  <2>2. UNCHANGED <<attempt, nudges, cutoffs, outcome, splices, halvings>>
    BY <1>1 DEF BeginTurn
  <2>3. QED
    BY <2>1, <2>2 DEF CountsTyped
<1>2. CASE Exhausted
  BY <1>2 DEF Exhausted, CountsTyped, End, conversation, history
<1>3. CASE Compact
  <2>1. CASE FitAsIs \/ FitSnipped
    BY <2>1 DEF FitAsIs, FitSnipped, CountsTyped, conversation, history
  <2>2. ASSUME NEW emergency \in BOOLEAN, NEW fails \in BOOLEAN, FitSummarized(emergency, fails)
        PROVE  CountsTyped'
    <3>1. splices' \in Nat /\ halvings' \in Nat /\ notes' = notes
      BY <1>0, <2>2 DEF FitSummarized, Splice
    <3>2. UNCHANGED <<turn, attempt, nudges, cutoffs, outcome>> /\ pc' = "call"
      BY <2>2 DEF FitSummarized
    <3>3. QED
      BY <3>1, <3>2 DEF CountsTyped
  <2>3. QED
    BY <1>3, <2>1, <2>2 DEF Compact
<1>4. ASSUME NEW transient \in BOOLEAN, CallError(transient)
      PROVE  CountsTyped'
  <2>1. ErrorLimit(transient) \in 1 .. MaxAttempts
    BY <1>0 DEF ErrorLimit
  <2>2. FailedTyped
    <3>1. CASE attempt >= ErrorLimit(transient)
      BY <1>4, <3>1, GiveUpTyped DEF CallError
    <3>2. CASE ~(attempt >= ErrorLimit(transient))
      <4>1. attempt < MaxAttempts
        BY <1>0, <2>1, <3>2
      <4>2. QED
        BY <1>4, <3>2, <4>1, RetryTyped DEF CallError
    <3>3. QED
      BY <3>1, <3>2
  <2>3. UNCHANGED <<turn, nudges, cutoffs, history>>
    BY <1>4 DEF CallError, conversation
  <2>4. QED
    BY <2>2, <2>3 DEF CountsTyped, FailedTyped, history
<1>5. ASSUME NEW fails \in BOOLEAN, TooLong(fails)
      PROVE  CountsTyped'
  <2>1. FailedTyped
    <3>1. CASE attempt >= 3 \/ attempt >= MaxAttempts
      BY <1>5, <3>1, GiveUpTyped DEF TooLong
    <3>2. CASE ~(attempt >= 3 \/ attempt >= MaxAttempts)
      <4>1. attempt < MaxAttempts
        BY <1>0, <3>2
      <4>2. QED
        BY <1>5, <3>2, <4>1, RetryTyped DEF TooLong
    <3>3. QED
      BY <3>1, <3>2
  <2>2. splices' \in Nat /\ halvings' \in Nat /\ notes' = notes
    BY <1>0, <1>5 DEF TooLong, Splice, history
  <2>3. UNCHANGED <<turn, nudges, cutoffs>>
    BY <1>5 DEF TooLong
  <2>4. QED
    BY <2>1, <2>2, <2>3 DEF CountsTyped, FailedTyped
<1>6. ASSUME NEW withCalls \in BOOLEAN, ContinueCutOff(withCalls)
      PROVE  CountsTyped'
  <2>1. cutoffs' \in Nat /\ attempt' \in 1 .. MaxAttempts
    BY <1>0, <1>6 DEF ContinueCutOff, Answers
  <2>2. QED
    BY <1>6, <2>1 DEF ContinueCutOff, CountsTyped, history
<1>7. ASSUME NEW cut \in BOOLEAN, CountCutOff(cut)
      PROVE  cutoffs' \in Nat
  BY <1>0, <1>7 DEF CountCutOff
<1>8. ASSUME NEW cut \in BOOLEAN, Nudge(cut)
      PROVE  CountsTyped'
  <2>1. cutoffs' \in Nat /\ nudges' \in 0 .. NudgeLimit /\ attempt' \in 1 .. MaxAttempts
    BY <1>0, <1>7, <1>8 DEF Nudge, Answers
  <2>2. QED
    BY <1>8, <2>1 DEF Nudge, CountsTyped, history
<1>9. ASSUME NEW cut \in BOOLEAN, Finish(cut)
      PROVE  CountsTyped'
  <2>1. cutoffs' \in Nat /\ attempt' \in 1 .. MaxAttempts
    BY <1>0, <1>7, <1>9 DEF Finish, Answers
  <2>2. QED
    BY <1>9, <2>1 DEF Finish, End, CountsTyped, history
<1>10. ASSUME NEW cut \in BOOLEAN, NEW b \in Batches, AskTools(cut, b)
       PROVE  CountsTyped'
  <2>1. cutoffs' \in Nat /\ nudges' \in 0 .. NudgeLimit /\ attempt' \in 1 .. MaxAttempts
    BY <1>0, <1>7, <1>10 DEF AskTools, Answers
  <2>2. QED
    BY <1>10, <2>1 DEF AskTools, CountsTyped, history
<1>11. CASE Tools
  <2>1. /\ UNCHANGED <<attempt, turn, nudges, cutoffs, history>>
        /\ pc' \in {pc, "turn", "over"} /\ outcome' \in {outcome, "error"}
    BY <1>11 DEF Tools, StartRead, RefuseUnknown, StartWrite, EndTool, RaiseBadArguments,
       DeliverResults, End, conversation
  <2>2. QED
    BY <2>1 DEF CountsTyped, history
<1>12. QED
  BY <1>1, <1>2, <1>3, <1>4, <1>5, <1>6, <1>8, <1>9, <1>10, <1>11 DEF Next, Call

\* ... and so of all.
LEMMA StepTyped ==
  ASSUME TypeOK, Conversation, Next
  PROVE  TypeOK'
<1>1. messages' \in Seq(Message)
  BY StepTells DEF Told
<1>2. CallsTyped' /\ CountsTyped'
  BY TypeParts, CallsStayTyped, CountsStayTyped
<1>3. QED
  BY <1>1, <1>2 DEF TypeOK, CallsTyped, CountsTyped

-----------------------------------------------------------------------------
(***************************************************************************)
(* The calls of one answer                                                 *)
(***************************************************************************)

\* A write has begun only after all reads and the writes before it are done, and
\* once a call has raised the run is over.
BatchOrder ==
  /\ pc \in {"turn", "compact", "call"} => batch = <<>>
  /\ \A i \in DOMAIN batch : progress[i] = "raised" => pc = "over"
  /\ \A i \in Writes : progress[i] = "running" => pc = "tools"
  /\ \A i \in Writes : progress[i] # "waiting" =>
       /\ \A j \in Reads : progress[j] = "done"
       /\ \A j \in Writes : j < i => progress[j] = "done"

\* Where calls are made in order, a write runs alone.
LEMMA OrderMeansAlone ==
  ASSUME CallsTyped, BatchOrder
  PROVE  WritesRunAlone
<1> SUFFICES ASSUME NEW i \in Writes, progress[i] = "running"
             PROVE  In("running") = {i} /\ In("raised") = {} /\ pc = "tools"
  BY DEF WritesRunAlone, In
<1>1. pc = "tools"
  BY DEF BatchOrder
<1>2. In("raised") = {}
  BY <1>1 DEF BatchOrder, In
<1>3. ASSUME NEW j \in DOMAIN batch, progress[j] = "running"
      PROVE  j = i
  <2>1. j \in Reads \/ j \in Writes
    BY DEF Reads, Writes
  <2>2. ~(j \in Reads)
    BY <1>3 DEF BatchOrder
  <2>3. j \in Writes => ~(j < i) /\ ~(i < j)
    BY <1>3 DEF BatchOrder
  <2>4. i \in Nat /\ j \in Nat
    BY DEF Writes, CallsTyped
  <2>5. QED
    BY <2>1, <2>2, <2>3, <2>4
<1>4. i \in In("running")
  BY DEF Writes, In
<1>5. QED
  BY <1>1, <1>2, <1>3, <1>4 DEF In

\* Where there is no batch, none begins out of order.
LEMMA NoBatchIsOrdered ==
  ASSUME CallsTyped, BatchOrder, pc \in {"turn", "compact", "call"}, UNCHANGED calls
  PROVE  BatchOrder'
<1>1. batch = <<>> /\ batch' = <<>>
  BY DEF BatchOrder, calls
<1>2. DOMAIN batch' = {}
  BY <1>1
<1>3. QED
  BY <1>1, <1>2 DEF BatchOrder, Reads, Writes

\* A step keeps the order of calls.
LEMMA BatchStaysOrdered ==
  ASSUME CallsTyped, CountsTyped, BatchOrder, Next
  PROVE  BatchOrder'
<1>1. CASE pc \in {"turn", "compact", "call"} /\ UNCHANGED calls
  BY <1>1, NoBatchIsOrdered
<1>2. ASSUME NEW cut \in BOOLEAN, NEW b \in Batches, AskTools(cut, b)
      PROVE  BatchOrder'
  <2>1. batch' = b /\ pc' = "tools" /\ \A i \in DOMAIN b : progress'[i] = "waiting"
    BY <1>2 DEF AskTools
  <2>2. QED
    BY <2>1 DEF BatchOrder, Reads, Writes
<1>3. CASE DeliverResults
  <2>1. batch' = <<>> /\ DOMAIN batch' = {}
    BY <1>3 DEF DeliverResults
  <2>2. QED
    BY <2>1 DEF BatchOrder, Reads, Writes
<1>4. ASSUME NEW i \in DOMAIN batch,
             StartRead(i) \/ RefuseUnknown(i) \/ StartWrite(i) \/ EndTool(i)
               \/ RaiseBadArguments(i)
      PROVE  BatchOrder'
  <2>1. UNCHANGED batch /\ UNCHANGED Reads /\ UNCHANGED Writes
    BY <1>4 DEF StartRead, RefuseUnknown, StartWrite, EndTool, RaiseBadArguments, Reads, Writes
  <2>2. /\ i \in Reads \/ i \in Writes
        /\ \A j \in Reads : j \notin Writes
        /\ \A j \in Reads \cup Writes : j \in DOMAIN batch
        /\ \A j \in DOMAIN batch : j \in Nat
    BY DEF Reads, Writes, CallsTyped
  <2>3. pc \in {"tools", "over"} /\ pc' \in {"tools", "over"} /\ (pc = "over" => pc' = "over")
    <3>1. batch # <<>>
      BY DEF CallsTyped
    <3>2. pc \in {"tools", "over"}
      BY <3>1 DEF BatchOrder, CountsTyped
    <3>3. QED
      BY <1>4, <3>2 DEF StartRead, RefuseUnknown, StartWrite, EndTool, RaiseBadArguments, End
  <2>4. PICK s \in {"running", "done", "raised"} :
          /\ Move(i, s)
          /\ progress[i] \in {"waiting", "running"}
          /\ s = "raised" => pc' = "over"
          /\ s # "done" /\ i \in Writes => CanWrite(i)
          /\ s = "running" => pc' = pc
          /\ s = "done" => i \in Reads \/ progress[i] = "running"
          /\ pc' # pc => s = "raised"
    <3>1. CASE StartRead(i)
      BY <2>2, <3>1 DEF StartRead, CanRead
    <3>2. CASE RefuseUnknown(i)
      BY <2>2, <3>2 DEF RefuseUnknown, CanRead
    <3>3. CASE StartWrite(i)
      BY <3>3 DEF StartWrite, CanWrite
    <3>4. CASE EndTool(i)
      BY <3>4 DEF EndTool
    <3>5. CASE RaiseBadArguments(i)
      BY <2>2, <2>3, <3>5 DEF RaiseBadArguments, CanRead, CanWrite, End
    <3>6. QED
      BY <1>4, <3>1, <3>2, <3>3, <3>4, <3>5
  <2>5. /\ progress'[i] = s
        /\ \A j \in DOMAIN batch : j # i => progress'[j] = progress[j]
    BY <2>4 DEF Move, CallsTyped
  <2>6. \A j \in DOMAIN batch : progress'[j] = "raised" => pc' = "over"
    BY <2>3, <2>4, <2>5 DEF BatchOrder
  <2>7. CASE i \in Reads
    <3>1. \A j \in Writes : progress[j] = "waiting" /\ progress'[j] = "waiting"
      BY <2>2, <2>4, <2>5, <2>7 DEF BatchOrder
    <3>2. QED
      BY <2>1, <2>3, <2>6, <3>1 DEF BatchOrder
  <2>8. CASE i \in Writes
    <3>1. ASSUME NEW k \in Writes, k # i, progress[k] # "waiting"
          PROVE  ~(i < k) /\ progress[k] = "done"
      <4>1. ~(i < k)
        BY <2>4, <2>8, <3>1 DEF BatchOrder
      <4>2. CASE progress[i] = "running"
        BY <2>2, <2>8, <3>1, <4>1, <4>2 DEF BatchOrder
      <4>3. CASE progress[i] = "waiting"
        BY <2>2, <2>4, <2>8, <3>1, <4>1, <4>3 DEF CanWrite
      <4>4. QED
        BY <2>4, <4>1, <4>2, <4>3
    <3>2. /\ \A j \in Reads : progress[j] = "done"
          /\ \A j \in Writes : j < i => progress[j] = "done"
      BY <2>2, <2>4, <2>8 DEF BatchOrder, CanWrite
    <3>3. ASSUME NEW k \in Writes, progress'[k] # "waiting"
          PROVE  /\ \A j \in Reads : progress'[j] = "done"
                 /\ \A j \in Writes : j < k => progress'[j] = "done"
      <4>1. \A j \in Reads : progress'[j] = "done"
        BY <2>2, <2>5, <2>8, <3>2
      <4>2. CASE k = i
        BY <2>2, <2>5, <3>2, <4>1, <4>2
      <4>3. CASE k # i
        <5>1. progress[k] # "waiting"
          BY <2>2, <2>5, <3>3, <4>3
        <5>2. ASSUME NEW j \in Writes, j < k
              PROVE  j # i /\ progress[j] = "done"
          BY <2>2, <3>1, <4>3, <5>1, <5>2 DEF BatchOrder
        <5>3. QED
          BY <2>2, <2>5, <4>1, <5>2
      <4>4. QED
        BY <4>2, <4>3
    <3>4. ASSUME NEW k \in Writes, progress'[k] = "running"
          PROVE  pc' = "tools"
      <4>1. k = i
        BY <2>2, <2>5, <3>1, <3>4
      <4>2. QED
        BY <2>4, <2>5, <2>8, <3>4, <4>1 DEF CanWrite
    <3>5. QED
      BY <2>1, <2>3, <2>6, <3>3, <3>4 DEF BatchOrder
  <2>9. QED
    BY <2>2, <2>7, <2>8
<1>5. QED
  BY <1>1, <1>2, <1>3, <1>4 DEF Next, BeginTurn, Exhausted, Compact, FitAsIs, FitSnipped,
     FitSummarized, Call, CallError, TooLong, ContinueCutOff, Nudge, Finish, Tools

-----------------------------------------------------------------------------
(***************************************************************************)
(* Counting pairs: what a compaction parts                                 *)
(***************************************************************************)

\* All of A but x is in B: up to c where it is, beyond c moved by d.
Moved(A, B, x, c, d) ==
  /\ A \subseteq Nat
  /\ c \in Nat /\ d \in Int
  /\ \A i \in A \ {x} : i <= c => i \in B
  /\ \A i \in A \ {x} : i > c => i + d \in B /\ i + d > c

\* There is one more of A than of B at most, and none if x is not one of them.
LEMMA MovedCount ==
  ASSUME NEW A, NEW B, NEW x, NEW c, NEW d, Moved(A, B, x, c, d), IsFiniteSet(B)
  PROVE  /\ IsFiniteSet(A)
         /\ Cardinality(A) <= Cardinality(B) + 1
         /\ x \notin A => Cardinality(A) <= Cardinality(B)
<1> DEFINE R == A \ {x}
           f == [i \in R |-> IF i <= c THEN i ELSE i + d]
<1>1. f \in [R -> B]
  <2>1. \A i \in R : (i <= c => i \in B) /\ (i > c => i + d \in B)
    BY DEF Moved
  <2>2. \A i \in R : i <= c \/ i > c
    BY DEF Moved
  <2>3. \A i \in R : (IF i <= c THEN i ELSE i + d) \in B
    BY <2>1, <2>2
  <2> QED
    BY <2>3
<1>2. \A i, j \in R : f[i] = f[j] => i = j
  BY DEF Moved
<1>3. f \in Injection(R, B)
  <2> HIDE DEF f, R
  <2> QED
    BY <1>1, <1>2 DEF Injection, IsInjective
<1>4. IsFiniteSet(R) /\ Cardinality(R) <= Cardinality(B)
  <2> HIDE DEF f, R
  <2> QED
    BY <1>3, FS_Injection
<1>5. CASE x \in A
  <2>1. A = R \cup {x} /\ x \notin R
    BY <1>5
  <2>2. IsFiniteSet(R \cup {x}) /\ Cardinality(R \cup {x}) = Cardinality(R) + 1
    <3> HIDE DEF R
    <3> QED BY <1>4, <2>1, FS_AddElement
  <2>3. Cardinality(R) \in Nat /\ Cardinality(B) \in Nat
    BY <1>4, FS_CardinalityType
  <2> HIDE DEF R
  <2> QED
    BY <1>4, <1>5, <2>1, <2>2, <2>3
<1>6. CASE x \notin A
  <2>1. A = R
    BY <1>6
  <2>2. Cardinality(R) \in Nat /\ Cardinality(B) \in Nat
    BY <1>4, FS_CardinalityType
  <2> HIDE DEF R
  <2> QED
    BY <1>4, <1>6, <2>1, <2>2
<1> QED
  BY <1>5, <1>6

\* The positions of results that nothing before asked for, and of calls that
\* nothing after answers.
LEMMA UnaskedAt ==
  ASSUME NEW m \in Seq(Message), NEW i
  PROVE  i \in Unasked(m) <=>
           /\ i \in 1 .. Len(m)
           /\ m[i].kind = "results"
           /\ ~(i > 1 /\ m[i - 1] = Msg("calls", m[i].turn))
  BY DEF Unasked

LEMMA UnansweredAt ==
  ASSUME NEW m \in Seq(Message), NEW i
  PROVE  i \in Unanswered(m) <=>
           /\ i \in 1 .. Len(m)
           /\ m[i].kind = "calls"
           /\ ~(i < Len(m) /\ m[i + 1].kind = "results" /\ m[i + 1].turn = m[i].turn)
  BY DEF Unanswered

\* A message that looks the same, from the side its pair is on, is parted as well.
LEMMA UnaskedAlike ==
  ASSUME NEW q \in Seq(Message), NEW m \in Seq(Message), NEW i \in Unasked(q),
         NEW k \in 1 .. Len(m), q[i] = m[k], k > 1 => i > 1 /\ q[i - 1] = m[k - 1]
  PROVE  k \in Unasked(m)
  BY UnaskedAt

LEMMA UnansweredAlike ==
  ASSUME NEW q \in Seq(Message), NEW m \in Seq(Message), NEW i \in Unanswered(q),
         NEW k \in 1 .. Len(m), q[i] = m[k],
         k < Len(m) => i < Len(q) /\ q[i + 1] = m[k + 1]
  PROVE  k \in Unanswered(m)
  BY UnansweredAt

\* There are finitely many of either.
LEMMA PartedFinite ==
  ASSUME NEW m \in Seq(Message)
  PROVE  /\ IsFiniteSet(Unasked(m)) /\ Unasked(m) \subseteq 1 .. Len(m)
         /\ IsFiniteSet(Unanswered(m)) /\ Unanswered(m) \subseteq 1 .. Len(m)
<1>1. Unasked(m) \subseteq 1 .. Len(m) /\ Unanswered(m) \subseteq 1 .. Len(m)
  BY DEF Unasked, Unanswered
<1>2. IsFiniteSet(1 .. Len(m))
  BY FS_Interval
<1> QED
  BY <1>1, <1>2, FS_Subset

\* At most one pair more is parted in n than in m, on either side.
OneMoreParted(n, m) ==
  /\ Cardinality(Unasked(n)) <= Cardinality(Unasked(m)) + 1
  /\ Cardinality(Unanswered(n)) <= Cardinality(Unanswered(m)) + 1

\* s is what m has after its first off messages.
IsTail(s, m, off) ==
  /\ m \in Seq(Message) /\ s \in Seq(Message)
  /\ off \in Nat /\ off < Len(m)
  /\ Len(s) = Len(m) - off
  /\ \A i \in 1 .. Len(s) : s[i] = m[i + off]

\* SubSeq takes a tail, and so does Last.
LEMMA SuffixIsTail ==
  ASSUME NEW m \in Seq(Message), NEW i \in 1 .. Len(m)
  PROVE  IsTail(SubSeq(m, i, Len(m)), m, i - 1)
<1> DEFINE s == SubSeq(m, i, Len(m))
<1>1. Len(m) \in Nat /\ i \in Nat /\ i <= Len(m) /\ i >= 1
  OBVIOUS
<1>2. s \in Seq(Message) /\ Len(s) = Len(m) - i + 1
  BY <1>1
<1>3. \A j \in 1 .. Len(s) : s[j] = m[i + j - 1]
  BY <1>1, <1>2
<1>4. \A j \in Int : i + j - 1 = j + (i - 1)
  BY <1>1
<1> HIDE DEF s
<1> QED
  BY <1>1, <1>2, <1>3, <1>4 DEF IsTail, s

\* The last n messages are a tail, and all of m if n is 0 or too large.
LEMMA LastIsTail ==
  ASSUME NEW m \in Seq(Message), m # <<>>, NEW n \in Nat
  PROVE  /\ n = 0 \/ n >= Len(m) => IsTail(Last(m, n), m, 0)
         /\ ~(n = 0 \/ n >= Len(m)) => IsTail(Last(m, n), m, Len(m) - n)
<1>1. Len(m) \in Nat \ {0}
  OBVIOUS
<1>2. CASE n = 0 \/ n >= Len(m)
  <2>1. Last(m, n) = m
    BY <1>2 DEF Last
  <2>2. \A i \in 1 .. Len(m) : i + 0 = i
    OBVIOUS
  <2> QED
    BY <1>1, <1>2, <2>1, <2>2 DEF IsTail
<1>3. CASE ~(n = 0 \/ n >= Len(m))
  <2>1. Last(m, n) = SubSeq(m, Len(m) - n + 1, Len(m))
    BY <1>3 DEF Last
  <2>2. Len(m) - n + 1 \in 1 .. Len(m) /\ (Len(m) - n + 1) - 1 = Len(m) - n
    BY <1>1, <1>3
  <2>3. IsTail(SubSeq(m, Len(m) - n + 1, Len(m)), m, (Len(m) - n + 1) - 1)
    BY <2>2, SuffixIsTail
  <2> QED
    BY <1>3, <2>1, <2>2, <2>3
<1> QED
  BY <1>2, <1>3

\* What follows two messages.
LEMMA AfterTwo ==
  ASSUME NEW p \in Seq(Message), NEW s \in Seq(Message), Len(p) = 2
  PROVE  /\ p \o s \in Seq(Message) /\ Len(p \o s) = Len(s) + 2
         /\ \A i \in 1 .. 2 : (p \o s)[i] = p[i]
         /\ \A i \in 3 .. Len(s) + 2 : (p \o s)[i] = s[i - 2]
<1>1. /\ p \o s \in Seq(Message) /\ Len(p \o s) = Len(p) + Len(s) /\ Len(s) \in Nat
      /\ \A i \in 1 .. Len(p) + Len(s) :
           (p \o s)[i] = IF i <= Len(p) THEN p[i] ELSE s[i - Len(p)]
  <2>1. Len(s) \in Nat
    OBVIOUS
  <2> QED
    BY <2>1, ConcatProperties, Zenon
<1>2. /\ \A i \in 1 .. 2 : i \in 1 .. Len(p) + Len(s) /\ i <= Len(p)
      /\ \A i \in 3 .. Len(s) + 2 : i \in 1 .. Len(p) + Len(s) /\ ~(i <= Len(p))
      /\ Len(p) + Len(s) = Len(s) + 2
  BY <1>1
<1> QED
  BY <1>1, <1>2

\* A tail parts the pair it begins in, if any.
LEMMA TailParts ==
  ASSUME NEW s, NEW m, NEW off, IsTail(s, m, off)
  PROVE  OneMoreParted(s, m)
<1>1. /\ m \in Seq(Message) /\ s \in Seq(Message)
      /\ off \in Nat /\ off < Len(m) /\ Len(m) \in Nat /\ Len(s) \in Nat
      /\ Len(s) = Len(m) - off
      /\ \A i \in 1 .. Len(s) : i + off \in 1 .. Len(m) /\ s[i] = m[i + off]
  BY DEF IsTail
<1>2. ASSUME NEW i \in Unasked(s), i # 1
      PROVE  i + off \in Unasked(m)
  <2>1. i \in 1 .. Len(s)
    BY PartedFinite, <1>1
  <2>2. i > 1 /\ i - 1 \in 1 .. Len(s) /\ (i - 1) + off = (i + off) - 1
    BY <1>1, <1>2, <2>1
  <2>3. s[i] = m[i + off] /\ s[i - 1] = m[(i + off) - 1] /\ i + off \in 1 .. Len(m)
    BY <1>1, <2>1, <2>2
  <2> QED
    BY <1>1, <2>2, <2>3, UnaskedAlike
<1>3. ASSUME NEW i \in Unanswered(s)
      PROVE  i + off \in Unanswered(m)
  <2>1. i \in 1 .. Len(s)
    BY PartedFinite, <1>1
  <2>2. s[i] = m[i + off] /\ i + off \in 1 .. Len(m)
    BY <1>1, <2>1
  <2>3. i + off < Len(m) => i < Len(s) /\ s[i + 1] = m[(i + off) + 1]
    <3>1. i + off < Len(m) => /\ i < Len(s) /\ i + 1 \in 1 .. Len(s)
                              /\ (i + 1) + off = (i + off) + 1
      BY <1>1, <2>1
    <3> QED
      BY <1>1, <3>1
  <2> QED
    BY <1>1, <2>2, <2>3, UnansweredAlike
<1>4. Moved(Unasked(s), Unasked(m), 1, 0, off) /\ Moved(Unanswered(s), Unanswered(m), 1, 0, off)
  <2>1. /\ Unasked(s) \subseteq 1 .. Len(s) /\ Unanswered(s) \subseteq 1 .. Len(s)
        /\ off \in Int /\ \A i \in 1 .. Len(s) : i \in Nat /\ i > 0 /\ i + off > 0
    BY <1>1, PartedFinite
  <2> QED
    BY <1>2, <1>3, <2>1 DEF Moved
<1> QED
  BY <1>1, <1>4, MovedCount, PartedFinite DEF OneMoreParted

\* s after two messages that are neither results nor calls: the pair that the tail
\* begins in is parted, as without them.
LEMMA SummaryParts ==
  ASSUME NEW s, NEW m, NEW off, IsTail(s, m, off),
         NEW p \in Seq(Message), Len(p) = 2,
         \A i \in 1 .. 2 : p[i].kind \notin {"results", "calls"}
  PROVE  OneMoreParted(p \o s, m)
<1> DEFINE q == p \o s
           d == off - 2
<1>1. /\ m \in Seq(Message) /\ s \in Seq(Message)
      /\ off \in Nat /\ off < Len(m) /\ Len(m) \in Nat /\ Len(s) \in Nat
      /\ Len(s) = Len(m) - off /\ d \in Int /\ d = off - 2
      /\ \A i \in 1 .. Len(s) : i + off \in 1 .. Len(m) /\ s[i] = m[i + off]
  BY DEF IsTail
<1>2. /\ q \in Seq(Message) /\ Len(q) = Len(s) + 2
      /\ \A i \in 1 .. 2 : q[i] = p[i]
      /\ \A i \in 3 .. Len(q) : q[i] = s[i - 2]
  BY <1>1, AfterTwo
<1> HIDE DEF q, d
<1>3. ASSUME NEW i \in 3 .. Len(q)
      PROVE  i + d \in 1 .. Len(m) /\ q[i] = m[i + d]
  <2>1. i - 2 \in 1 .. Len(s) /\ (i - 2) + off = i + d
    BY <1>1, <1>2
  <2> QED
    BY <1>1, <1>2, <2>1
<1>4. /\ \A i \in Unasked(q) : i \in 3 .. Len(q)
      /\ \A i \in Unanswered(q) : i \in 3 .. Len(q)
  <2>1. \A i \in 1 .. 2 : i \notin Unasked(q) /\ i \notin Unanswered(q)
    BY <1>2, UnaskedAt, UnansweredAt
  <2>2. \A i \in 1 .. Len(q) : i \in 1 .. 2 \/ i \in 3 .. Len(q)
    BY <1>1, <1>2
  <2> QED
    BY <1>2, <2>1, <2>2, PartedFinite
<1>5. ASSUME NEW i \in Unasked(q), i # 3
      PROVE  i + d \in Unasked(m)
  <2>1. i \in 3 .. Len(q) /\ i > 1 /\ i - 1 \in 3 .. Len(q) /\ (i - 1) + d = (i + d) - 1
    <3>1. i \in 3 .. Len(q) /\ i # 3
      BY <1>4, <1>5
    <3>2. Len(q) \in Nat /\ d \in Int
      BY <1>1, <1>2
    <3> QED
      BY <3>1, <3>2
  <2>2. q[i] = m[i + d] /\ q[i - 1] = m[(i + d) - 1] /\ i + d \in 1 .. Len(m)
    BY <1>3, <2>1
  <2> QED
    BY <1>1, <1>2, <2>1, <2>2, UnaskedAlike
<1>6. ASSUME NEW i \in Unanswered(q)
      PROVE  i + d \in Unanswered(m)
  <2>1. i \in 3 .. Len(q)
    BY <1>4
  <2>2. i + d < Len(m) => i < Len(q) /\ q[i + 1] = m[(i + d) + 1]
    <3>1. i + d < Len(m) => /\ i < Len(q) /\ i + 1 \in 3 .. Len(q)
                            /\ (i + 1) + d = (i + d) + 1
      BY <1>1, <1>2, <2>1
    <3> QED
      BY <1>3, <3>1
  <2> QED
    BY <1>1, <1>2, <1>3, <2>1, <2>2, UnansweredAlike
<1>7. Moved(Unasked(q), Unasked(m), 3, 0, d) /\ Moved(Unanswered(q), Unanswered(m), 3, 0, d)
  <2>1. \A i \in 3 .. Len(q) : i \in Nat /\ i > 0 /\ i + d > 0
    BY <1>1
  <2> QED
    BY <1>1, <1>4, <1>5, <1>6, <2>1 DEF Moved
<1> QED
  BY <1>1, <1>7, MovedCount, PartedFinite DEF OneMoreParted, q

\* The first two messages and the rest, with a gap between them: the pair that the
\* gap is in is parted.
LEMMA GapParts ==
  ASSUME NEW s, NEW m, NEW off, IsTail(s, m, off), off >= 1
  PROVE  OneMoreParted(SubSeq(m, 1, 2) \o s, m)
<1> DEFINE p == SubSeq(m, 1, 2)
           q == p \o s
           d == off - 2
<1>1. /\ m \in Seq(Message) /\ s \in Seq(Message)
      /\ off \in Nat /\ off < Len(m) /\ Len(m) \in Nat /\ Len(s) \in Nat /\ Len(m) >= 2
      /\ Len(s) = Len(m) - off /\ Len(s) >= 1 /\ d \in Int /\ d = off - 2
      /\ \A i \in 1 .. Len(s) : i + off \in 1 .. Len(m) /\ s[i] = m[i + off]
  BY DEF IsTail
<1>2. p \in Seq(Message) /\ Len(p) = 2 /\ p[1] = m[1] /\ p[2] = m[2]
  BY <1>1
<1>3. /\ q \in Seq(Message) /\ Len(q) = Len(s) + 2
      /\ q[1] = m[1] /\ q[2] = m[2]
      /\ \A i \in 3 .. Len(q) : q[i] = s[i - 2]
  <2> HIDE DEF p
  <2> QED
    BY <1>1, <1>2, AfterTwo
<1> HIDE DEF p, q, d
<1>4. ASSUME NEW i \in 3 .. Len(q)
      PROVE  i + d \in 1 .. Len(m) /\ q[i] = m[i + d]
  <2>1. i - 2 \in 1 .. Len(s) /\ (i - 2) + off = i + d
    BY <1>1, <1>3
  <2> QED
    BY <1>1, <1>3, <2>1
<1>5. ASSUME NEW i \in 1 .. Len(q), i > 2
      PROVE  i \in 3 .. Len(q)
  BY <1>1, <1>3, <1>5
<1>6. /\ \A i \in Unasked(q) : i \in 1 .. Len(q)
      /\ \A i \in Unanswered(q) : i \in 1 .. Len(q)
  BY <1>3, PartedFinite
<1>7. ASSUME NEW i \in Unasked(q), i <= 2
      PROVE  i \in Unasked(m)
  <2>1. i = 1 \/ i = 2
    BY <1>1, <1>3, <1>6, <1>7
  <2>2. i \in 1 .. Len(m) /\ q[i] = m[i] /\ (i > 1 => q[i - 1] = m[i - 1])
    BY <1>1, <1>3, <2>1
  <2> QED
    BY <1>1, <1>3, <2>2, UnaskedAlike
<1>8. ASSUME NEW i \in Unasked(q), i > 2, i # 3
      PROVE  i + d \in Unasked(m) /\ i + d > 2
  <2>1. i \in 3 .. Len(q)
    BY <1>5, <1>6, <1>8
  <2>2. i > 1 /\ i - 1 \in 3 .. Len(q) /\ (i - 1) + d = (i + d) - 1 /\ i + d > 2
    BY <1>1, <1>3, <1>8, <2>1
  <2>3. q[i] = m[i + d] /\ q[i - 1] = m[(i + d) - 1] /\ i + d \in 1 .. Len(m)
    BY <1>4, <2>1, <2>2
  <2> QED
    BY <1>1, <1>3, <2>2, <2>3, UnaskedAlike
<1>9. ASSUME NEW i \in Unanswered(q), i <= 1
      PROVE  i \in Unanswered(m)
  <2>1. i = 1
    BY <1>1, <1>3, <1>6, <1>9
  <2>2. i \in 1 .. Len(m) /\ q[i] = m[i] /\ i < Len(q) /\ q[i + 1] = m[i + 1]
    BY <1>1, <1>3, <2>1
  <2> QED
    BY <1>1, <1>3, <2>2, UnansweredAlike
<1>10. ASSUME NEW i \in Unanswered(q), i > 1, i # 2
       PROVE  i + d \in Unanswered(m) /\ i + d > 1
  <2>1. i > 2
    BY <1>1, <1>3, <1>6, <1>10
  <2>2. i \in 3 .. Len(q)
    BY <1>5, <1>6, <2>1
  <2>3. i + d < Len(m) => i < Len(q) /\ q[i + 1] = m[(i + d) + 1]
    <3>1. i + d < Len(m) => /\ i < Len(q) /\ i + 1 \in 3 .. Len(q)
                            /\ (i + 1) + d = (i + d) + 1
      BY <1>1, <1>3, <2>2
    <3> QED
      BY <1>4, <3>1
  <2>4. i + d > 1
    BY <1>1, <2>2
  <2> QED
    BY <1>1, <1>3, <1>4, <2>2, <2>3, <2>4, UnansweredAlike
<1>11. /\ Moved(Unasked(q), Unasked(m), 3, 2, d)
       /\ Moved(Unanswered(q), Unanswered(m), 2, 1, d)
  <2>1. \A i \in 1 .. Len(q) : i \in Nat
    BY <1>1
  <2> QED
    BY <1>1, <1>6, <1>7, <1>8, <1>9, <1>10, <2>1 DEF Moved
<1> QED
  BY <1>1, <1>11, MovedCount, PartedFinite DEF OneMoreParted, p, q

\* Two results, or two calls.
Alike(x, y) == x.kind = y.kind /\ x.kind \in {"results", "calls"}
Twins(m) == Len(m) >= 2 /\ Alike(m[1], m[2])

\* A history of fewer than two messages has one.
LEMMA OnlyOne ==
  ASSUME NEW m \in Seq(Message), m # <<>>, Len(m) < 2
  PROVE  Len(m) = 1
<1> DEFINE k == Len(m)
<1>1. k \in Nat /\ k # 0 /\ k < 2
  OBVIOUS
<1> HIDE DEF k
<1>2. k = 1
  BY <1>1
<1> QED
  BY <1>2 DEF k

\* All of m after its first messages: a pair is parted where they meet, unless both
\* of the first messages are repeated apart from their partners.
LEMMA RepeatParts ==
  ASSUME NEW m \in Seq(Message), m # <<>>, ~Twins(m)
  PROVE  OneMoreParted(SubSeq(m, 1, IF Len(m) < 2 THEN Len(m) ELSE 2) \o m, m)
<1>1. CASE Len(m) < 2
  <2> DEFINE p == SubSeq(m, 1, Len(m))
             q == p \o m
  <2>1. Len(m) = 1
    BY <1>1, OnlyOne
  <2>2. q \in Seq(Message) /\ Len(q) = 2 /\ q[2] = m[1]
    <3>1. p = m
      BY <2>1
    <3>2. m \o m \in Seq(Message) /\ Len(m \o m) = 2 /\ (m \o m)[2] = m[1]
      BY <2>1
    <3> HIDE DEF p
    <3> QED
      BY <3>1, <3>2
  <2>3. /\ \A i \in Unasked(q) : i \in 1 .. 2
        /\ \A i \in Unanswered(q) : i \in 1 .. 2
    BY <2>2, PartedFinite
  <2>4. (-1) \in Int /\ 0 \in Nat /\ \A i \in 1 .. 2 : i \in Nat /\ i > 0
    OBVIOUS
  <2> HIDE DEF p, q
  <2>5. ASSUME NEW i \in Unasked(q), i # 1
        PROVE  i + (-1) \in Unasked(m) /\ i + (-1) > 0
    <3>1. i = 2 /\ i + (-1) = 1 /\ 1 \in 1 .. Len(m)
      BY <2>1, <2>3, <2>5
    <3> QED
      BY <2>2, <3>1, UnaskedAlike
  <2>6. ASSUME NEW i \in Unanswered(q), i # 1
        PROVE  i + (-1) \in Unanswered(m) /\ i + (-1) > 0
    <3>1. i = 2 /\ i + (-1) = 1 /\ 1 \in 1 .. Len(m) /\ ~(1 < Len(m))
      BY <2>1, <2>3, <2>6
    <3> QED
      BY <2>2, <3>1, UnansweredAlike
  <2>7. /\ Moved(Unasked(q), Unasked(m), 1, 0, -1)
        /\ Moved(Unanswered(q), Unanswered(m), 1, 0, -1)
    BY <2>3, <2>4, <2>5, <2>6 DEF Moved
  <2> QED
    BY <1>1, <2>7, MovedCount, PartedFinite DEF OneMoreParted, p, q
<1>2. CASE ~(Len(m) < 2)
  <2> DEFINE p == SubSeq(m, 1, 2)
             q == p \o m
             d == 0 - 2
             x == IF m[2].kind = "results" THEN 2 ELSE 1
             y == IF m[2].kind = "calls" THEN 2 ELSE 1
  <2>1. /\ Len(m) \in Nat /\ Len(m) >= 2 /\ d \in Int /\ d = 0 - 2
        /\ p \in Seq(Message) /\ Len(p) = 2 /\ p[1] = m[1] /\ p[2] = m[2]
    BY <1>2
  <2>2. /\ q \in Seq(Message) /\ Len(q) = Len(m) + 2
        /\ q[1] = m[1] /\ q[2] = m[2]
        /\ \A i \in 3 .. Len(q) : q[i] = m[i - 2]
    <3> HIDE DEF p
    <3> QED
      BY <2>1, AfterTwo
  <2> HIDE DEF p, q, d
  <2>3. ASSUME NEW i \in 3 .. Len(q)
        PROVE  i + d \in 1 .. Len(m) /\ q[i] = m[i + d] /\ i \in Nat /\ i > 0 /\ i + d > 0
    <3>1. i + d = i - 2 /\ i + d \in 1 .. Len(m) /\ i \in Nat /\ i > 0 /\ i + d > 0
      BY <2>1, <2>2
    <3> QED
      BY <2>2, <3>1
  <2>4. \A i \in 1 .. Len(q) : i = 1 \/ i = 2 \/ i \in 3 .. Len(q)
    BY <2>1, <2>2
  <2>5. ~Alike(m[1], m[2])
    BY <2>1 DEF Twins
  <2>6. ASSUME NEW i \in Unasked(q), i # x
        PROVE  i \in 3 .. Len(q) /\ i + d \in Unasked(m)
    <3>1. i \in 1 .. Len(q) /\ q[i].kind = "results"
      BY <2>2, UnaskedAt
    <3>2. i \in 3 .. Len(q)
      BY <2>2, <2>4, <2>5, <2>6, <3>1 DEF Alike
    <3>3. i + d > 1 => i > 1 /\ q[i - 1] = m[(i + d) - 1]
      <4>1. i + d > 1 => i > 1 /\ i - 1 \in 3 .. Len(q) /\ (i - 1) + d = (i + d) - 1
        BY <2>1, <2>2, <3>2
      <4> QED
        BY <2>3, <4>1
    <3> QED
      BY <2>2, <2>3, <3>2, <3>3, UnaskedAlike
  <2>7. ASSUME NEW i \in Unanswered(q), i # y
        PROVE  i \in 3 .. Len(q) /\ i + d \in Unanswered(m)
    <3>1. i \in 1 .. Len(q) /\ q[i].kind = "calls"
      BY <2>2, UnansweredAt
    <3>2. i \in 3 .. Len(q)
      BY <2>2, <2>4, <2>5, <2>7, <3>1 DEF Alike
    <3>3. i + d < Len(m) => i < Len(q) /\ q[i + 1] = m[(i + d) + 1]
      <4>1. i + d < Len(m) => /\ i < Len(q) /\ i + 1 \in 3 .. Len(q)
                              /\ (i + 1) + d = (i + d) + 1
        BY <2>1, <2>2, <3>2
      <4> QED
        BY <2>3, <4>1
    <3> QED
      BY <2>2, <2>3, <3>2, <3>3, UnansweredAlike
  <2>8. /\ Unasked(q) \subseteq Nat /\ Unanswered(q) \subseteq Nat
        /\ \A i \in Unasked(q) \cup Unanswered(q) : i > 0
    <3>1. \A i \in 1 .. Len(q) : i \in Nat /\ i > 0
      BY <2>1, <2>2
    <3> QED
      BY <2>2, <3>1, PartedFinite
  <2> HIDE DEF x, y
  <2>9. Moved(Unasked(q), Unasked(m), x, 0, d) /\ Moved(Unanswered(q), Unanswered(m), y, 0, d)
    <3>1. \A i \in Unasked(q) \cup Unanswered(q) : ~(i <= 0)
      BY <2>8
    <3> QED
      BY <2>1, <2>3, <2>6, <2>7, <2>8, <3>1 DEF Moved
  <2> QED
    BY <1>2, <2>9, MovedCount, PartedFinite DEF OneMoreParted, p, q
<1> QED
  BY <1>1, <1>2

\* The emergency truncation repeats the history from its first message on.
Repeats(m) == KeepRecent \div 2 = 0 \/ KeepRecent \div 2 >= Len(m)

\* What it looks like.
LEMMA EmergencyShape ==
  ASSUME NEW m \in Seq(Message), m # <<>>
  PROVE  /\ Repeats(m) =>
              Emergency(m) = SubSeq(m, 1, IF Len(m) < 2 THEN Len(m) ELSE 2) \o m
         /\ ~Repeats(m) =>
              /\ Emergency(m) = SubSeq(m, 1, 2) \o Last(m, KeepRecent \div 2)
              /\ IsTail(Last(m, KeepRecent \div 2), m, Len(m) - KeepRecent \div 2)
              /\ Len(m) >= 2 /\ Len(m) - KeepRecent \div 2 >= 1
<1>1. Len(m) \in Nat \ {0} /\ KeepRecent \div 2 \in Nat
  BY KeepAssumption
<1> DEFINE k == KeepRecent \div 2
<1> HIDE DEF k
<1>2. CASE k = 0 \/ k >= Len(m)
  <2>1. Last(m, k) = m
    BY <1>2 DEF Last
  <2> QED
    BY <1>2, <2>1 DEF Emergency, Repeats, k
<1>3. CASE ~(k = 0 \/ k >= Len(m))
  <2>1. Len(m) >= 2 /\ Len(m) - k >= 1 /\ ~(Len(m) < 2) /\ k \in Nat
    BY <1>1, <1>3 DEF k
  <2>2. IsTail(Last(m, k), m, Len(m) - k)
    BY <1>3, <2>1, LastIsTail
  <2> QED
    BY <1>3, <2>1, <2>2 DEF Emergency, Repeats, k
<1> QED
  BY <1>2, <1>3

\* The emergency truncation parts one pair at most, unless it repeats a history that
\* begins with twins.
LEMMA EmergencyParts ==
  ASSUME NEW m \in Seq(Message), m # <<>>, Twins(m) => ~Repeats(m)
  PROVE  OneMoreParted(Emergency(m), m)
<1>1. CASE Repeats(m)
  BY <1>1, EmergencyShape, RepeatParts
<1>2. CASE ~Repeats(m)
  BY <1>2, EmergencyShape, GapParts
<1> QED
  BY <1>1, <1>2

\* So does the halving of a history.
LEMMA HalvedIsTail ==
  ASSUME NEW m \in Seq(Message), m # <<>>
  PROVE  IsTail(Halved(m), m, Len(m) \div 2)
<1>1. Len(m) \div 2 + 1 \in 1 .. Len(m) /\ (Len(m) \div 2 + 1) - 1 = Len(m) \div 2
  OBVIOUS
<1> QED
  BY <1>1, SuffixIsTail DEF Halved

LEMMA HalvedParts ==
  ASSUME NEW m \in Seq(Message), m # <<>>
  PROVE  OneMoreParted(Halved(m), m)
  BY HalvedIsTail, TailParts

\* A summary and its acknowledgement are neither results nor calls.
LEMMA SummaryPrefix ==
  /\ <<Msg("summary", 0), Msg("ack", 0)>> \in Seq(Message)
  /\ Len(<<Msg("summary", 0), Msg("ack", 0)>>) = 2
  /\ \A i \in 1 .. 2 :
       <<Msg("summary", 0), Msg("ack", 0)>>[i].kind \notin {"results", "calls"}
<1>1. /\ Msg("summary", 0) \in Message /\ Msg("ack", 0) \in Message
      /\ Msg("summary", 0).kind = "summary" /\ Msg("ack", 0).kind = "ack"
  BY MsgTyped, LimitsAssumption DEF FromUser, FromModel
<1> QED
  BY <1>1

\* So does its summary.
LEMMA SummarizedParts ==
  ASSUME NEW m \in Seq(Message), m # <<>>
  PROVE  OneMoreParted(Summarized(m), m)
<1>1. \E off : IsTail(Last(m, KeepRecent), m, off)
  BY LastIsTail, KeepAssumption
<1> QED
  BY <1>1, SummaryPrefix, SummaryParts DEF Summarized

\* Cutting results down parts nothing, and changes neither kinds nor calls.
LEMMA SnippedAt ==
  ASSUME NEW m \in Seq(Message), NEW keep \in Nat
  PROVE  /\ Snipped(m, keep) \in Seq(Message)
         /\ Len(Snipped(m, keep)) = Len(m)
         /\ \A i \in 1 .. Len(m) :
              LET n == Snipped(m, keep) IN
              /\ n[i].kind = m[i].kind /\ n[i].turn = m[i].turn
              /\ m[i].kind # "results" \/ i > Len(m) - keep => n[i] = m[i]
<1> DEFINE n == Snipped(m, keep)
<1>1. DOMAIN n = 1 .. Len(m) /\ Len(m) \in Nat
  BY DEF Snipped
<1>2. ASSUME NEW i \in 1 .. Len(m)
      PROVE  /\ n[i] \in Message /\ n[i].kind = m[i].kind /\ n[i].turn = m[i].turn
             /\ m[i].kind # "results" \/ i > Len(m) - keep => n[i] = m[i]
  <2>1. m[i] \in Message /\ i \in DOMAIN m
    OBVIOUS
  <2>2. n[i] = IF m[i].kind = "results" /\ i <= Len(m) - keep
               THEN [m[i] EXCEPT !.whole = FALSE] ELSE m[i]
    BY <2>1, Zenon DEF Snipped
  <2>3. i > Len(m) - keep => ~(i <= Len(m) - keep)
    BY <1>1
  <2> HIDE DEF n
  <2> QED
    BY <2>1, <2>2, <2>3 DEF Message
<1>3. n \in Seq(Message) /\ Len(n) = Len(m)
  <2>1. n = [i \in 1 .. Len(m) |-> n[i]]
    BY DEF Snipped
  <2> QED
    BY <2>1, <1>1, <1>2
<1> QED
  BY <1>2, <1>3

\* Neither side of a pair is lost when results are cut down.
LEMMA SnippedParts ==
  ASSUME NEW m \in Seq(Message), NEW keep \in Nat
  PROVE  /\ Cardinality(Unasked(Snipped(m, keep))) <= Cardinality(Unasked(m))
         /\ Cardinality(Unanswered(Snipped(m, keep))) <= Cardinality(Unanswered(m))
<1> DEFINE n == Snipped(m, keep)
<1>1. /\ n \in Seq(Message) /\ Len(n) = Len(m) /\ Len(m) \in Nat
      /\ \A i \in 1 .. Len(m) :
           /\ n[i].kind = m[i].kind /\ n[i].turn = m[i].turn
           /\ m[i].kind # "results" => n[i] = m[i]
  BY SnippedAt
<1> HIDE DEF n
<1>2. ASSUME NEW i \in Unasked(n)
      PROVE  i \in Unasked(m)
  <2>1. /\ i \in 1 .. Len(n) /\ n[i].kind = "results"
        /\ ~(i > 1 /\ n[i - 1] = Msg("calls", n[i].turn))
    BY <1>1, UnaskedAt
  <2>2. i > 1 /\ m[i - 1] = Msg("calls", m[i].turn) => n[i - 1] = Msg("calls", n[i].turn)
    <3>1. i > 1 => i - 1 \in 1 .. Len(m)
      BY <1>1, <2>1
    <3>2. Msg("calls", m[i].turn).kind = "calls"
      BY DEF Msg
    <3>3. n[i].turn = m[i].turn
      BY <1>1, <2>1
    <3> QED
      BY <1>1, <3>1, <3>2, <3>3
  <2> QED
    BY <1>1, <2>1, <2>2, UnaskedAt
<1>3. ASSUME NEW i \in Unanswered(n)
      PROVE  i \in Unanswered(m)
  <2>1. /\ i \in 1 .. Len(n) /\ n[i].kind = "calls"
        /\ ~(i < Len(n) /\ n[i + 1].kind = "results" /\ n[i + 1].turn = n[i].turn)
    BY <1>1, UnansweredAt
  <2>2. i < Len(m) => i + 1 \in 1 .. Len(m)
    BY <1>1, <2>1
  <2> QED
    BY <1>1, <2>1, <2>2, UnansweredAt
<1>4. Unasked(n) \in SUBSET Unasked(m) /\ Unanswered(n) \in SUBSET Unanswered(m)
  BY <1>2, <1>3
<1> QED
  BY <1>4, PartedFinite, FS_Subset DEF n

-----------------------------------------------------------------------------
(***************************************************************************)
(* Why no truncation parts two pairs                                       *)
(***************************************************************************)

\* An emergency truncation that repeats the whole history meets no twins at its
\* front: a history that has them there is longer, because only halving a longer
\* one puts them there.  If no message but the last is kept, twins are at the
\* front only, and halving takes them away.
Apart(m) ==
  /\ KeepRecent = 1 => \A i \in 2 .. Len(m) - 1 : ~Alike(m[i], m[i + 1])
  /\ KeepRecent # 1 => /\ Len(m) = 1 => ~Alike(m[1], m[1])
                       /\ Twins(m) => Len(m) > KeepRecent \div 2

Truncatable(m) == Twins(m) => ~Repeats(m)

\* Half of what is kept, in numbers.
LEMMA HalfOfKept ==
  /\ KeepRecent \in Nat \ {0} /\ KeepRecent \div 2 \in Nat
  /\ KeepRecent = 1 => KeepRecent \div 2 = 0
  /\ KeepRecent # 1 => KeepRecent \div 2 >= 1
  /\ 2 * (KeepRecent \div 2) <= KeepRecent
  BY KeepAssumption

\* Before a history that was short enough to stay.
LEMMA ApartIfShort ==
  ASSUME NEW m \in Seq(Message), m # <<>>, Apart(m), ~Long(m)
  PROVE  Truncatable(m)
<1>1. Len(m) \in Nat /\ Len(m) <= KeepRecent
  BY HalfOfKept DEF Long
<1>2. CASE KeepRecent = 1
  BY <1>1, <1>2 DEF Truncatable, Twins
<1>3. CASE KeepRecent # 1
  BY <1>1, <1>3, HalfOfKept DEF Truncatable, Apart, Repeats
<1> QED
  BY <1>2, <1>3

\* What cutting results down, halving, summarizing and truncating leave of it.
LEMMA ApartSnipped ==
  ASSUME NEW m \in Seq(Message), NEW keep \in Nat, Apart(m)
  PROVE  Apart(Snipped(m, keep))
<1> DEFINE n == Snipped(m, keep)
<1>1. /\ Len(n) = Len(m) /\ Len(m) \in Nat
      /\ \A i \in 1 .. Len(m) : n[i].kind = m[i].kind
  BY SnippedAt
<1> HIDE DEF n
<1>2. \A i, j \in 1 .. Len(m) : Alike(n[i], n[j]) <=> Alike(m[i], m[j])
  BY <1>1 DEF Alike
<1>3. Twins(n) <=> Twins(m)
  BY <1>1, <1>2 DEF Twins
<1>4. \A i \in 2 .. Len(m) - 1 : i \in 1 .. Len(m) /\ i + 1 \in 1 .. Len(m)
  BY <1>1
<1>5. Len(m) = 1 => 1 \in 1 .. Len(m)
  BY <1>1
<1> QED
  BY <1>1, <1>2, <1>3, <1>4, <1>5 DEF Apart, n

LEMMA ApartHalved ==
  ASSUME NEW m \in Seq(Message), m # <<>>, Apart(m), Long(m)
  PROVE  Apart(Halved(m)) /\ Truncatable(Halved(m))
<1> DEFINE h == Halved(m)
           off == Len(m) \div 2
<1>1. Len(m) \in Nat /\ Len(m) > KeepRecent
  BY DEF Long
<1>2. /\ h \in Seq(Message) /\ off \in Nat /\ off < Len(m) /\ Len(h) = Len(m) - off
      /\ \A i \in 1 .. Len(h) : h[i] = m[i + off]
  BY HalvedIsTail DEF IsTail
<1>3. Len(m) >= 2 => off >= 1
  BY <1>1
<1>4. 2 * Len(h) >= Len(m)
  BY <1>1, <1>2
<1> HIDE DEF h, off
<1>5. CASE KeepRecent = 1
  <2>1. off >= 1
    BY <1>1, <1>3, <1>5
  <2>2. ASSUME NEW i \in 1 .. Len(h) - 1
        PROVE  ~Alike(h[i], h[i + 1])
    <3>1. /\ i \in 1 .. Len(h) /\ i + 1 \in 1 .. Len(h)
          /\ (i + 1) + off = (i + off) + 1 /\ i + off \in 2 .. Len(m) - 1
      BY <1>1, <1>2, <2>1
    <3>2. h[i] = m[i + off] /\ h[i + 1] = m[(i + off) + 1]
      BY <1>2, <3>1
    <3> QED
      BY <1>5, <3>1, <3>2 DEF Apart
  <2>3. \A i \in 2 .. Len(h) - 1 : i \in 1 .. Len(h) - 1
    BY <1>1, <1>2
  <2>4. Len(h) >= 2 => 1 \in 1 .. Len(h) - 1 /\ 1 + 1 = 2
    BY <1>1, <1>2
  <2>5. ~Twins(h)
    BY <2>2, <2>4 DEF Twins
  <2> QED
    BY <1>5, <2>2, <2>3, <2>5 DEF Apart, Truncatable, h
<1>6. CASE KeepRecent # 1
  <2>1. Len(h) > KeepRecent \div 2 /\ Len(h) # 1 /\ ~(KeepRecent \div 2 = 0)
        /\ ~(KeepRecent \div 2 >= Len(h))
    BY <1>1, <1>2, <1>4, <1>6, HalfOfKept
  <2> QED
    BY <1>6, <2>1 DEF Apart, Truncatable, Repeats, h
<1> QED
  BY <1>5, <1>6

LEMMA ApartSummarized ==
  ASSUME NEW m \in Seq(Message), m # <<>>
  PROVE  Apart(Summarized(m)) /\ Truncatable(Summarized(m))
<1> DEFINE p == <<Msg("summary", 0), Msg("ack", 0)>>
           s == Last(m, KeepRecent)
           q == p \o s
<1>1. p \in Seq(Message) /\ Len(p) = 2 /\ \A i \in 1 .. 2 : p[i].kind \notin {"results", "calls"}
  BY SummaryPrefix
<1>2. /\ s \in Seq(Message) /\ Len(s) \in Nat /\ Len(s) >= 1
      /\ KeepRecent = 1 => Len(s) = 1
  <2>1. Len(m) \in Nat \ {0}
    OBVIOUS
  <2>2. CASE KeepRecent >= Len(m)
    <3>1. IsTail(s, m, 0)
      BY <2>2, LastIsTail, HalfOfKept
    <3> QED
      BY <2>1, <2>2, <3>1, HalfOfKept DEF IsTail
  <2>3. CASE ~(KeepRecent >= Len(m))
    <3>1. IsTail(s, m, Len(m) - KeepRecent)
      BY <2>3, LastIsTail, HalfOfKept
    <3> QED
      BY <2>1, <2>3, <3>1, HalfOfKept DEF IsTail
  <2> QED
    BY <2>2, <2>3
<1>3. Summarized(m) = q
  BY DEF Summarized
<1> HIDE DEF p, s
<1>4. q \in Seq(Message) /\ Len(q) = Len(s) + 2 /\ \A i \in 1 .. 2 : q[i] = p[i]
  BY <1>1, <1>2, AfterTwo
<1> HIDE DEF q
<1>5. ~Alike(q[1], q[2]) /\ \A x : ~Alike(q[2], x)
  <2>1. 1 \in 1 .. 2 /\ 2 \in 1 .. 2
    OBVIOUS
  <2> QED
    BY <1>1, <1>4, <2>1 DEF Alike
<1>6. ~Twins(q) /\ Len(q) # 1
  BY <1>2, <1>4, <1>5 DEF Twins
<1>7. KeepRecent = 1 => \A i \in 2 .. Len(q) - 1 : i = 2
  <2> DEFINE k == Len(q)
             l == Len(s)
  <2>1. k = l + 2 /\ l \in Nat /\ (KeepRecent = 1 => l = 1)
    BY <1>2, <1>4
  <2> HIDE DEF k, l
  <2>2. KeepRecent = 1 => \A i \in 2 .. k - 1 : i = 2
    BY <2>1
  <2> QED
    BY <2>2 DEF k
<1> QED
  BY <1>3, <1>5, <1>6, <1>7 DEF Apart, Truncatable

LEMMA ApartEmergency ==
  ASSUME NEW m \in Seq(Message), m # <<>>, Apart(m), Truncatable(m)
  PROVE  Apart(Emergency(m))
<1> DEFINE e == Emergency(m)
<1>1. Len(m) \in Nat \ {0}
  OBVIOUS
<1>2. CASE Repeats(m) /\ Len(m) < 2
  <2>1. SubSeq(m, 1, Len(m)) = m /\ Len(m) = 1
    <3>1. Len(m) = 1
      BY <1>2, OnlyOne
    <3> QED
      BY <3>1
  <2>2. e = m \o m
    BY <1>2, <2>1, EmergencyShape
  <2>3. Len(e) = 2 /\ e[1] = m[1] /\ e[2] = m[1]
    <3>1. Len(m \o m) = 2 /\ (m \o m)[1] = m[1] /\ (m \o m)[2] = m[1]
      BY <2>1
    <3> HIDE DEF e
    <3> QED BY <2>2, <3>1
  <2> HIDE DEF e
  <2>4. KeepRecent # 1 => ~Twins(e)
    BY <2>1, <2>3 DEF Apart, Twins
  <2> QED
    BY <2>3, <2>4 DEF Apart, e
<1>3. CASE Repeats(m) /\ ~(Len(m) < 2)
  <2> DEFINE p == SubSeq(m, 1, 2)
  <2>1. p \in Seq(Message) /\ Len(p) = 2 /\ p[1] = m[1] /\ p[2] = m[2] /\ Len(m) >= 2
    BY <1>1, <1>3
  <2>2. e = p \o m
    BY <1>3, EmergencyShape
  <2> HIDE DEF p, e
  <2>3. /\ e[1] = m[1] /\ e[2] = m[2] /\ Len(e) = Len(m) + 2
        /\ \A i \in 3 .. Len(e) : e[i] = m[i - 2]
    BY <2>1, <2>2, AfterTwo
  <2>4. ~Alike(m[1], m[2]) /\ ~Alike(m[2], m[1])
    BY <1>3, <2>1 DEF Truncatable, Twins, Alike
  <2>5. ~Twins(e) /\ Len(e) # 1
    BY <1>1, <2>3, <2>4 DEF Twins
  <2>6. ASSUME KeepRecent = 1, NEW i \in 2 .. Len(e) - 1
        PROVE  ~Alike(e[i], e[i + 1])
    <3>1. i = 2 \/ i = 3 \/ i - 2 \in 2 .. Len(m) - 1
      BY <1>1, <2>3
    <3>2. /\ i + 1 \in 3 .. Len(e) /\ (i + 1) - 2 = i - 1
          /\ i # 2 => i \in 3 .. Len(e)
          /\ (i - 2) + 1 = i - 1
      BY <1>1, <2>3
    <3>3. e[i + 1] = m[i - 1] /\ (i # 2 => e[i] = m[i - 2])
      BY <2>3, <3>2
    <3>4. CASE i = 2 \/ i = 3
      BY <2>3, <2>4, <3>3, <3>4
    <3>5. CASE i # 2 /\ i - 2 \in 2 .. Len(m) - 1
      <4>1. ~Alike(m[i - 2], m[(i - 2) + 1])
        BY <2>6, <3>5 DEF Apart
      <4> QED
        BY <3>2, <3>3, <3>5, <4>1
    <3> QED
      BY <3>1, <3>4, <3>5
  <2> QED
    BY <2>5, <2>6 DEF Apart, e
<1>4. CASE ~Repeats(m)
  <2> DEFINE p == SubSeq(m, 1, 2)
             s == Last(m, KeepRecent \div 2)
  <2>1. /\ e = p \o s /\ Len(m) >= 2
        /\ s \in Seq(Message) /\ Len(s) = Len(m) - (Len(m) - KeepRecent \div 2)
    BY <1>4, EmergencyShape DEF IsTail
  <2>2. p \in Seq(Message) /\ Len(p) = 2 /\ p[1] = m[1] /\ p[2] = m[2]
    BY <1>1, <2>1
  <2> HIDE DEF p, s, e
  <2>3. Len(e) = Len(s) + 2 /\ e[1] = m[1] /\ e[2] = m[2]
    BY <2>1, <2>2, AfterTwo
  <2>4. Len(s) = KeepRecent \div 2
    BY <1>1, <2>1, HalfOfKept
  <2>5. KeepRecent # 1 /\ Len(e) # 1 /\ Len(e) > KeepRecent \div 2
    BY <1>4, <2>3, <2>4, HalfOfKept DEF Repeats
  <2> QED
    BY <2>5 DEF Apart, e
<1> QED
  BY <1>2, <1>3, <1>4

\* Messages that are added make no twins: results come after calls, and calls
\* after a message of the user.
LEMMA ApartAdded ==
  ASSUME NEW m \in Seq(Message), m # <<>>, NEW s \in Seq(Message), Apart(m),
         \A i \in 1 .. Len(s) : s[i].kind \in {"results", "calls"} =>
           Len(s) = 1 /\ s[i].kind # m[Len(m)].kind
  PROVE  Apart(m \o s)
<1> DEFINE n == m \o s
<1>1. /\ Len(m) \in Nat \ {0} /\ Len(s) \in Nat /\ Len(n) = Len(m) + Len(s)
      /\ \A i \in 1 .. Len(m) : n[i] = m[i]
      /\ \A i \in 1 .. Len(s) : n[Len(m) + i] = s[i]
  OBVIOUS
<1> HIDE DEF n
<1>2. ASSUME NEW i \in 1 .. Len(n) - 1, i >= Len(m)
      PROVE  ~Alike(n[i], n[i + 1])
  <2> DEFINE k == i + 1 - Len(m)
  <2>1. k \in 1 .. Len(s) /\ Len(m) + k = i + 1
    BY <1>1, <1>2
  <2>2. n[i + 1] = s[k]
    <3> HIDE DEF k
    <3> QED BY <1>1, <2>1
  <2>3. CASE Len(s) = 1
    <3>1. i = Len(m) /\ n[i] = m[Len(m)]
      BY <1>1, <1>2, <2>3
    <3> HIDE DEF k
    <3> QED
      BY <2>1, <2>2, <3>1 DEF Alike
  <2>4. CASE Len(s) # 1
    <3> HIDE DEF k
    <3> QED
      BY <2>1, <2>2, <2>4 DEF Alike
  <2> QED
    BY <2>3, <2>4
<1>3. ASSUME KeepRecent = 1, NEW i \in 2 .. Len(n) - 1
      PROVE  ~Alike(n[i], n[i + 1])
  <2>1. CASE i >= Len(m)
    <3>1. i \in 1 .. Len(n) - 1
      BY <1>1
    <3> QED
      BY <1>2, <2>1, <3>1
  <2>2. CASE ~(i >= Len(m))
    <3>1. i \in 2 .. Len(m) - 1 /\ i \in 1 .. Len(m) /\ i + 1 \in 1 .. Len(m)
      BY <1>1, <2>2
    <3> QED
      BY <1>1, <1>3, <3>1 DEF Apart
  <2> QED
    BY <2>1, <2>2
<1>4. ASSUME KeepRecent # 1, Len(n) = 1
      PROVE  ~Alike(n[1], n[1])
  <2>1. Len(m) = 1 /\ n[1] = m[1]
    <3>1. Len(m) < 2
      <4> DEFINE k == Len(m)
                 l == Len(s)
      <4>1. k + l = 1 /\ k \in Nat /\ l \in Nat
        BY <1>1, <1>4
      <4> HIDE DEF k, l
      <4>2. k < 2
        BY <4>1
      <4> QED
        BY <4>2 DEF k
    <3>2. Len(m) = 1 /\ 1 \in 1 .. Len(m)
      BY <3>1, OnlyOne
    <3> QED
      BY <1>1, <3>2
  <2> QED
    BY <1>4, <2>1 DEF Apart
<1>5. ASSUME KeepRecent # 1, Twins(n)
      PROVE  Len(n) > KeepRecent \div 2
  <2>1. Len(m) >= 2
    <3>1. CASE Len(m) = 1
      <4>1. 1 \in 1 .. Len(n) - 1 /\ 1 >= Len(m) /\ 1 + 1 = 2
        BY <1>1, <1>5, <3>1 DEF Twins
      <4> QED
        BY <1>2, <1>5, <4>1 DEF Twins
    <3> QED
      BY <1>1, <3>1, OnlyOne
  <2>2. n[1] = m[1] /\ n[2] = m[2]
    BY <1>1, <2>1
  <2>3. Len(m) > KeepRecent \div 2
    BY <1>5, <2>1, <2>2 DEF Twins, Apart
  <2> QED
    BY <1>1, <2>3, HalfOfKept
<1> QED
  BY <1>3, <1>4, <1>5 DEF Apart, n

-----------------------------------------------------------------------------
(***************************************************************************)
(* Pairs: what a step does to them                                         *)
(***************************************************************************)

\* At most n pairs are parted on either side, not counting the calls at S.
PartedAtMost(m, S, n) ==
  /\ Cardinality(Unasked(m)) <= n
  /\ Cardinality(Unanswered(m) \ S) <= n

\* The counts are numbers.
LEMMA PartedNumbers ==
  ASSUME NEW m \in Seq(Message), NEW S
  PROVE  /\ Cardinality(Unasked(m)) \in Nat /\ Cardinality(Unanswered(m) \ S) \in Nat
         /\ IsFiniteSet(Unanswered(m) \ S)
         /\ Unanswered(m) \ {} = Unanswered(m)
<1>1. Unanswered(m) \ S \in SUBSET Unanswered(m)
  OBVIOUS
<1> QED
  BY <1>1, PartedFinite, FS_Subset, FS_CardinalityType

\* A bound for one history is one for another that has d parted pairs more at most.
LEMMA PartedCompared ==
  ASSUME NEW m \in Seq(Message), NEW q \in Seq(Message), NEW S, NEW T,
         NEW n \in Nat, PartedAtMost(m, S, n), NEW d \in Nat,
         Cardinality(Unasked(q)) <= Cardinality(Unasked(m)) + d,
         Cardinality(Unanswered(q) \ T) <= Cardinality(Unanswered(m) \ S) + d
  PROVE  PartedAtMost(q, T, n + d)
<1> DEFINE a == Cardinality(Unasked(m))
           b == Cardinality(Unasked(q))
           x == Cardinality(Unanswered(m) \ S)
           y == Cardinality(Unanswered(q) \ T)
<1>1. a \in Nat /\ b \in Nat /\ x \in Nat /\ y \in Nat
  BY PartedNumbers
<1>2. a <= n /\ x <= n /\ b <= a + d /\ y <= x + d
  BY DEF PartedAtMost
<1> HIDE DEF a, b, x, y
<1>3. b <= n + d /\ y <= n + d
  BY <1>1, <1>2
<1> QED
  BY <1>3 DEF PartedAtMost, b, y

\* A history with no more parted pairs has the bound of the other.
LEMMA PartedNoMore ==
  ASSUME NEW m \in Seq(Message), NEW q \in Seq(Message), NEW S, NEW T,
         NEW n \in Nat, PartedAtMost(m, S, n),
         Cardinality(Unasked(q)) <= Cardinality(Unasked(m)),
         Cardinality(Unanswered(q) \ T) <= Cardinality(Unanswered(m) \ S)
  PROVE  PartedAtMost(q, T, n)
<1>1. /\ Cardinality(Unasked(q)) <= Cardinality(Unasked(m)) + 0
      /\ Cardinality(Unanswered(q) \ T) <= Cardinality(Unanswered(m) \ S) + 0
      /\ n + 0 = n /\ 0 \in Nat
  <2>1. Cardinality(Unasked(m)) \in Nat /\ Cardinality(Unanswered(m) \ S) \in Nat
    BY PartedNumbers
  <2> QED
    BY <2>1
<1>2. PartedAtMost(q, T, n + 0)
  BY <1>1, PartedCompared
<1> QED
  BY <1>1, <1>2

\* More calls in hand, and no more of the others.
LEMMA PartedStays ==
  ASSUME NEW m \in Seq(Message), NEW S, NEW T, S \subseteq T,
         NEW n \in Nat, PartedAtMost(m, S, n)
  PROVE  PartedAtMost(m, T, n)
<1>1. Unanswered(m) \ T \in SUBSET (Unanswered(m) \ S)
  OBVIOUS
<1>2. Cardinality(Unanswered(m) \ T) <= Cardinality(Unanswered(m) \ S)
  BY <1>1, PartedNumbers, FS_Subset
<1>3. Cardinality(Unasked(m)) <= Cardinality(Unasked(m))
  <2> DEFINE a == Cardinality(Unasked(m))
  <2>1. a \in Nat
    BY PartedNumbers
  <2> HIDE DEF a
  <2>2. a <= a
    BY <2>1
  <2> QED
    BY <2>2 DEF a
<1> QED
  BY <1>2, <1>3, PartedNoMore

\* Cutting results down parts nothing; taking messages out parts one pair.
LEMMA PartedSnipped ==
  ASSUME NEW m \in Seq(Message), NEW keep \in Nat,
         NEW n \in Nat, PartedAtMost(m, {}, n)
  PROVE  PartedAtMost(Snipped(m, keep), {}, n)
<1> DEFINE q == Snipped(m, keep)
<1>1. q \in Seq(Message)
  BY SnippedAt
<1>2. /\ Cardinality(Unasked(q)) <= Cardinality(Unasked(m))
      /\ Cardinality(Unanswered(q)) <= Cardinality(Unanswered(m))
  BY SnippedParts
<1> HIDE DEF q
<1>3. PartedAtMost(q, {}, n)
  BY <1>1, <1>2, PartedNumbers, PartedNoMore
<1> QED
  BY <1>3 DEF q

LEMMA PartedMore ==
  ASSUME NEW m \in Seq(Message), NEW q \in Seq(Message), OneMoreParted(q, m),
         NEW n \in Nat, PartedAtMost(m, {}, n)
  PROVE  PartedAtMost(q, {}, n + 1)
<1>1. 1 \in Nat /\ Unanswered(m) \ {} = Unanswered(m) /\ Unanswered(q) \ {} = Unanswered(q)
  OBVIOUS
<1> QED
  BY <1>1, PartedCompared DEF OneMoreParted

\* What is added parts nothing of what was there.
LEMMA AddedParts ==
  ASSUME NEW m \in Seq(Message), NEW s \in Seq(Message)
  PROVE  /\ \A i \in Unasked(m \o s) :
              \/ i \in Unasked(m)
              \/ \E j \in 1 .. Len(s) : i = Len(m) + j /\ s[j].kind = "results"
         /\ \A i \in Unanswered(m \o s) :
              \/ i \in Unanswered(m)
              \/ \E j \in 1 .. Len(s) : i = Len(m) + j /\ s[j].kind = "calls"
<1> DEFINE q == m \o s
<1>1. /\ q \in Seq(Message) /\ Len(m) \in Nat /\ Len(s) \in Nat
      /\ Len(q) = Len(m) + Len(s)
      /\ \A i \in 1 .. Len(m) : q[i] = m[i]
      /\ \A i \in 1 .. Len(s) : q[Len(m) + i] = s[i]
  OBVIOUS
<1> HIDE DEF q
<1>2. ASSUME NEW i \in 1 .. Len(q), i \notin 1 .. Len(m)
      PROVE  \E j \in 1 .. Len(s) : i = Len(m) + j /\ q[i] = s[j]
  <2>1. i - Len(m) \in 1 .. Len(s) /\ i = Len(m) + (i - Len(m))
    BY <1>1, <1>2
  <2> QED
    BY <1>1, <2>1
<1>3. ASSUME NEW i \in Unasked(q)
      PROVE  \/ i \in Unasked(m)
             \/ \E j \in 1 .. Len(s) : i = Len(m) + j /\ s[j].kind = "results"
  <2>1. i \in 1 .. Len(q) /\ q[i].kind = "results"
    BY <1>1, UnaskedAt
  <2>2. CASE i \in 1 .. Len(m)
    <3>1. i > 1 => i - 1 \in 1 .. Len(m)
      BY <1>1, <2>2
    <3>2. q[i] = m[i] /\ (i > 1 => q[i - 1] = m[i - 1])
      BY <1>1, <2>2, <3>1
    <3> QED
      BY <1>1, <2>2, <3>2, UnaskedAlike
  <2>3. CASE i \notin 1 .. Len(m)
    BY <1>2, <2>1, <2>3
  <2> QED
    BY <2>2, <2>3
<1>4. ASSUME NEW i \in Unanswered(q)
      PROVE  \/ i \in Unanswered(m)
             \/ \E j \in 1 .. Len(s) : i = Len(m) + j /\ s[j].kind = "calls"
  <2>1. i \in 1 .. Len(q) /\ q[i].kind = "calls"
    BY <1>1, UnansweredAt
  <2>2. CASE i \in 1 .. Len(m)
    <3>1. i < Len(m) => i + 1 \in 1 .. Len(m) /\ i < Len(q)
      BY <1>1, <2>2
    <3>2. q[i] = m[i] /\ (i < Len(m) => i < Len(q) /\ q[i + 1] = m[i + 1])
      BY <1>1, <2>2, <3>1
    <3> QED
      BY <1>1, <2>2, <3>2, UnansweredAlike
  <2>3. CASE i \notin 1 .. Len(m)
    BY <1>2, <2>1, <2>3
  <2> QED
    BY <2>2, <2>3
<1> QED
  BY <1>3, <1>4 DEF q

\* Neither do messages that are neither results nor calls.
LEMMA PartedAdded ==
  ASSUME NEW m \in Seq(Message), NEW s \in Seq(Message),
         \A i \in 1 .. Len(s) : s[i].kind \notin {"results", "calls"},
         NEW n \in Nat, PartedAtMost(m, {}, n)
  PROVE  PartedAtMost(m \o s, {}, n)
<1> DEFINE q == m \o s
<1>1. Unasked(q) \in SUBSET Unasked(m) /\ Unanswered(q) \in SUBSET Unanswered(m)
  BY AddedParts
<1>2. q \in Seq(Message)
  OBVIOUS
<1> HIDE DEF q
<1>3. /\ Cardinality(Unasked(q)) <= Cardinality(Unasked(m))
      /\ Cardinality(Unanswered(q)) <= Cardinality(Unanswered(m))
  BY <1>1, PartedFinite, FS_Subset
<1>4. PartedAtMost(q, {}, n)
  BY <1>2, <1>3, PartedNumbers, PartedNoMore
<1> QED
  BY <1>4 DEF q

\* Calls are in hand when they are asked for ...
LEMMA PartedAsked ==
  ASSUME NEW m \in Seq(Message), NEW c \in Message, c.kind = "calls",
         NEW n \in Nat, PartedAtMost(m, {}, n)
  PROVE  PartedAtMost(m \o <<c>>, {Len(m) + 1}, n)
<1> DEFINE s == <<c>>
           q == m \o s
           S == {Len(m) + 1}
<1>1. s \in Seq(Message) /\ q \in Seq(Message) /\ Len(s) = 1 /\ s[1] = c
  OBVIOUS
<1>2. \A j \in 1 .. Len(s) : j = 1
  BY <1>1
<1> HIDE DEF s
<1>3. Unasked(q) \in SUBSET Unasked(m) /\ Unanswered(q) \ S \in SUBSET Unanswered(m)
  <2>1. \A i \in Unasked(q) : i \in Unasked(m)
    BY <1>1, <1>2, AddedParts
  <2>2. \A i \in Unanswered(q) : i \in Unanswered(m) \/ i = Len(m) + 1
    BY <1>1, <1>2, AddedParts
  <2> QED
    BY <2>1, <2>2
<1> HIDE DEF q, S
<1>4. /\ Cardinality(Unasked(q)) <= Cardinality(Unasked(m))
      /\ Cardinality(Unanswered(q) \ S) <= Cardinality(Unanswered(m))
  BY <1>3, PartedFinite, FS_Subset
<1>5. PartedAtMost(q, S, n)
  BY <1>1, <1>4, PartedNumbers, PartedNoMore
<1> QED
  BY <1>5 DEF q, s, S

\* ... and paired when they are answered.
LEMMA PartedAnswered ==
  ASSUME NEW m \in Seq(Message), m # <<>>, NEW t, m[Len(m)] = Msg("calls", t),
         NEW r \in Message, r = Msg("results", t),
         NEW n \in Nat, PartedAtMost(m, {Len(m)}, n)
  PROVE  PartedAtMost(m \o <<r>>, {}, n)
<1> DEFINE s == <<r>>
           q == m \o s
           S == {Len(m)}
<1>1. s \in Seq(Message) /\ q \in Seq(Message) /\ Len(s) = 1 /\ s[1] = r
  OBVIOUS
<1>2. /\ Len(q) = Len(m) + 1 /\ Len(m) \in Nat \ {0}
      /\ q[Len(m)] = m[Len(m)] /\ q[Len(m) + 1] = r
  OBVIOUS
<1>3. \A j \in 1 .. Len(s) : j = 1
  BY <1>1
<1>4. /\ r.kind = "results" /\ r.turn = t
      /\ Msg("calls", t).kind = "calls" /\ Msg("calls", t).turn = t
  BY DEF Msg
<1> HIDE DEF s
<1>5. ASSUME NEW i \in Unasked(q)
      PROVE  i \in Unasked(m)
  <2>1. i \in Unasked(m) \/ i = Len(m) + 1
    BY <1>1, <1>3, AddedParts
  <2>2. i # Len(m) + 1
    <3> SUFFICES ASSUME i = Len(m) + 1 PROVE FALSE
      OBVIOUS
    <3>1. i > 1 /\ i - 1 = Len(m)
      BY <1>2
    <3>2. q[i - 1] = Msg("calls", q[i].turn)
      BY <1>2, <1>4, <3>1
    <3> HIDE DEF q
    <3> QED
      BY <1>1, <3>1, <3>2, UnaskedAt
  <2> QED
    BY <2>1, <2>2
<1>6. ASSUME NEW i \in Unanswered(q)
      PROVE  i \in Unanswered(m) \ S
  <2>1. i \in Unanswered(m)
    BY <1>1, <1>3, <1>4, AddedParts
  <2>2. i # Len(m)
    <3> SUFFICES ASSUME i = Len(m) PROVE FALSE
      OBVIOUS
    <3>1. /\ i < Len(q) /\ q[i + 1].kind = "results" /\ q[i + 1].turn = q[i].turn
      BY <1>2, <1>4
    <3> HIDE DEF q
    <3> QED
      BY <1>1, <3>1, UnansweredAt
  <2> QED
    BY <2>1, <2>2
<1>7. Unasked(q) \in SUBSET Unasked(m) /\ Unanswered(q) \in SUBSET (Unanswered(m) \ S)
  BY <1>5, <1>6
<1> HIDE DEF q, S
<1>8. /\ Cardinality(Unasked(q)) <= Cardinality(Unasked(m))
      /\ Cardinality(Unanswered(q)) <= Cardinality(Unanswered(m) \ S)
  BY <1>7, PartedFinite, PartedNumbers, FS_Subset
<1>9. PartedAtMost(q, {}, n)
  BY <1>1, <1>8, PartedNumbers, PartedNoMore DEF S
<1> QED
  BY <1>9 DEF q, s

-----------------------------------------------------------------------------
(***************************************************************************)
(* New results: what a step does to them                                   *)
(***************************************************************************)

\* What only notes come after is whole, and k notes at most do.
Fresh(m, k) ==
  \A i \in 1 .. Len(m) :
    (\A j \in i + 1 .. Len(m) : m[j].kind = "note") =>
      m[i].whole = TRUE /\ Len(m) - i <= k

\* Cutting down spares what is kept, and more is kept than notes come.
LEMMA FreshSnipped ==
  ASSUME NEW m \in Seq(Message), NEW keep \in Nat, NEW k \in Nat, k < keep, Fresh(m, k)
  PROVE  Fresh(Snipped(m, keep), k)
<1> DEFINE n == Snipped(m, keep)
<1>1. /\ Len(n) = Len(m) /\ Len(m) \in Nat
      /\ \A i \in 1 .. Len(m) : /\ n[i].kind = m[i].kind
                                /\ i > Len(m) - keep => n[i] = m[i]
  BY SnippedAt
<1> HIDE DEF n
<1>2. ASSUME NEW i \in 1 .. Len(n), \A j \in i + 1 .. Len(n) : n[j].kind = "note"
      PROVE  n[i].whole = TRUE /\ Len(n) - i <= k
  <2>1. \A j \in i + 1 .. Len(m) : j \in 1 .. Len(m)
    BY <1>1
  <2>2. \A j \in i + 1 .. Len(m) : m[j].kind = "note"
    BY <1>1, <1>2, <2>1
  <2>3. m[i].whole = TRUE /\ Len(m) - i <= k
    BY <1>1, <2>2 DEF Fresh
  <2>4. i > Len(m) - keep
    BY <1>1, <2>3
  <2> QED
    BY <1>1, <2>3, <2>4
<1> QED
  BY <1>2 DEF Fresh, n

\* Notes that come are counted.
LEMMA FreshNoted ==
  ASSUME NEW m \in Seq(Message), NEW k \in Nat, Fresh(m, k), NEW s \in Seq(Message),
         \A i \in 1 .. Len(s) : s[i].whole = TRUE
  PROVE  Fresh(m \o s, k + Len(s))
<1> DEFINE n == m \o s
<1>1. /\ Len(m) \in Nat /\ Len(s) \in Nat /\ Len(n) = Len(m) + Len(s)
      /\ \A i \in 1 .. Len(m) : n[i] = m[i]
      /\ \A i \in 1 .. Len(s) : n[Len(m) + i] = s[i]
  OBVIOUS
<1> HIDE DEF n
<1>2. ASSUME NEW i \in 1 .. Len(n), \A j \in i + 1 .. Len(n) : n[j].kind = "note"
      PROVE  n[i].whole = TRUE /\ Len(n) - i <= k + Len(s)
  <2>1. CASE i \in 1 .. Len(m)
    <3>1. \A j \in i + 1 .. Len(m) : j \in 1 .. Len(m) /\ j \in i + 1 .. Len(n)
      BY <1>1
    <3>2. \A j \in i + 1 .. Len(m) : m[j].kind = "note"
      BY <1>1, <1>2, <3>1
    <3>3. m[i].whole = TRUE /\ Len(m) - i <= k
      BY <2>1, <3>2 DEF Fresh
    <3> QED
      BY <1>1, <2>1, <3>3
  <2>2. CASE i \notin 1 .. Len(m)
    <3>1. i - Len(m) \in 1 .. Len(s) /\ Len(m) + (i - Len(m)) = i
      BY <1>1, <2>2
    <3>2. n[i].whole = TRUE
      BY <1>1, <3>1
    <3>3. Len(n) - i <= k + Len(s)
      BY <1>1, <2>2
    <3> QED
      BY <3>2, <3>3
  <2> QED
    BY <2>1, <2>2
<1> QED
  BY <1>2 DEF Fresh, n

\* After any other message nothing older is new.
LEMMA FreshAdded ==
  ASSUME NEW m \in Seq(Message), NEW s \in Seq(Message), s # <<>>, NEW k \in Nat,
         s[Len(s)].kind # "note", s[Len(s)].whole = TRUE
  PROVE  Fresh(m \o s, k)
<1> DEFINE n == m \o s
<1>1. /\ Len(m) \in Nat /\ Len(s) \in Nat \ {0} /\ Len(n) = Len(m) + Len(s)
      /\ n[Len(m) + Len(s)] = s[Len(s)]
  OBVIOUS
<1> HIDE DEF n
<1>2. n[Len(n)] = s[Len(s)] /\ Len(n) \in Nat
  BY <1>1
<1>3. ASSUME NEW i \in 1 .. Len(n), \A j \in i + 1 .. Len(n) : n[j].kind = "note"
      PROVE  n[i].whole = TRUE /\ Len(n) - i <= k
  <2>1. ~(i < Len(n))
    <3>1. i < Len(n) => Len(n) \in i + 1 .. Len(n)
      BY <1>2
    <3> QED
      BY <1>2, <1>3, <3>1
  <2>2. i = Len(n) /\ Len(n) - i = 0
    BY <1>2, <2>1
  <2> QED
    BY <1>2, <2>2
<1> QED
  BY <1>3 DEF Fresh, n

-----------------------------------------------------------------------------
(***************************************************************************)
(* The history: what a step does to its pairs and to its new results       *)
(***************************************************************************)

\* Fewer notes come in a run than messages are kept whole.
FewNotes == MaxNotes < KeepRecent /\ MaxNotes < SnipKeep

History ==
  /\ PartedAtMost(messages, InHand, splices)
  /\ Apart(messages)
  /\ pc = "tools" => messages[Len(messages)] = Msg("calls", turn)
  /\ notes <= MaxNotes
  /\ FewNotes /\ splices = 0 => Fresh(messages, notes)

\* What the step lemmas are about.
Agent == TypeOK /\ Conversation /\ BatchOrder

\* What of it the histories need.
LEMMA AgentTyped ==
  ASSUME Agent
  PROVE  /\ messages \in Seq(Message) /\ messages # <<>>
         /\ splices \in Nat /\ notes \in Nat /\ turn \in 0 .. MaxTurns
  BY DEF Agent, TypeOK, Conversation

\* No calls are in hand unless a batch has begun.
LEMMA NoneInHand ==
  /\ Agent /\ pc \in {"turn", "compact", "call"} => InHand = {} /\ batch = <<>>
  /\ batch' = <<>> /\ pc' # "tools" => InHand' = {}
<1>1. ASSUME Agent, pc \in {"turn", "compact", "call"}
      PROVE  InHand = {} /\ batch = <<>>
  <2>1. batch = <<>>
    BY <1>1 DEF Agent, BatchOrder
  <2>2. DOMAIN batch = {}
    BY <2>1
  <2> QED
    BY <1>1, <2>1, <2>2 DEF InHand, In
<1>2. ASSUME batch' = <<>>, pc' # "tools"
      PROVE  InHand' = {}
  <2>1. DOMAIN batch' = {}
    BY <1>2
  <2> QED
    BY <1>2, <2>1 DEF InHand, In
<1> QED
  BY <1>1, <1>2

\* A step that leaves the history alone and takes no calls out of hand.
LEMMA HistoryStays ==
  ASSUME Agent, History, UNCHANGED <<messages, splices, notes, turn>>,
         InHand \subseteq InHand', pc' = "tools" => pc = "tools"
  PROVE  History'
<1>1. PartedAtMost(messages, InHand', splices)
  BY AgentTyped, PartedStays DEF History
<1> QED
  BY <1>1 DEF History

\* The history is snipped.
LEMMA HistorySnipped ==
  ASSUME Agent, History, UNCHANGED <<splices, notes>>, InHand = {}, InHand' = {}, pc' # "tools",
         NEW keep \in {KeepRecent, SnipKeep}, messages' = Snipped(messages, keep)
  PROVE  History'
<1>1. keep \in Nat
  BY KeepAssumption
<1>2. PartedAtMost(messages', {}, splices)
  BY <1>1, AgentTyped, PartedSnipped DEF History
<1>3. Apart(messages')
  BY <1>1, AgentTyped, ApartSnipped DEF History
<1>4. FewNotes /\ splices = 0 => Fresh(messages', notes)
  <2> SUFFICES ASSUME FewNotes, splices = 0
               PROVE  Fresh(messages', notes)
    OBVIOUS
  <2>1. notes < keep
    <3>1. notes <= MaxNotes /\ notes \in Nat
      BY AgentTyped DEF History
    <3>2. MaxNotes < keep
      BY DEF FewNotes
    <3> QED
      BY <1>1, <3>1, <3>2, BoundsAssumption
  <2> QED
    BY <1>1, <2>1, AgentTyped, FreshSnipped DEF History
<1> QED
  BY <1>2, <1>3, <1>4 DEF History

\* Messages are taken out of it.
LEMMA HistorySpliced ==
  ASSUME Agent, History, UNCHANGED notes, InHand' = {}, pc' # "tools", splices' # 0,
         PartedAtMost(messages', {}, splices'), Apart(messages')
  PROVE  History'
  BY DEF History

\* What both layers that take messages out leave of a history.
LEMMA ShorterParts ==
  ASSUME NEW m \in Seq(Message), m # <<>>, Apart(m), NEW n \in Nat, PartedAtMost(m, {}, n),
         Long(m), NEW fails \in BOOLEAN,
         NEW q, q = IF fails THEN Halved(m) ELSE Summarized(m)
  PROVE  /\ q \in Seq(Message) /\ q # <<>>
         /\ PartedAtMost(q, {}, n + 1) /\ Apart(q) /\ Truncatable(q)
<1>1. q \in Seq(Message) /\ q # <<>>
  BY HalvedKeeps, SummarizedKeeps DEF EndsLike
<1>2. OneMoreParted(q, m)
  BY HalvedParts, SummarizedParts
<1>3. Apart(q) /\ Truncatable(q)
  BY ApartHalved, ApartSummarized
<1> QED
  BY <1>1, <1>2, <1>3, PartedMore

\* The emergency truncation that follows parts one pair more.
LEMMA EmergencyAfter ==
  ASSUME NEW m \in Seq(Message), m # <<>>, Apart(m), Truncatable(m),
         NEW n \in Nat, PartedAtMost(m, {}, n)
  PROVE  PartedAtMost(Emergency(m), {}, n + 1) /\ Apart(Emergency(m))
<1>1. Emergency(m) \in Seq(Message)
  BY EmergencyKeeps DEF EndsLike
<1>2. OneMoreParted(Emergency(m), m)
  BY EmergencyParts DEF Truncatable
<1> QED
  BY <1>1, <1>2, ApartEmergency, PartedMore

\* The fourth layer, with or without the truncation, keeps the bound.
LEMMA SummarizedHistory ==
  ASSUME Agent, History, NEW emergency \in BOOLEAN, NEW fails \in BOOLEAN,
         FitSummarized(emergency, fails)
  PROVE  History'
<1> DEFINE m == Snipped(messages, KeepRecent)
           shorter == IF ~Long(m) THEN m
                      ELSE IF fails THEN Halved(m) ELSE Summarized(m)
           a == IF Long(m) THEN 1 ELSE 0
           b == IF emergency THEN 1 ELSE 0
<1>1. /\ pc = "compact" /\ pc' = "call" /\ UNCHANGED calls /\ UNCHANGED notes
      /\ messages' = IF emergency THEN Emergency(shorter) ELSE shorter
      /\ splices' = splices + (a + b)
  BY DEF FitSummarized, Splice
<1>2. InHand = {} /\ InHand' = {} /\ pc' # "tools"
  BY <1>1, NoneInHand DEF calls
<1>3. KeepRecent \in Nat
  BY KeepAssumption
<1>4. /\ m \in Seq(Message) /\ m # <<>> /\ Apart(m) /\ PartedAtMost(m, {}, splices)
  BY <1>2, <1>3, AgentTyped, SnippedKeeps, ApartSnipped, PartedSnipped DEF History, EndsLike
<1>5. splices \in Nat
  BY AgentTyped
<1>6. CASE ~Long(m) /\ ~emergency
  <2>1. messages' = m /\ splices' = splices
    BY <1>1, <1>5, <1>6
  <2> QED
    BY <1>1, <1>2, <2>1, HistorySnipped
<1> HIDE DEF m
<1>7. CASE ~Long(m) /\ emergency
  <2>1. messages' = Emergency(m) /\ splices' = splices + 1 /\ splices' # 0
    BY <1>1, <1>5, <1>7
  <2>2. Truncatable(m)
    BY <1>4, <1>7, ApartIfShort
  <2>3. PartedAtMost(messages', {}, splices') /\ Apart(messages')
    BY <1>4, <1>5, <2>1, <2>2, EmergencyAfter
  <2> QED
    BY <1>1, <1>2, <2>1, <2>3, HistorySpliced
<1>8. CASE Long(m)
  <2>1. /\ shorter \in Seq(Message) /\ shorter # <<>>
        /\ PartedAtMost(shorter, {}, splices + 1) /\ Apart(shorter) /\ Truncatable(shorter)
    <3>1. shorter = IF fails THEN Halved(m) ELSE Summarized(m)
      BY <1>8
    <3> HIDE DEF shorter
    <3> QED
      BY <1>4, <1>5, <1>8, <3>1, ShorterParts
  <2> HIDE DEF shorter
  <2>2. CASE ~emergency
    <3>1. messages' = shorter /\ splices' = splices + 1 /\ splices' # 0
      BY <1>1, <1>5, <1>8, <2>2
    <3> QED
      BY <1>1, <1>2, <2>1, <3>1, HistorySpliced
  <2>3. CASE emergency
    <3>1. messages' = Emergency(shorter) /\ splices' = (splices + 1) + 1 /\ splices' # 0
          /\ splices + 1 \in Nat
      BY <1>1, <1>5, <1>8, <2>3
    <3>2. PartedAtMost(Emergency(shorter), {}, (splices + 1) + 1) /\ Apart(Emergency(shorter))
      BY <2>1, <3>1, EmergencyAfter
    <3> QED
      BY <1>1, <1>2, <3>1, <3>2, HistorySpliced
  <2> QED
    BY <2>2, <2>3
<1> QED
  BY <1>6, <1>7, <1>8

\* So does every way of compacting.
LEMMA CompactedHistory ==
  ASSUME Agent, History, Compact
  PROVE  History'
<1>1. CASE FitAsIs
  <2>1. /\ pc = "compact" /\ pc' = "call"
        /\ UNCHANGED <<messages, splices, notes, turn>>
    BY <1>1 DEF FitAsIs, conversation, history
  <2>2. InHand = {}
    BY <2>1, NoneInHand
  <2> QED
    BY <2>1, <2>2, HistoryStays
<1>2. CASE FitSnipped
  <2>1. /\ pc = "compact" /\ pc' = "call" /\ UNCHANGED calls
        /\ UNCHANGED <<splices, notes>> /\ messages' = Snipped(messages, KeepRecent)
    BY <1>2 DEF FitSnipped, history
  <2>2. InHand = {} /\ InHand' = {}
    BY <2>1, NoneInHand DEF calls
  <2> QED
    BY <2>1, <2>2, HistorySnipped
<1> QED
  BY <1>1, <1>2, SummarizedHistory DEF Compact

\* Notes come with the turn.
LEMMA NotedHistory ==
  ASSUME Agent, History, NEW n \in 0 .. MaxNotes, BeginTurn(n)
  PROVE  History'
<1> DEFINE s == [i \in 1 .. n |-> Msg("note", turn + 1)]
<1>1. /\ pc = "turn" /\ pc' = "compact" /\ UNCHANGED <<calls, splices>>
      /\ messages' = messages \o s /\ notes' = notes + n /\ notes' <= MaxNotes
  BY DEF BeginTurn, calls
<1>2. turn + 1 \in 0 .. MaxTurns /\ n \in Nat
  <2>1. turn \in 0 .. MaxTurns /\ turn < MaxTurns
    BY AgentTyped DEF BeginTurn
  <2> QED
    BY <2>1, LimitsAssumption, BoundsAssumption
<1>3. /\ Msg("note", turn + 1) \in Message /\ Msg("note", turn + 1).kind = "note"
      /\ Msg("note", turn + 1).whole = TRUE
  BY <1>2, MsgTyped DEF FromUser, Msg
<1>4. /\ s \in Seq(Message) /\ Len(s) = n
      /\ \A i \in 1 .. Len(s) : s[i].kind = "note" /\ s[i].whole = TRUE
  BY <1>2, <1>3
<1> HIDE DEF s
<1>5. InHand = {} /\ InHand' = {}
  BY <1>1, NoneInHand DEF calls
<1>6. \A i \in 1 .. Len(s) : s[i].kind \notin {"results", "calls"}
  BY <1>4
<1>7. PartedAtMost(messages', {}, splices)
  BY <1>1, <1>4, <1>5, <1>6, AgentTyped, PartedAdded DEF History
<1>8. Apart(messages')
  BY <1>1, <1>4, <1>6, AgentTyped, ApartAdded DEF History
<1>9. FewNotes /\ splices = 0 => Fresh(messages', notes')
  BY <1>1, <1>4, AgentTyped, FreshNoted DEF History
<1> QED
  BY <1>1, <1>5, <1>7, <1>8, <1>9 DEF History

\* The model's text, and a prompt after it, are added.
LEMMA SaidHistory ==
  ASSUME Agent, History, pc = "call", pc' # "tools", UNCHANGED <<calls, splices, notes>>,
         NEW s \in Seq(Message), s # <<>>, messages' = messages \o s,
         \A i \in 1 .. Len(s) : s[i].kind \notin {"results", "calls"},
         s[Len(s)].kind # "note", s[Len(s)].whole = TRUE
  PROVE  History'
<1>1. InHand = {} /\ InHand' = {}
  BY NoneInHand DEF calls
<1>2. PartedAtMost(messages', {}, splices)
  BY <1>1, AgentTyped, PartedAdded DEF History
<1>3. Apart(messages')
  BY AgentTyped, ApartAdded DEF History
<1>4. Fresh(messages', notes)
  BY AgentTyped, FreshAdded
<1> QED
  BY <1>1, <1>2, <1>3, <1>4 DEF History

\* What is added then.
LEMMA Said ==
  ASSUME Agent, NEW k \in {"text", "cut"}
  PROVE  /\ LET s == <<Msg(k, turn), Msg("prompt", turn)>> IN
              /\ s \in Seq(Message) /\ s # <<>> /\ s[Len(s)].kind # "note" /\ s[Len(s)].whole = TRUE
              /\ \A i \in 1 .. Len(s) : s[i].kind \notin {"results", "calls"}
         /\ LET s == <<Msg(k, turn)>> IN
              /\ s \in Seq(Message) /\ s # <<>> /\ s[Len(s)].kind # "note" /\ s[Len(s)].whole = TRUE
              /\ \A i \in 1 .. Len(s) : s[i].kind \notin {"results", "calls"}
<1>1. /\ Msg(k, turn) \in Message /\ Msg(k, turn).kind = k
      /\ Msg("prompt", turn) \in Message /\ Msg("prompt", turn).kind = "prompt"
      /\ Msg(k, turn).whole = TRUE /\ Msg("prompt", turn).whole = TRUE
  BY AgentTyped, MsgTyped DEF FromUser, FromModel, Msg
<1> QED
  BY <1>1

\* Calls are asked for, after a message of the user.
LEMMA AskedHistory ==
  ASSUME Agent, History, NEW cut \in BOOLEAN, NEW b \in Batches, AskTools(cut, b)
  PROVE  History'
<1> DEFINE c == Msg("calls", turn)
<1>1. /\ pc = "call" /\ pc' = "tools" /\ UNCHANGED <<turn, splices, notes>>
      /\ messages' = Append(messages, c)
  BY DEF AskTools, history
<1>2. c \in Message /\ c.kind = "calls" /\ c.whole = TRUE
  BY AgentTyped, MsgTyped DEF FromModel, Msg
<1>3. /\ messages' = messages \o <<c>> /\ Len(messages') = Len(messages) + 1
      /\ messages'[Len(messages')] = c
  <2> DEFINE m == messages
             n == messages'
  <2>1. m \in Seq(Message) /\ n = Append(m, c) /\ c \in Message
    BY <1>1, <1>2, AgentTyped
  <2> HIDE DEF c, m, n
  <2>2. n = m \o <<c>> /\ Len(n) = Len(m) + 1 /\ n[Len(m) + 1] = c
    BY <2>1
  <2>3. n[Len(n)] = c
    BY <2>2
  <2> QED
    BY <2>2, <2>3 DEF m, n
<1>4. messages[Len(messages)].kind # "calls"
  BY <1>1 DEF Agent, Conversation, FromUser
<1>5. <<c>> \in Seq(Message) /\ <<c>> # <<>> /\ Len(<<c>>) = 1 /\ <<c>>[1] = c
  BY <1>2
<1>6. InHand = {} /\ InHand' = {Len(messages) + 1}
  BY <1>1, <1>3, NoneInHand DEF InHand
<1> HIDE DEF c
<1>7. PartedAtMost(messages', InHand', splices)
  BY <1>2, <1>3, <1>6, AgentTyped, PartedAsked DEF History
<1>8. \A i \in 1 .. Len(<<c>>) : <<c>>[i].kind = "calls"
  BY <1>2, <1>5
<1>9. Apart(messages')
  BY <1>3, <1>4, <1>5, <1>8, AgentTyped, ApartAdded DEF History
<1>10. Fresh(messages', notes)
  BY <1>2, <1>3, <1>5, AgentTyped, FreshAdded
<1> QED
  BY <1>1, <1>3, <1>7, <1>9, <1>10 DEF History, c

\* Their results come right after them.
LEMMA AnsweredHistory ==
  ASSUME Agent, History, DeliverResults
  PROVE  History'
<1> DEFINE r == Msg("results", turn)
<1>1. /\ pc = "tools" /\ pc' = "turn" /\ batch' = <<>> /\ UNCHANGED <<splices, notes>>
      /\ messages' = Append(messages, r)
  BY DEF DeliverResults, history
<1>2. r \in Message /\ r.kind = "results" /\ r.whole = TRUE
  BY AgentTyped, MsgTyped DEF FromUser, Msg
<1>3. messages' = messages \o <<r>>
  <2> DEFINE m == messages
             n == messages'
  <2>1. m \in Seq(Message) /\ n = Append(m, r) /\ r \in Message
    BY <1>1, <1>2, AgentTyped
  <2> HIDE DEF r, m, n
  <2>2. n = m \o <<r>>
    BY <2>1
  <2> QED
    BY <2>2 DEF m, n
<1>4. /\ messages[Len(messages)] = Msg("calls", turn)
      /\ messages[Len(messages)].kind = "calls"
  BY <1>1 DEF History, Msg
<1>5. <<r>> \in Seq(Message) /\ <<r>> # <<>> /\ Len(<<r>>) = 1 /\ <<r>>[1] = r
  BY <1>2
<1>6. InHand = {Len(messages)} /\ InHand' = {}
  BY <1>1, NoneInHand DEF InHand
<1>7. PartedAtMost(messages', {}, splices)
  BY <1>2, <1>3, <1>4, <1>6, AgentTyped, PartedAnswered DEF History
<1> HIDE DEF r
<1>8. \A i \in 1 .. Len(<<r>>) : <<r>>[i].kind = "results"
  BY <1>2, <1>5
<1>9. Apart(messages')
  BY <1>3, <1>4, <1>5, <1>8, AgentTyped, ApartAdded DEF History
<1>10. Fresh(messages', notes)
  BY <1>2, <1>3, <1>5, AgentTyped, FreshAdded
<1> QED
  BY <1>1, <1>6, <1>7, <1>9, <1>10 DEF History

\* What a call of the provider, failed or answered, does to the history.
LEMMA CalledHistory ==
  ASSUME Agent, History, Call
  PROVE  History'
<1>1. ASSUME NEW transient \in BOOLEAN, CallError(transient)
      PROVE  History'
  <2>1. /\ pc = "call" /\ pc' \in {"call", "over"}
        /\ UNCHANGED <<messages, splices, notes, turn>>
    BY <1>1 DEF CallError, conversation, history, Retry, GiveUp, End
  <2>2. InHand = {}
    BY <2>1, NoneInHand
  <2> QED
    BY <2>1, <2>2, HistoryStays
<1>2. ASSUME NEW fails \in BOOLEAN, TooLong(fails)
      PROVE  History'
  <2>1. /\ pc = "call" /\ pc' \in {"call", "over"} /\ pc' # "tools"
        /\ UNCHANGED calls /\ UNCHANGED turn
    BY <1>2 DEF TooLong, Retry, GiveUp, End
  <2>2. InHand = {} /\ InHand' = {}
    BY <2>1, NoneInHand DEF calls
  <2>3. CASE messages' = Snipped(messages, SnipKeep) /\ UNCHANGED history
    BY <2>1, <2>2, <2>3, HistorySnipped DEF history
  <2>4. CASE /\ Long(messages)
             /\ \/ fails /\ Splice(Halved(messages), 1, 1)
                \/ ~fails /\ Splice(Summarized(messages), 1, 0)
    <3>1. /\ messages' = IF fails THEN Halved(messages) ELSE Summarized(messages)
          /\ splices' = splices + 1 /\ UNCHANGED notes
      <4>1. splices \in Nat
        BY AgentTyped
      <4> QED
        BY <2>4, <4>1 DEF Splice
    <3>2. PartedAtMost(messages', {}, splices + 1) /\ Apart(messages')
      BY <2>2, <2>4, <3>1, AgentTyped, ShorterParts DEF History
    <3>3. splices' # 0
      BY <3>1, AgentTyped
    <3> QED
      BY <2>1, <2>2, <3>1, <3>2, <3>3, HistorySpliced
  <2>5. CASE UNCHANGED <<messages, history>>
    BY <2>1, <2>2, <2>5, HistoryStays DEF history
  <2> QED
    BY <1>2, <2>3, <2>4, <2>5 DEF TooLong
<1>3. ASSUME NEW withCalls \in BOOLEAN, ContinueCutOff(withCalls)
      PROVE  History'
  <2>1. /\ \E k \in {"text", "cut"} : messages' = messages \o <<Msg(k, turn), Msg("prompt", turn)>>
    BY <1>3, Zenon DEF ContinueCutOff
  <2>2. pc = "call" /\ pc' # "tools" /\ UNCHANGED <<calls, splices, notes>>
    BY <1>3 DEF ContinueCutOff, history, calls
  <2> QED
    BY <2>1, <2>2, Said, SaidHistory
<1>4. ASSUME NEW cut \in BOOLEAN, Nudge(cut)
      PROVE  History'
  <2>1. messages' = messages \o <<Msg("text", turn), Msg("prompt", turn)>>
    BY <1>4 DEF Nudge
  <2>2. pc = "call" /\ pc' # "tools" /\ UNCHANGED <<calls, splices, notes>>
    BY <1>4 DEF Nudge, history, calls
  <2> QED
    BY <2>1, <2>2, Said, SaidHistory
<1>5. ASSUME NEW cut \in BOOLEAN, Finish(cut)
      PROVE  History'
  <2>1. messages' = Append(messages, Msg("text", turn))
    BY <1>5 DEF Finish
  <2>2. "text" \in FromModel
    BY DEF FromModel
  <2>3. messages' = messages \o <<Msg("text", turn)>>
    BY <2>1, <2>2, OneAdded DEF Agent, TypeOK
  <2>4. pc = "call" /\ pc' # "tools" /\ UNCHANGED <<calls, splices, notes>>
    BY <1>5 DEF Finish, End, history, calls
  <2> QED
    BY <2>3, <2>4, Said, SaidHistory
<1> QED
  BY <1>1, <1>2, <1>3, <1>4, <1>5, AskedHistory DEF Call

\* The tools take no calls out of hand before their results are there.
LEMMA ToolsHistory ==
  ASSUME Agent, History, Tools
  PROVE  History'
<1>1. ASSUME NEW i \in DOMAIN batch,
             StartRead(i) \/ RefuseUnknown(i) \/ StartWrite(i) \/ EndTool(i)
               \/ RaiseBadArguments(i)
      PROVE  History'
  <2>1. UNCHANGED <<batch, messages, splices, notes, turn>>
    BY <1>1 DEF StartRead, RefuseUnknown, StartWrite, EndTool, RaiseBadArguments,
                conversation, history
  <2>2. PICK s \in {"running", "done", "raised"} :
          /\ Move(i, s)
          /\ progress[i] # "raised"
          /\ (s = "raised" /\ pc' # "tools") \/ pc' = pc
    BY <1>1 DEF StartRead, RefuseUnknown, StartWrite, EndTool, RaiseBadArguments,
                CanRead, CanWrite, End
  <2>3. /\ progress'[i] = s
        /\ \A j \in DOMAIN batch : j # i => progress'[j] = progress[j]
    BY <2>2 DEF Move, Agent, TypeOK
  <2>4. /\ In("raised") \subseteq In("raised")'
        /\ s = "raised" => In("raised")' # {}
    BY <2>1, <2>2, <2>3 DEF In
  <2>5. InHand \subseteq InHand'
    BY <2>1, <2>2, <2>4 DEF InHand
  <2>6. pc' = "tools" => pc = "tools"
    BY <2>2
  <2> QED
    BY <2>1, <2>5, <2>6, HistoryStays
<1> QED
  BY <1>1, AnsweredHistory DEF Tools

\* No step parts more pairs than it counts.
LEMMA StepKeepsHistory ==
  ASSUME Agent, History, Next
  PROVE  History'
<1>1. CASE Exhausted
  <2>1. pc = "turn" /\ pc' # "tools" /\ UNCHANGED <<messages, splices, notes, turn>>
    BY <1>1 DEF Exhausted, End, conversation, history
  <2>2. InHand = {}
    BY <2>1, NoneInHand
  <2> QED
    BY <2>1, <2>2, HistoryStays
<1> QED
  BY <1>1, NotedHistory, CompactedHistory, CalledHistory, ToolsHistory DEF Next

\* The task alone parts nothing.
LEMMA InitHistory ==
  ASSUME Init
  PROVE  History
<1> DEFINE m == <<Msg("task", 0)>>
<1>1. messages = m /\ InHand = {} /\ splices = 0 /\ notes = 0 /\ pc = "turn"
  BY DEF Init, InHand, In
<1>2. /\ m \in Seq(Message) /\ Len(m) = 1 /\ m[1].kind = "task" /\ m[1].whole = TRUE
      /\ \A i \in 1 .. 1 : i = 1
  BY MsgTyped, LimitsAssumption DEF FromUser, Msg
<1> HIDE DEF m
<1>3. Unasked(m) = {} /\ Unanswered(m) = {}
  BY <1>2, UnaskedAt, UnansweredAt
<1>4. PartedAtMost(m, {}, 0)
  BY <1>3, FS_EmptySet DEF PartedAtMost
<1>5. Apart(m)
  BY <1>2 DEF Apart, Alike, Twins
<1>6. Fresh(m, 0)
  BY <1>2 DEF Fresh
<1>7. 0 <= MaxNotes
  BY BoundsAssumption
<1> QED
  BY <1>1, <1>4, <1>5, <1>6, <1>7 DEF History

-----------------------------------------------------------------------------
(***************************************************************************)
(* Theorems                                                                *)
(***************************************************************************)

\* The strengthening all theorems rest on: the conversation ends on the user
\* wherever the turn goes on, calls are made in order, and no more pairs of the
\* history are parted than compactions can have parted.
IInv == Agent /\ History

\* The strengthening holds at the start, and every step preserves it.
LEMMA InitHolds == Init => IInv
<1>1. ASSUME Init
      PROVE  TypeOK /\ Conversation /\ BatchOrder
  <2>1. Msg("task", 0) \in Message /\ Msg("task", 0).kind = "task"
    BY MsgTyped, LimitsAssumption DEF FromUser
  <2>2. /\ messages \in Seq(Message) /\ messages # <<>>
        /\ messages[1] = Msg("task", 0) /\ messages[Len(messages)] = Msg("task", 0)
    BY <1>1, <2>1 DEF Init
  <2>3. Conversation
    BY <2>1, <2>2 DEF Conversation, TaskRemembered, FromUser
  <2>4. CallsTyped /\ BatchOrder
    BY <1>1 DEF Init, CallsTyped, BatchOrder, Reads, Writes
  <2>5. CountsTyped
    BY <1>1, LimitsAssumption DEF Init, CountsTyped
  <2>6. QED
    BY <2>2, <2>3, <2>4, <2>5, TypeParts
<1>2. QED
  BY <1>1, InitHistory DEF IInv, Agent

LEMMA StepHolds == IInv /\ [Next]_vars => IInv'
<1>1. ASSUME IInv, Next
      PROVE  IInv'
  <2>1. Agent'
    BY <1>1, StepTyped, StepTells, BatchStaysOrdered, TypeParts DEF IInv, Agent
  <2>2. QED
    BY <1>1, <2>1, StepKeepsHistory DEF IInv
<1>2. ASSUME IInv, UNCHANGED vars
      PROVE  IInv'
  <2>1. Agent'
    BY <1>2 DEF IInv, Agent, vars, TypeOK, Conversation, TaskRemembered, BatchOrder, Reads, Writes
  <2>2. History'
    BY <1>2 DEF IInv, History, vars, InHand, In
  <2>3. QED
    BY <2>1, <2>2 DEF IInv
<1>3. QED
  BY <1>1, <1>2

LEMMA AlwaysHolds == Spec => []IInv
  BY InitHolds, StepHolds, PTL DEF Spec

\* Agent.run keeps its counters within their limits and its history a sequence
\* of messages.
THEOREM TypesHold == Spec => []TypeOK
<1>1. IInv => TypeOK
  BY DEF IInv, Agent
<1>2. QED
  BY <1>1, AlwaysHolds, PTL

\* The provider is always asked with a history that ends on the user: after
\* nudges, cut-off answers, retries and every compaction (agent.py:319).
THEOREM AskedByUser == Spec => []EndsOnUser
<1>1. IInv => EndsOnUser
  BY DEF IInv, Agent, Conversation, EndsOnUser
<1>2. QED
  BY <1>1, AlwaysHolds, PTL

\* The task, or its summary, begins the history as long as no summarizing call
\* has failed (context.py:403).
THEOREM TaskStays == Spec => []TaskRemembered
<1>1. IInv => TaskRemembered
  BY DEF IInv, Agent, Conversation
<1>2. QED
  BY <1>1, AlwaysHolds, PTL

\* _execute_tools never runs a write beside another call.
THEOREM WritesAreAlone == Spec => []WritesRunAlone
<1>1. IInv => WritesRunAlone
  BY OrderMeansAlone, TypeParts DEF IInv, Agent
<1>2. QED
  BY <1>1, AlwaysHolds, PTL

\* No step of run, of its recovery or of a compaction loses the newest message.
THEOREM NewestIsKept == Spec => NewestKept
<1>1. IInv /\ [Next]_vars => [NewestStays]_vars
  BY StepTells DEF IInv, Agent, Told
<1>2. QED
  BY <1>1, AlwaysHolds, PTL DEF Spec, NewestKept

\* Results stay with the answer that asked for them: only a compaction parts the
\* two, one pair on either side at most (agent.py:447, context.py:343).
THEOREM PairsStay == Spec => []PairsKept
<1>1. IInv => PairsKept
  BY DEF IInv, History, PartedAtMost, PairsKept
<1>2. QED
  BY <1>1, AlwaysHolds, PTL

\* Results that the model has not seen are not cut down before it has: fewer
\* notes come with them than messages are kept (context.py:133).
THEOREM NewResultsStayWhole == Spec => []NewResultsWhole
<1>1. IInv => NewResultsWhole
  <2>1. SUFFICES ASSUME IInv, FewNotes, splices = 0, NEW i \in DOMAIN messages,
                        \A j \in i + 1 .. Len(messages) : messages[j].kind = "note"
                 PROVE  messages[i].whole
    BY DEF NewResultsWhole, FewNotes
  <2>2. i \in 1 .. Len(messages)
    BY AgentTyped DEF IInv
  <2>3. messages[i].whole = TRUE
    BY <2>1, <2>2 DEF IInv, History, Fresh
  <2>4. QED
    BY <2>3
<1>2. QED
  BY <1>1, AlwaysHolds, PTL
=============================================================================
