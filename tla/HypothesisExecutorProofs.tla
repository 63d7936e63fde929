---------------------- MODULE HypothesisExecutorProofs ----------------------
(***************************************************************************)
(* Proofs about HypothesisExecutor, for any cards, hypotheses, regions and *)
(* bounds: type correctness, the inductive invariant, the safety           *)
(* invariants that follow from it, and the refinement of                   *)
(* HypothesisLifecycle.                                                    *)
(***************************************************************************)
EXTENDS HypothesisExecutor, FiniteSetTheorems, TLAPS

-----------------------------------------------------------------------------
(***************************************************************************)
(* Lemmas about the ledger and the helpers                                 *)
(***************************************************************************)

\* An append, whole or cut short, leaves a ledger, and what can be read in it
\* was readable before or is the entry that was appended.
LEMMA LedgerFacts ==
  ASSUME NEW l \in L!Ledger, NEW e \in Hyps \X Verdict
  PROVE  /\ L!Appended(l, e) \in L!Ledger
         /\ L!Appended(l, e).readable \subseteq l.readable \cup {e}
         /\ \A k \in L!CutShort(l, e) :
              k \in L!Ledger /\ k.readable \subseteq l.readable \cup {e}
<1>1. L!Glued(l) \in L!Ledger /\ L!Glued(l).readable \subseteq l.readable
  BY DEF L!Glued, L!Ledger
<1>2. /\ [l EXCEPT !.readable = @ \cup {e}] \in L!Ledger
      /\ [l EXCEPT !.readable = @ \cup {e}].readable = l.readable \cup {e}
  BY DEF L!Ledger
<1>3. /\ [l EXCEPT !.readable = @ \cup {e}, !.open = {e}] \in L!Ledger
      /\ [l EXCEPT !.readable = @ \cup {e}, !.open = {e}].readable = l.readable \cup {e}
  BY DEF L!Ledger
<1>4. /\ [L!Glued(l) EXCEPT !.torn = FALSE] \in L!Ledger
      /\ [L!Glued(l) EXCEPT !.torn = FALSE].readable \subseteq l.readable
  BY <1>1 DEF L!Ledger
<1> QED
  BY <1>1, <1>2, <1>3, <1>4 DEF L!Appended, L!CutShort

\* Giving one node a new record changes the status of no other node.
LEMMA NodeFacts ==
  ASSUME NEW t \in [Hyps -> Node], NEW h \in Hyps, NEW n \in Node
  PROVE  /\ [t EXCEPT ![h] = n] \in [Hyps -> Node]
         /\ \A g \in Hyps :
              [t EXCEPT ![h] = n][g].status = IF g = h THEN n.status ELSE t[g].status
  BY DEF Node

\* The same of a new status, the contract left as it is.
LEMMA StatusFacts ==
  ASSUME NEW t \in [Hyps -> Node], NEW h \in Hyps,
         NEW s \in {"absent", "pending", "accepted", "pruned"}
  PROVE  /\ [t EXCEPT ![h].status = s] \in [Hyps -> Node]
         /\ \A g \in Hyps :
              [t EXCEPT ![h].status = s][g].status = IF g = h THEN s ELSE t[g].status
  BY DEF Node

\* Putting a contract on a node changes no status.
LEMMA ContractFacts ==
  ASSUME NEW t \in [Hyps -> Node], NEW h \in Hyps
  PROVE  /\ [t EXCEPT ![h].contract = TRUE] \in [Hyps -> Node]
         /\ \A g \in Hyps : [t EXCEPT ![h].contract = TRUE][g].status = t[g].status
  BY DEF Node

\* No tree in memory is a tree, and a verdict issued on a hypothesis that has
\* none is its only one.
LEMMA NoTreeFacts ==
  /\ [h \in Hyps |-> Absent] \in [Hyps -> Node]
  /\ \A h \in Hyps : [g \in Hyps |-> Absent][h].status = "absent"
  BY DEF Absent, Node

LEMMA FirstVerdict ==
  ASSUME NEW v \in Verdict
  PROVE  Append(<<>>, v) = <<v>>
  OBVIOUS

-----------------------------------------------------------------------------
(***************************************************************************)
(* Type correctness                                                        *)
(***************************************************************************)

\* Nothing on disk and no process is well typed.
LEMMA TypeInit == Init => TypeOK
<1> SUFFICES ASSUME Init PROVE TypeOK
  OBVIOUS
<1>1. /\ mem \in [Hyps -> Node] /\ disk \in [Hyps -> Node]
      /\ ledger \in L!Ledger
      /\ kills \in [Regions -> Nat]
      /\ issued \in [Hyps -> Seq(Verdict)]
  BY NoTreeFacts DEF Init, L!Empty, L!Ledger
<1>2. pc = "down" /\ pc \notin OnCard \cup OnCandidate /\ pc # "settle"
  BY DEF Init, OnCard, OnCandidate
<1>3. round \in 0 .. MaxRounds - 1 /\ cardsLeft \in 0 .. MaxCards
  BY ConfigAssumption DEF Init
<1>4. candsLeft \in (IF pc \in OnCandidate THEN 1 ELSE 0) .. MaxCandidates
  BY <1>2, ConfigAssumption DEF Init
<1>5. card \in (IF pc \in OnCard \cup OnCandidate THEN Cards ELSE {NoCard})
  BY <1>2 DEF Init
<1>6. cand \in (IF pc \in OnCandidate THEN Hyps ELSE {NoHyp})
  BY <1>2 DEF Init
<1>7. region \in (IF pc \in OnCandidate \ {"contract"} THEN Regions ELSE {NoRegion})
  BY <1>2 DEF Init
<1>8. ruling \in (IF pc = "settle" THEN Verdict ELSE {"none"})
  BY <1>2 DEF Init
<1> QED
  BY <1>1, <1>2, <1>3, <1>4, <1>5, <1>6, <1>7, <1>8 DEF Init, TypeOK

\* What a call of run forgets when it is over.
LEMMA TypeLeave ==
  ASSUME NEW where \in {"down", "ready"}, Leave(where),
         mem' \in [Hyps -> Node], disk' \in [Hyps -> Node],
         cards' \in SUBSET Cards, ledger' \in L!Ledger,
         entries' \in SUBSET (Hyps \X Verdict),
         issued' \in [Hyps -> Seq(Verdict)], skipped' \in SUBSET Hyps,
         cuts' \in Nat, runs' \in Nat, failures' \in Nat
  PROVE  TypeOK'
<1>1. /\ pc' \in {"down", "ready"}
      /\ pc' # "settle"
      /\ pc' \notin OnCard
      /\ pc' \notin OnCandidate
  BY DEF Leave, OnCard, OnCandidate
<1>2. kills' \in [Regions -> Nat]
  BY DEF Leave
<1>3. round' \in 0 .. MaxRounds - 1 /\ cardsLeft' \in 0 .. MaxCards
  BY ConfigAssumption DEF Leave
<1>4. candsLeft' \in (IF pc' \in OnCandidate THEN 1 ELSE 0) .. MaxCandidates
  BY <1>1, ConfigAssumption DEF Leave
<1>5. /\ card' \in (IF pc' \in OnCard \cup OnCandidate THEN Cards ELSE {NoCard})
      /\ cand' \in (IF pc' \in OnCandidate THEN Hyps ELSE {NoHyp})
      /\ region' \in (IF pc' \in OnCandidate \ {"contract"} THEN Regions ELSE {NoRegion})
      /\ ruling' \in (IF pc' = "settle" THEN Verdict ELSE {"none"})
  BY <1>1 DEF Leave
<1> QED
  BY <1>1, <1>2, <1>3, <1>4, <1>5 DEF TypeOK, Leave

\* The steps that a call of run is over with keep the types.
LEMMA TypeOver ==
  ASSUME TypeOK,
         \/ Finish \/ RaiseInStage \/ RaiseInAutopsy \/ Crash
         \/ \E v \in Verdict : JudgeCutShort(v)
  PROVE  TypeOK'
<1>1. /\ mem \in [Hyps -> Node] /\ disk \in [Hyps -> Node]
      /\ cards \in SUBSET Cards /\ ledger \in L!Ledger
      /\ entries \in SUBSET (Hyps \X Verdict)
      /\ issued \in [Hyps -> Seq(Verdict)] /\ skipped \in SUBSET Hyps
      /\ cuts \in Nat /\ runs \in Nat /\ failures \in Nat
  BY DEF TypeOK
<1>2. pc \in OnCandidate => cand \in Hyps
  BY DEF TypeOK
<1>3. CASE Finish
  <2>1. /\ Leave("ready") /\ mem' = mem /\ disk' = disk /\ cards' = cards
        /\ ledger' = ledger /\ entries' = entries /\ issued' = issued
        /\ skipped' = skipped /\ cuts' = cuts /\ runs' = runs /\ failures' = failures
    BY <1>3 DEF Finish, files
  <2>2. QED
    BY <1>1, <2>1, TypeLeave
<1>4. CASE RaiseInStage
  <2>1. /\ Leave("ready") /\ mem' = mem /\ disk' = disk /\ cards' = cards
        /\ ledger' = ledger /\ entries' = entries /\ issued' = issued
        /\ skipped' = skipped /\ cuts' = cuts /\ runs' = runs
        /\ failures' = failures + 1
    BY <1>4 DEF RaiseInStage, files
  <2>2. QED
    BY <1>1, <2>1, TypeLeave
<1>5. CASE RaiseInAutopsy
  <2>1. /\ Leave("ready") /\ mem' = [mem EXCEPT ![cand].contract = TRUE]
        /\ disk' = disk /\ cards' = cards
        /\ ledger' = ledger /\ entries' = entries /\ issued' = issued
        /\ skipped' = skipped /\ cuts' = cuts /\ runs' = runs
        /\ failures' = failures + 1 /\ pc = "settle"
    BY <1>5 DEF RaiseInAutopsy, files
  <2>2. mem' \in [Hyps -> Node]
    BY <1>1, <1>2, <2>1, ContractFacts DEF OnCandidate
  <2>3. QED
    BY <1>1, <2>1, <2>2, TypeLeave
<1>6. CASE Crash
  <2>1. /\ Leave("down") /\ mem' = [h \in Hyps |-> Absent]
        /\ disk' = disk /\ cards' = cards
        /\ ledger' = ledger /\ entries' = {} /\ issued' = issued
        /\ skipped' = skipped /\ cuts' = cuts /\ runs' = runs
        /\ failures' = failures + 1
    BY <1>6 DEF Crash, files
  <2>2. QED
    BY <1>1, <2>1, NoTreeFacts, TypeLeave
<1>7. ASSUME NEW v \in Verdict, JudgeCutShort(v)
      PROVE  TypeOK'
  <2>1. /\ pc = "adversary" /\ disk' = disk /\ cards' = cards
        /\ issued' = [issued EXCEPT ![cand] = Append(@, v)]
        /\ ledger' \in L!CutShort(ledger, <<cand, v>>)
        /\ skipped' = skipped /\ cuts' = cuts + 1 /\ runs' = runs
        /\ failures' = failures + 1
    BY <1>7 DEF JudgeCutShort
  <2>2. \/ Leave("ready") /\ mem' = mem /\ entries' = entries \cup {<<cand, v>>}
        \/ Leave("down") /\ mem' = [h \in Hyps |-> Absent] /\ entries' = {}
    BY <1>7 DEF JudgeCutShort
  <2>3. cand \in Hyps /\ <<cand, v>> \in Hyps \X Verdict
    BY <1>2, <2>1 DEF OnCandidate
  <2>4. ledger' \in L!Ledger
    BY <1>1, <2>1, <2>3, LedgerFacts
  <2>5. issued' \in [Hyps -> Seq(Verdict)]
    BY <1>1, <2>1, <2>3
  <2>6. mem' \in [Hyps -> Node] /\ entries' \in SUBSET (Hyps \X Verdict)
    BY <1>1, <2>2, <2>3, NoTreeFacts
  <2>7. /\ disk' \in [Hyps -> Node] /\ cards' \in SUBSET Cards
        /\ skipped' \in SUBSET Hyps
        /\ cuts' \in Nat /\ runs' \in Nat /\ failures' \in Nat
    BY <1>1, <2>1
  <2>8. QED
    BY <2>2, <2>4, <2>5, <2>6, <2>7, TypeLeave
<1> QED
  BY <1>3, <1>4, <1>5, <1>6, <1>7

\* Every step of a run, a failure or a crash keeps the types.
LEMMA TypeStep ==
  ASSUME TypeOK, [Next]_vars
  PROVE  TypeOK'
<1> USE ConfigAssumption DEF TypeOK, OnCard, OnCandidate, Stages
<1>1. CASE Construct
  BY <1>1 DEF Construct, files, locals, history, L!Ledger
<1>2. CASE StartRun
  BY <1>2 DEF StartRun, files, UpIn, Accepted
<1>3. CASE Prospect
  BY <1>3 DEF Prospect, files, history
<1>4. ASSUME NEW c \in Cards, TakeCard(c)
      PROVE  TypeOK'
  BY <1>4 DEF TakeCard, history
<1>5. CASE Forge
  BY <1>5 DEF Forge, files, history
<1>6. ASSUME NEW h \in Hyps, SkipCandidate(h)
      PROVE  TypeOK'
  BY <1>6 DEF SkipCandidate, files
<1>7. ASSUME NEW h \in Hyps, TakeCandidate(h)
      PROVE  TypeOK'
  <2>1. [mem EXCEPT ![h].status = "pending"] \in [Hyps -> Node]
    BY StatusFacts
  <2>2. mem' \in [Hyps -> Node] /\ disk' \in [Hyps -> Node]
    BY <1>7, <2>1 DEF TakeCandidate, SaveTree
  <2>3. /\ pc' = "contract" /\ card' = card /\ card \in Cards /\ cand' \in Hyps
        /\ candsLeft' = candsLeft /\ candsLeft \in 1 .. MaxCandidates
        /\ region' = NoRegion /\ ruling' = "none"
    BY <1>7 DEF TakeCandidate
  <2>4. UNCHANGED <<cards, ledger, entries, accepted, kills, stall, round, fresh, cardsLeft,
                    issued, skipped, cuts, runs, failures>>
    BY <1>7 DEF TakeCandidate, history
  <2>5. QED
    BY <2>2, <2>3, <2>4
<1>8. CASE CardDone
  BY <1>8 DEF CardDone, files, history
<1>9. ASSUME NEW r \in Regions, Freeze(r)
      PROVE  TypeOK'
  BY <1>9 DEF Freeze, files, history
<1>10. CASE Shelve
  <2>1. [mem EXCEPT ![cand].status = "pruned"] \in [Hyps -> Node]
    BY <1>10, StatusFacts DEF Shelve
  <2>2. QED
    BY <1>10, <2>1 DEF Shelve, SaveTree, locals, history
<1>11. CASE ShelveRefs
  <2>1. [mem EXCEPT ![cand].contract = TRUE] \in [Hyps -> Node]
    BY <1>11, ContractFacts DEF ShelveRefs
  <2>2. mem' \in [Hyps -> Node] /\ disk' \in [Hyps -> Node]
    BY <1>11, <2>1 DEF ShelveRefs, SaveTree
  <2>3. candsLeft' \in 0 .. MaxCandidates
    <3>1. candsLeft \in 1 .. MaxCandidates /\ candsLeft' = candsLeft - 1
      BY <1>11 DEF ShelveRefs, NextCandidate
    <3>2. MaxCandidates \in Nat
      OBVIOUS
    <3> HIDE ConfigAssumption DEF TypeOK, OnCard, OnCandidate, Stages
    <3>3. QED
      BY <3>1, <3>2
  <2>4. /\ pc' = "candidates" /\ card' = card /\ card \in Cards /\ cand' = NoHyp
        /\ region' = NoRegion /\ ruling' = "none"
    BY <1>11 DEF ShelveRefs, NextCandidate
  <2>5. UNCHANGED <<cards, ledger, entries, accepted, kills, stall, round, fresh, cardsLeft,
                    issued, skipped, cuts, runs, failures>>
    BY <1>11 DEF ShelveRefs, NextCandidate, history
  <2>6. QED
    BY <2>2, <2>3, <2>4, <2>5
<1>12. ASSUME NEW v \in Verdict, Judge(v)
       PROVE  TypeOK'
  <2>1. cand \in Hyps /\ <<cand, v>> \in Hyps \X Verdict
    BY <1>12 DEF Judge
  <2>2. L!Appended(ledger, <<cand, v>>) \in L!Ledger
    BY <2>1, LedgerFacts
  <2>3. [issued EXCEPT ![cand] = Append(@, v)] \in [Hyps -> Seq(Verdict)]
    BY <2>1
  <2>4. QED
    BY <1>12, <2>1, <2>2, <2>3 DEF Judge
<1>13. CASE SettleUp
  <2>1. [mem EXCEPT ![cand] = [status |-> "accepted", contract |-> TRUE]]
          \in [Hyps -> Node]
    BY <1>13, NodeFacts DEF SettleUp, Node
  <2>2. QED
    BY <1>13, <2>1 DEF SettleUp, NextCandidate, SaveTree, history
<1>14. CASE SettleDown
  <2>1. [mem EXCEPT ![cand] = [status |-> "pruned", contract |-> TRUE]]
          \in [Hyps -> Node]
    BY <1>14, NodeFacts DEF SettleDown, Node
  <2>2. QED
    BY <1>14, <2>1 DEF SettleDown, NextCandidate, SaveTree, history
<1>15. CASE EndRound
  BY <1>15, ConfigAssumption DEF EndRound, StallAfter, LastRound, files
<1>16. CASE Finish \/ RaiseInStage \/ RaiseInAutopsy \/ Crash
  BY <1>16, TypeOver
<1>17. CASE \E v \in Verdict : JudgeCutShort(v)
  BY <1>17, TypeOver
<1>18. CASE UNCHANGED vars
  BY <1>18 DEF vars
<1> QED
  BY <1>1, <1>2, <1>3, <1>4, <1>5, <1>6, <1>7, <1>8, <1>9, <1>10, <1>11,
     <1>12, <1>13, <1>14, <1>15, <1>16, <1>17, <1>18
  DEF Next, Work

\* Every variable keeps its type, for any configuration and any bound.
THEOREM TypeCorrect == Spec => []TypeOK
<1>1. TypeOK /\ [Next]_vars => TypeOK'
  BY TypeStep
<1> QED
  BY TypeInit, <1>1, PTL DEF Spec

-----------------------------------------------------------------------------
(***************************************************************************)
(* The inductive invariant                                                 *)
(***************************************************************************)

\* The invariant holds when nothing has happened yet.
LEMMA InvInit == Init => IInv
<1> SUFFICES ASSUME Init PROVE IInv
  OBVIOUS
<1>1. TypeOK
  BY TypeInit
<1>2. OutcomesInStep
  BY NoTreeFacts
  DEF Init, OutcomesInStep, TreesInStep, StatusFollowsVerdict, CandidateInStep,
      LedgerTrue, AcceptedWereJudged, L!Empty
<1>3. RegionsInStep
  BY ConfigAssumption DEF Init, RegionsInStep, KillsBounded
<1>4. StallInStep
  BY ConfigAssumption DEF Init, StallInStep
<1>5. LossesInStep
  <2>1. Undocumented = {}
    BY NoTreeFacts DEF Init, Undocumented, Accepted
  <2>2. IsFiniteSet(Undocumented) /\ Cardinality(Undocumented) = 0
    BY <2>1, FS_EmptySet
  <2>3. TailLoss = 0 /\ VerdictLoss = 0
    BY DEF Init, TailLoss, VerdictLoss, L!Empty, L!EndsClean
  <2>4. QED
    BY <2>2, <2>3 DEF Init, LossesInStep, L!Empty
<1>6. PendingInHand
  BY NoTreeFacts DEF Init, PendingInHand
<1> QED
  BY <1>1, <1>2, <1>3, <1>4, <1>5, <1>6 DEF IInv

\* A step that issues no verdict and changes no status keeps what is known of
\* the outcomes, if the candidate it leaves in hand is in step.
LEMMA QuietStep ==
  ASSUME TypeOK, OutcomesInStep,
         \A h \in Hyps : disk'[h].status = disk[h].status,
         pc' # "down" => \A h \in Hyps : mem'[h].status = disk[h].status,
         issued' = issued,
         ledger' = ledger,
         entries' \subseteq entries \cup ledger.readable,
         \A h \in accepted' : issued[h] = <<"UP">>,
         CandidateInStep'
  PROVE  OutcomesInStep'
<1>1. TreesInStep'
  BY DEF TreesInStep
<1>2. StatusFollowsVerdict'
  BY DEF OutcomesInStep, StatusFollowsVerdict
<1>3. LedgerTrue'
  BY DEF OutcomesInStep, LedgerTrue
<1>4. AcceptedWereJudged'
  BY DEF AcceptedWereJudged
<1> QED
  BY <1>1, <1>2, <1>3, <1>4 DEF OutcomesInStep

\* A step that settles the candidate in hand, or another one, as its verdict
\* allows keeps what is known of the outcomes.
LEMMA SettlingStep ==
  ASSUME TypeOK, OutcomesInStep, pc # "down",
         NEW h \in Hyps, NEW s \in {"pending", "accepted", "pruned"},
         s = "accepted" => issued[h] = <<"UP">>,
         s = "pruned" => issued[h] # <<"UP">>,
         mem' = disk',
         \A g \in Hyps :
           mem'[g].status = IF g = h THEN s ELSE mem[g].status,
         issued' = issued,
         ledger' = ledger,
         entries' = entries,
         \A g \in accepted' : issued[g] = <<"UP">>,
         CandidateInStep'
  PROVE  OutcomesInStep'
<1>1. TreesInStep'
  BY DEF TreesInStep
<1>2. \A g \in Hyps : disk'[g].status = IF g = h THEN s ELSE disk[g].status
  BY DEF OutcomesInStep, TreesInStep
<1>3. StatusFollowsVerdict'
  BY <1>2 DEF OutcomesInStep, StatusFollowsVerdict
<1>4. LedgerTrue'
  BY DEF OutcomesInStep, LedgerTrue
<1>5. AcceptedWereJudged'
  BY DEF AcceptedWereJudged
<1> QED
  BY <1>1, <1>3, <1>4, <1>5 DEF OutcomesInStep

\* A step that issues the first verdict of the candidate in hand, and writes
\* nothing else to the ledger, keeps what is known of the outcomes.
LEMMA JudgingStep ==
  ASSUME TypeOK, OutcomesInStep, pc = "adversary",
         NEW v \in Verdict,
         issued' = [issued EXCEPT ![cand] = Append(@, v)],
         ledger'.readable \subseteq ledger.readable \cup {<<cand, v>>},
         entries' \subseteq entries \cup {<<cand, v>>},
         accepted' \subseteq accepted,
         disk' = disk,
         pc' # "down" => mem' = mem,
         CandidateInStep'
  PROVE  OutcomesInStep'
<1>1. cand \in Hyps /\ issued \in [Hyps -> Seq(Verdict)]
  BY DEF TypeOK, OnCandidate
<1>2. disk[cand].status = "pending" /\ issued[cand] = <<>>
  BY DEF OutcomesInStep, CandidateInStep
<1>3. \A h \in Hyps : issued'[h] = IF h = cand THEN <<v>> ELSE issued[h]
  BY <1>1, <1>2, FirstVerdict
<1>4. TreesInStep'
  BY DEF OutcomesInStep, TreesInStep
<1>5. StatusFollowsVerdict'
  BY <1>2, <1>3 DEF OutcomesInStep, StatusFollowsVerdict, Verdict
<1>6. LedgerTrue'
  <2>1. ledger.readable \cup entries \subseteq Hyps \X Verdict
    BY DEF TypeOK, L!Ledger
  <2>2. \A e \in ledger.readable \cup entries :
          e[1] \in Hyps /\ issued[e[1]] = <<e[2]>>
    BY <2>1 DEF OutcomesInStep, LedgerTrue
  <2>3. \A e \in ledger.readable \cup entries : e[1] # cand
    BY <1>2, <2>2
  <2>4. \A e \in ledger.readable \cup entries : issued'[e[1]] = <<e[2]>>
    BY <1>3, <2>2, <2>3
  <2>5. issued'[<<cand, v>>[1]] = <<<<cand, v>>[2]>>
    BY <1>1, <1>3
  <2>6. (ledger.readable)' \cup entries'
          \subseteq (ledger.readable \cup entries) \cup {<<cand, v>>}
    OBVIOUS
  <2>7. QED
    BY <2>4, <2>5, <2>6 DEF LedgerTrue
<1>7. AcceptedWereJudged'
  <2>1. \A h \in accepted : h \in Hyps /\ issued[h] = <<"UP">>
    BY DEF TypeOK, OutcomesInStep, AcceptedWereJudged
  <2>2. \A h \in accepted : h # cand
    BY <1>2, <2>1
  <2>3. QED
    BY <1>3, <2>1, <2>2 DEF AcceptedWereJudged
<1> QED
  BY <1>4, <1>5, <1>6, <1>7 DEF OutcomesInStep

\* What is known of the outcomes survives every step.
LEMMA OutcomesStep ==
  ASSUME TypeOK, OutcomesInStep, [Next]_vars
  PROVE  OutcomesInStep'
<1>1. \A h \in Hyps : pc # "down" => mem[h].status = disk[h].status
  BY DEF OutcomesInStep, TreesInStep
<1>2. \A h \in accepted : issued[h] = <<"UP">>
  BY DEF OutcomesInStep, AcceptedWereJudged
<1>3. pc \in OnCandidate => cand \in Hyps
  BY DEF TypeOK
<1>4. mem \in [Hyps -> Node] /\ disk \in [Hyps -> Node]
  BY DEF TypeOK
<1>5. CASE Construct
  BY <1>5, <1>1, <1>2, QuietStep
  DEF Construct, files, locals, history, CandidateInStep
<1>6. CASE StartRun
  <2>1. \A h \in UpIn(entries) : issued[h] = <<"UP">>
    BY DEF UpIn, OutcomesInStep, LedgerTrue
  <2>2. \A h \in Accepted(mem) : issued[h] = <<"UP">>
    BY <1>6, <1>1 DEF StartRun, Accepted, OutcomesInStep, StatusFollowsVerdict
  <2>3. QED
    BY <1>6, <1>1, <2>1, <2>2, QuietStep DEF StartRun, files, CandidateInStep
<1>7. CASE Prospect
  BY <1>7, <1>1, <1>2, QuietStep DEF Prospect, files, history, CandidateInStep
<1>8. ASSUME NEW c \in Cards, TakeCard(c)
      PROVE  OutcomesInStep'
  BY <1>8, <1>1, <1>2, QuietStep DEF TakeCard, history, CandidateInStep
<1>9. CASE Forge
  BY <1>9, <1>1, <1>2, QuietStep DEF Forge, files, history, CandidateInStep
<1>10. ASSUME NEW h \in Hyps, SkipCandidate(h)
       PROVE  OutcomesInStep'
  BY <1>10, <1>1, <1>2, QuietStep DEF SkipCandidate, files, CandidateInStep
<1>11. ASSUME NEW h \in Hyps, TakeCandidate(h)
       PROVE  OutcomesInStep'
  <2>1. h \notin Present(mem) /\ pc # "down"
    BY <1>11 DEF TakeCandidate, Skippable
  <2>2. mem[h].status = "absent" /\ disk[h].status = "absent" /\ issued[h] = <<>>
    BY <2>1, <1>1 DEF Present, OutcomesInStep, StatusFollowsVerdict
  <2>3. mem' = [mem EXCEPT ![h].status = "pending"] /\ disk' = mem'
    BY <1>11, <2>1 DEF TakeCandidate, SaveTree
  <2>4. \A g \in Hyps :
          mem'[g].status = IF g = h THEN "pending" ELSE mem[g].status
    BY <1>4, <2>3, StatusFacts
  <2>5. CandidateInStep'
    BY <1>11, <2>2, <2>3, <2>4 DEF TakeCandidate, CandidateInStep, history
  <2>6. issued' = issued /\ ledger' = ledger /\ entries' = entries /\ accepted' = accepted
    BY <1>11 DEF TakeCandidate, history
  <2>7. QED
    BY <1>2, <2>1, <2>3, <2>4, <2>5, <2>6, SettlingStep
<1>12. CASE CardDone
  BY <1>12, <1>1, <1>2, QuietStep DEF CardDone, files, history, CandidateInStep
<1>13. ASSUME NEW r \in Regions, Freeze(r)
       PROVE  OutcomesInStep'
  <2>1. CandidateInStep'
    BY <1>13 DEF Freeze, files, history, OutcomesInStep, CandidateInStep
  <2>2. QED
    BY <1>13, <2>1, <1>1, <1>2, QuietStep DEF Freeze, files, history
<1>14. CASE Shelve
  <2>1. cand \in Hyps /\ issued[cand] = <<>> /\ pc # "down"
    BY <1>14, <1>3 DEF Shelve, OnCandidate, OutcomesInStep, CandidateInStep
  <2>2. mem' = [mem EXCEPT ![cand].status = "pruned"] /\ disk' = mem'
    BY <1>14 DEF Shelve, SaveTree
  <2>3. \A g \in Hyps :
          mem'[g].status = IF g = cand THEN "pruned" ELSE mem[g].status
    BY <1>4, <2>1, <2>2, StatusFacts
  <2>4. CandidateInStep'
    BY <1>14 DEF Shelve, CandidateInStep
  <2>5. issued' = issued /\ ledger' = ledger /\ entries' = entries /\ accepted' = accepted
    BY <1>14 DEF Shelve, locals, history
  <2>6. issued[cand] # <<"UP">>
    BY <2>1
  <2>7. QED
    BY <1>2, <2>1, <2>2, <2>3, <2>4, <2>5, <2>6, SettlingStep
<1>15. CASE ShelveRefs
  <2>1. cand \in Hyps
    BY <1>15, <1>3 DEF ShelveRefs, OnCandidate
  <2>2. mem' = [mem EXCEPT ![cand].contract = TRUE] /\ disk' = mem'
    BY <1>15 DEF ShelveRefs, SaveTree
  <2>3. \A g \in Hyps : mem'[g].status = mem[g].status
    BY <1>4, <2>1, <2>2, ContractFacts
  <2>4. QED
    BY <1>15, <1>1, <1>2, <2>2, <2>3, QuietStep
    DEF ShelveRefs, NextCandidate, history, CandidateInStep
<1>16. ASSUME NEW v \in Verdict, Judge(v)
       PROVE  OutcomesInStep'
  <2>1. cand \in Hyps /\ <<cand, v>> \in Hyps \X Verdict /\ ledger \in L!Ledger
    BY <1>16, <1>3 DEF Judge, OnCandidate, TypeOK
  <2>2. ledger'.readable \subseteq ledger.readable \cup {<<cand, v>>}
    BY <1>16, <2>1, LedgerFacts DEF Judge
  <2>3. disk[cand].status = "pending" /\ issued[cand] = <<>>
    BY <1>16 DEF Judge, OutcomesInStep, CandidateInStep
  <2>4. issued \in [Hyps -> Seq(Verdict)]
    BY DEF TypeOK
  <2>5. issued'[cand] = <<v>>
    BY <1>16, <2>1, <2>3, <2>4, FirstVerdict DEF Judge
  <2>6. CandidateInStep'
    BY <1>16, <2>3, <2>5 DEF Judge, CandidateInStep
  <2>7. QED
    BY <1>16, <2>2, <2>6, JudgingStep DEF Judge
<1>17. CASE SettleUp
  <2>1. cand \in Hyps /\ issued[cand] = <<"UP">> /\ pc # "down"
    BY <1>17, <1>3 DEF SettleUp, OnCandidate, OutcomesInStep, CandidateInStep
  <2>2. /\ mem' = [mem EXCEPT ![cand] = [status |-> "accepted", contract |-> TRUE]]
        /\ disk' = mem'
    BY <1>17 DEF SettleUp, SaveTree
  <2>3. [status |-> "accepted", contract |-> TRUE] \in Node
    BY DEF Node
  <2>4. \A g \in Hyps :
          mem'[g].status = IF g = cand THEN "accepted" ELSE mem[g].status
    BY <1>4, <2>1, <2>2, <2>3, NodeFacts
  <2>5. CandidateInStep'
    BY <1>17 DEF SettleUp, NextCandidate, CandidateInStep
  <2>6. /\ issued' = issued /\ ledger' = ledger /\ entries' = entries
        /\ accepted' = accepted \cup {cand}
    BY <1>17 DEF SettleUp, history
  <2>7. QED
    BY <1>2, <2>1, <2>2, <2>4, <2>5, <2>6, SettlingStep
<1>18. CASE SettleDown
  <2>1. cand \in Hyps /\ issued[cand] = <<"DOWN">> /\ pc # "down"
    BY <1>18, <1>3 DEF SettleDown, OnCandidate, OutcomesInStep, CandidateInStep
  <2>2. /\ mem' = [mem EXCEPT ![cand] = [status |-> "pruned", contract |-> TRUE]]
        /\ disk' = mem'
    BY <1>18 DEF SettleDown, SaveTree
  <2>3. [status |-> "pruned", contract |-> TRUE] \in Node
    BY DEF Node
  <2>4. \A g \in Hyps :
          mem'[g].status = IF g = cand THEN "pruned" ELSE mem[g].status
    BY <1>4, <2>1, <2>2, <2>3, NodeFacts
  <2>5. CandidateInStep'
    BY <1>18 DEF SettleDown, NextCandidate, CandidateInStep
  <2>6. issued' = issued /\ ledger' = ledger /\ entries' = entries /\ accepted' = accepted
    BY <1>18 DEF SettleDown, history
  <2>7. issued[cand] # <<"UP">>
    BY <2>1
  <2>8. QED
    BY <1>2, <2>1, <2>2, <2>4, <2>5, <2>6, <2>7, SettlingStep
<1>19. CASE EndRound
  BY <1>19, <1>1, <1>2, QuietStep DEF EndRound, files, CandidateInStep
<1>20. CASE Finish
  BY <1>20, <1>1, QuietStep DEF Finish, Leave, files, CandidateInStep
<1>21. CASE RaiseInStage
  BY <1>21, <1>1, QuietStep DEF RaiseInStage, Leave, files, CandidateInStep
<1>22. ASSUME NEW v \in Verdict, JudgeCutShort(v)
       PROVE  OutcomesInStep'
  <2>1. cand \in Hyps /\ <<cand, v>> \in Hyps \X Verdict /\ ledger \in L!Ledger
    BY <1>22, <1>3 DEF JudgeCutShort, OnCandidate, TypeOK
  <2>2. ledger'.readable \subseteq ledger.readable \cup {<<cand, v>>}
    BY <1>22, <2>1, LedgerFacts DEF JudgeCutShort
  <2>3. /\ pc' \in {"down", "ready"} /\ accepted' = {} /\ disk' = disk
        /\ entries' \subseteq entries \cup {<<cand, v>>}
        /\ pc' # "down" => mem' = mem
    BY <1>22 DEF JudgeCutShort, Leave
  <2>4. CandidateInStep'
    BY <2>3 DEF CandidateInStep
  <2>5. QED
    BY <1>22, <2>2, <2>3, <2>4, JudgingStep DEF JudgeCutShort
<1>23. CASE RaiseInAutopsy
  <2>1. cand \in Hyps
    BY <1>23, <1>3 DEF RaiseInAutopsy, OnCandidate
  <2>2. \A g \in Hyps : mem'[g].status = mem[g].status
    BY <1>23, <1>4, <2>1, ContractFacts DEF RaiseInAutopsy
  <2>3. QED
    BY <1>23, <1>1, <2>2, QuietStep DEF RaiseInAutopsy, Leave, files, CandidateInStep
<1>24. CASE Crash
  BY <1>24, QuietStep DEF Crash, Leave, files, CandidateInStep
<1>25. CASE UNCHANGED vars
  BY <1>25
  DEF vars, OutcomesInStep, TreesInStep, StatusFollowsVerdict, CandidateInStep,
      LedgerTrue, AcceptedWereJudged
<1> QED
  BY <1>5, <1>6, <1>7, <1>8, <1>9, <1>10, <1>11, <1>12, <1>13, <1>14, <1>15,
     <1>16, <1>17, <1>18, <1>19, <1>20, <1>21, <1>22, <1>23, <1>24, <1>25
  DEF Next, Work

\* Kills are counted for regions that were open when the candidate was put to
\* the adversary, and nothing else closes a region in between.
LEMMA RegionsStep ==
  ASSUME TypeOK, RegionsInStep, [Next]_vars
  PROVE  RegionsInStep'
<1>1. kills \in [Regions -> Nat] /\ Threshold \in Nat \ {0}
  BY ConfigAssumption DEF TypeOK
<1>2. \A r \in Regions : kills[r] <= Threshold
  BY DEF RegionsInStep, KillsBounded
<1>3. ASSUME kills' = kills, pc' \notin {"adversary", "settle"}
      PROVE  RegionsInStep'
  BY <1>2, <1>3 DEF RegionsInStep, KillsBounded
<1>4. ASSUME NEW where \in {"down", "ready"}, Leave(where)
      PROVE  RegionsInStep'
  BY <1>1, <1>4 DEF Leave, RegionsInStep, KillsBounded
<1>5. CASE Construct
  BY <1>5, <1>3 DEF Construct, locals
<1>6. CASE StartRun
  BY <1>6, <1>3 DEF StartRun
<1>7. CASE Prospect
  BY <1>7, <1>3 DEF Prospect
<1>8. CASE \E c \in Cards : TakeCard(c)
  BY <1>8, <1>3 DEF TakeCard
<1>9. CASE Forge
  BY <1>9, <1>3 DEF Forge
<1>10. CASE \E h \in Hyps : SkipCandidate(h)
  BY <1>10, <1>3 DEF SkipCandidate
<1>11. CASE \E h \in Hyps : TakeCandidate(h)
  BY <1>11, <1>3 DEF TakeCandidate
<1>12. CASE CardDone
  BY <1>12, <1>3 DEF CardDone
<1>13. ASSUME NEW r \in Regions, Freeze(r)
       PROVE  RegionsInStep'
  BY <1>13, <1>2 DEF Freeze, RegionsInStep, KillsBounded, Closed
<1>14. CASE Shelve
  BY <1>14, <1>3 DEF Shelve, locals
<1>15. CASE ShelveRefs
  BY <1>15, <1>3 DEF ShelveRefs, NextCandidate
<1>16. ASSUME NEW v \in Verdict, Judge(v)
       PROVE  RegionsInStep'
  BY <1>16, <1>2 DEF Judge, RegionsInStep, KillsBounded, Closed
<1>17. CASE SettleUp
  BY <1>17, <1>3 DEF SettleUp, NextCandidate
<1>18. CASE SettleDown
  <2>1. region \in Regions /\ ~(kills[region] >= Threshold)
    BY <1>18 DEF SettleDown, TypeOK, OnCandidate, RegionsInStep, Closed
  <2>2. \A r \in Regions :
          kills'[r] = IF r = region THEN kills[r] + 1 ELSE kills[r]
    BY <1>18, <1>1 DEF SettleDown
  <2>3. \A r \in Regions : kills'[r] <= Threshold
    BY <1>1, <1>2, <2>1, <2>2
  <2>4. QED
    BY <1>18, <2>3 DEF SettleDown, NextCandidate, RegionsInStep, KillsBounded
<1>19. CASE EndRound
  BY <1>19, <1>3 DEF EndRound
<1>20. CASE Finish
  BY <1>20, <1>4 DEF Finish
<1>21. CASE RaiseInStage
  BY <1>21, <1>4 DEF RaiseInStage
<1>22. CASE \E v \in Verdict : JudgeCutShort(v)
  BY <1>22, <1>4 DEF JudgeCutShort
<1>23. CASE RaiseInAutopsy
  BY <1>23, <1>4 DEF RaiseInAutopsy
<1>24. CASE Crash
  BY <1>24, <1>4 DEF Crash
<1>25. CASE UNCHANGED vars
  BY <1>25 DEF vars, RegionsInStep, KillsBounded, Closed
<1> QED
  BY <1>5, <1>6, <1>7, <1>8, <1>9, <1>10, <1>11, <1>12, <1>13, <1>14, <1>15,
     <1>16, <1>17, <1>18, <1>19, <1>20, <1>21, <1>22, <1>23, <1>24, <1>25
  DEF Next, Work

\* The stall counter moves only when a round ends, and the loop goes on only
\* when it stayed below the threshold.
LEMMA StallStep ==
  ASSUME TypeOK, StallInStep, [Next]_vars
  PROVE  StallInStep'
<1>1. EscalateAt \in Nat \ {0} /\ stall \in Nat
  BY ConfigAssumption DEF TypeOK
<1>2. ASSUME NEW where \in {"down", "ready"}, Leave(where)
      PROVE  StallInStep'
  BY <1>1, <1>2 DEF Leave, StallInStep
<1>3. CASE EndRound
  BY <1>1, <1>3 DEF EndRound, LastRound, StallInStep, StallAfter
<1>4. ASSUME stall' = stall, pc # "advance"
      PROVE  StallInStep'
  BY <1>4 DEF StallInStep
<1>5. CASE \/ Construct \/ StartRun \/ Prospect \/ Forge \/ CardDone \/ Shelve
           \/ ShelveRefs \/ SettleUp \/ SettleDown
  BY <1>5, <1>4
  DEF Construct, StartRun, Prospect, Forge, CardDone, Shelve, ShelveRefs,
      SettleUp, SettleDown, locals
<1>6. CASE \/ \E c \in Cards : TakeCard(c)
           \/ \E h \in Hyps : SkipCandidate(h) \/ TakeCandidate(h)
           \/ \E r \in Regions : Freeze(r)
           \/ \E v \in Verdict : Judge(v)
  BY <1>6, <1>4 DEF TakeCard, SkipCandidate, TakeCandidate, Freeze, Judge
<1>7. CASE \/ Finish \/ RaiseInStage \/ RaiseInAutopsy \/ Crash
           \/ \E v \in Verdict : JudgeCutShort(v)
  BY <1>7, <1>2 DEF Finish, RaiseInStage, RaiseInAutopsy, Crash, JudgeCutShort
<1>8. CASE UNCHANGED vars
  BY <1>8 DEF vars, StallInStep
<1> QED
  BY <1>3, <1>5, <1>6, <1>7, <1>8 DEF Next, Work

\* What an append, whole or cut short, does to the tail: only the entry whose
\* line was open is lost, only the entry that was appended may be left open.
LEMMA TailFacts ==
  ASSUME NEW l \in L!Ledger, NEW e \in Hyps \X Verdict, l.open \subseteq l.readable
  PROVE  /\ L!EndsClean(L!Appended(l, e))
         /\ l.readable \ l.open \subseteq L!Appended(l, e).readable
         /\ L!EndsClean(l) => e \in L!Appended(l, e).readable
         /\ \A k \in L!CutShort(l, e) :
              /\ l.readable \ l.open \subseteq k.readable
              /\ k.open \subseteq k.readable
              /\ k.open \subseteq l.open \cup {e}
<1>1. L!EndsClean(l) => /\ L!Appended(l, e).readable = l.readable \cup {e}
                        /\ L!Appended(l, e).open = {}
                        /\ L!Appended(l, e).torn = FALSE
  BY DEF L!Appended, L!EndsClean, L!Ledger
<1>2. ~L!EndsClean(l) => /\ L!Appended(l, e).readable = l.readable \ l.open
                         /\ L!Appended(l, e).open = {}
                         /\ L!Appended(l, e).torn = FALSE
  BY DEF L!Appended, L!Glued
<1>3. ASSUME NEW k \in L!CutShort(l, e)
      PROVE  /\ l.readable \ l.open \subseteq k.readable
             /\ k.open \subseteq k.readable
             /\ k.open \subseteq l.open \cup {e}
  <2>1. CASE k = l
    BY <2>1
  <2>2. CASE k = L!Glued(l)
    BY <2>2 DEF L!Glued
  <2>3. CASE k = [l EXCEPT !.readable = @ \cup {e}, !.open = {e}]
    BY <2>3 DEF L!Ledger
  <2>4. QED
    BY <1>3, <2>1, <2>2, <2>3 DEF L!CutShort
<1>4. L!EndsClean(L!Appended(l, e))
  BY <1>1, <1>2 DEF L!EndsClean
<1> QED
  BY <1>1, <1>2, <1>3, <1>4

\* The two losses are 0 or 1.
LEMMA LossTypes == TailLoss \in 0 .. 1 /\ VerdictLoss \in 0 .. 1
  BY DEF TailLoss, VerdictLoss

\* A step that accepts nothing and loses no entry of an accepted node leaves no
\* more nodes undocumented.
LEMMA NoNewLoss ==
  ASSUME IsFiniteSet(Undocumented),
         Undocumented' \subseteq Undocumented
  PROVE  /\ IsFiniteSet(Undocumented')
         /\ Cardinality(Undocumented') \in Nat
         /\ Cardinality(Undocumented) \in Nat
         /\ Cardinality(Undocumented') <= Cardinality(Undocumented)
  BY FS_Subset, FS_CardinalityType

\* A step that leaves the ledger alone, accepts nothing, and leaves no verdict
\* in hand keeps the account of the losses.
LEMMA NoLossStep ==
  ASSUME TypeOK, LossesInStep,
         \A h \in Hyps : disk'[h].status = "accepted" => disk[h].status = "accepted",
         ledger' = ledger,
         cuts' = cuts,
         pc' # "settle"
  PROVE  LossesInStep'
<1>1. Undocumented' \subseteq Undocumented
  BY DEF Undocumented, Accepted
<1>2. /\ IsFiniteSet(Undocumented')
      /\ Cardinality(Undocumented') \in Nat
      /\ Cardinality(Undocumented) \in Nat
      /\ Cardinality(Undocumented') <= Cardinality(Undocumented)
  BY <1>1, NoNewLoss DEF LossesInStep
<1>3. TailLoss' = TailLoss /\ VerdictLoss' = 0
  BY DEF TailLoss, VerdictLoss, L!EndsClean
<1>4. Cardinality(Undocumented) + TailLoss + VerdictLoss <= cuts /\ cuts \in Nat
  BY DEF LossesInStep, TypeOK
<1>5. (Cardinality(Undocumented) + TailLoss + VerdictLoss <= cuts)'
  BY <1>2, <1>3, <1>4, LossTypes
<1>6. \A e \in ledger.open : e[1] \in Hyps /\ disk'[e[1]].status # "accepted"
  BY DEF LossesInStep, TypeOK, L!Ledger
<1> QED
  BY <1>2, <1>5, <1>6 DEF LossesInStep

\* The account of the losses survives every step.
LEMMA LossesStep ==
  ASSUME TypeOK, OutcomesInStep, LossesInStep, [Next]_vars
  PROVE  LossesInStep'
<1>1. pc # "down" => \A h \in Hyps : mem[h].status = disk[h].status
  BY DEF OutcomesInStep, TreesInStep
<1>2. pc \in OnCandidate => cand \in Hyps
  BY DEF TypeOK
<1>3. mem \in [Hyps -> Node] /\ ledger \in L!Ledger /\ cuts \in Nat
  BY DEF TypeOK
<1>4. \A e \in ledger.open : e[1] \in Hyps /\ disk[e[1]].status # "accepted"
  BY <1>3 DEF LossesInStep, L!Ledger
<1>5. Cardinality(Undocumented) + TailLoss + VerdictLoss <= cuts
  BY DEF LossesInStep
<1>6. CASE \/ Construct \/ StartRun \/ Prospect \/ Forge \/ CardDone \/ EndRound
           \/ \E h \in Hyps : SkipCandidate(h)
           \/ \E r \in Regions : Freeze(r)
  <2>1. disk' = disk /\ ledger' = ledger /\ cuts' = cuts /\ pc' # "settle"
    BY <1>6
    DEF Construct, StartRun, Prospect, Forge, CardDone, EndRound, SkipCandidate,
        Freeze, files, history
  <2>2. QED
    BY <2>1, NoLossStep
<1>7. CASE Finish \/ RaiseInStage \/ RaiseInAutopsy \/ Crash
  <2>1. disk' = disk /\ ledger' = ledger /\ cuts' = cuts /\ pc' # "settle"
    BY <1>7 DEF Finish, RaiseInStage, RaiseInAutopsy, Crash, Leave, files
  <2>2. QED
    BY <2>1, NoLossStep
<1>8. ASSUME NEW c \in Cards, TakeCard(c)
      PROVE  LossesInStep'
  <2>1. ledger' = ledger /\ cuts' = cuts /\ pc' # "settle"
    BY <1>8 DEF TakeCard, history
  <2>2. \A h \in Hyps : disk'[h].status = disk[h].status
    BY <1>8, <1>1 DEF TakeCard
  <2>3. QED
    BY <2>1, <2>2, NoLossStep
<1>9. ASSUME NEW h \in Hyps, TakeCandidate(h)
      PROVE  LossesInStep'
  <2>1. /\ ledger' = ledger /\ cuts' = cuts /\ pc' # "settle"
        /\ pc # "down" /\ h \notin Present(mem)
    BY <1>9 DEF TakeCandidate, Skippable, history
  <2>2. disk' = [mem EXCEPT ![h].status = "pending"]
    BY <1>9, <2>1 DEF TakeCandidate, SaveTree
  <2>3. \A g \in Hyps : disk'[g].status = "accepted" => disk[g].status = "accepted"
    BY <1>1, <1>3, <2>1, <2>2, StatusFacts
  <2>4. QED
    BY <2>1, <2>3, NoLossStep
<1>10. CASE Shelve
  <2>1. /\ ledger' = ledger /\ cuts' = cuts /\ pc' # "settle"
        /\ pc # "down" /\ cand \in Hyps
    BY <1>10, <1>2 DEF Shelve, OnCandidate, history
  <2>2. disk' = [mem EXCEPT ![cand].status = "pruned"]
    BY <1>10 DEF Shelve, SaveTree
  <2>3. \A g \in Hyps : disk'[g].status = "accepted" => disk[g].status = "accepted"
    BY <1>1, <1>3, <2>1, <2>2, StatusFacts
  <2>4. QED
    BY <2>1, <2>3, NoLossStep
<1>11. CASE ShelveRefs
  <2>1. /\ ledger' = ledger /\ cuts' = cuts /\ pc' # "settle"
        /\ pc # "down" /\ cand \in Hyps
    BY <1>11, <1>2 DEF ShelveRefs, NextCandidate, OnCandidate, history
  <2>2. disk' = [mem EXCEPT ![cand].contract = TRUE]
    BY <1>11 DEF ShelveRefs, SaveTree
  <2>3. \A g \in Hyps : disk'[g].status = disk[g].status
    BY <1>1, <1>3, <2>1, <2>2, ContractFacts
  <2>4. QED
    BY <2>1, <2>3, NoLossStep
<1>12. CASE SettleDown
  <2>1. /\ ledger' = ledger /\ cuts' = cuts /\ pc' # "settle"
        /\ pc # "down" /\ cand \in Hyps
    BY <1>12, <1>2 DEF SettleDown, NextCandidate, OnCandidate, history
  <2>2. disk' = [mem EXCEPT ![cand] = [status |-> "pruned", contract |-> TRUE]]
    BY <1>12 DEF SettleDown, SaveTree
  <2>3. [status |-> "pruned", contract |-> TRUE] \in Node
    BY DEF Node
  <2>4. \A g \in Hyps : disk'[g].status = "accepted" => disk[g].status = "accepted"
    BY <1>1, <1>3, <2>1, <2>2, <2>3, NodeFacts
  <2>5. QED
    BY <2>1, <2>4, NoLossStep
<1>13. ASSUME disk' = disk,
              (ledger.readable \ ledger.open) \subseteq ledger'.readable
       PROVE  /\ IsFiniteSet(Undocumented')
              /\ Cardinality(Undocumented') \in Nat
              /\ Cardinality(Undocumented) \in Nat
              /\ Cardinality(Undocumented') <= Cardinality(Undocumented)
  <2>1. \A h \in Accepted(disk) : <<h, "UP">> \notin ledger.open
    BY <1>4 DEF Accepted
  <2>2. Undocumented' \subseteq Undocumented
    BY <1>13, <2>1 DEF Undocumented, Accepted
  <2>3. QED
    BY <2>2, NoNewLoss DEF LossesInStep
<1>14. ASSUME NEW v \in Verdict, Judge(v)
       PROVE  LossesInStep'
  <2>1. /\ pc = "adversary" /\ pc' = "settle" /\ cand' = cand /\ ruling' = v
        /\ disk' = disk /\ cuts' = cuts
        /\ ledger' = L!Appended(ledger, <<cand, v>>)
    BY <1>14 DEF Judge
  <2>2. <<cand, v>> \in Hyps \X Verdict /\ ledger.open \subseteq ledger.readable
    BY <2>1, <1>2 DEF OnCandidate, LossesInStep
  <2>3. /\ L!EndsClean(ledger')
        /\ (ledger.readable \ ledger.open) \subseteq ledger'.readable
        /\ L!EndsClean(ledger) => <<cand, v>> \in ledger'.readable
    BY <1>3, <2>1, <2>2, TailFacts
  <2>4. ledger'.open = {}
    BY <2>3 DEF L!EndsClean
  <2>5. TailLoss' = 0 /\ VerdictLoss = 0
    BY <2>1, <2>3 DEF TailLoss, VerdictLoss, L!EndsClean
  <2>6. VerdictLoss' <= TailLoss
    BY <2>1, <2>3, LossTypes DEF VerdictLoss, TailLoss
  <2>7. /\ IsFiniteSet(Undocumented')
        /\ Cardinality(Undocumented') \in Nat
        /\ Cardinality(Undocumented) \in Nat
        /\ Cardinality(Undocumented') <= Cardinality(Undocumented)
    BY <1>13, <2>1, <2>3
  <2>8. VerdictLoss' \in 0 .. 1
    BY DEF VerdictLoss
  <2>9. (Cardinality(Undocumented) + TailLoss + VerdictLoss <= cuts)'
    BY <1>3, <1>5, <2>1, <2>5, <2>6, <2>7, <2>8, LossTypes
  <2>10. QED
    BY <2>4, <2>7, <2>9 DEF LossesInStep
<1>15. ASSUME NEW v \in Verdict, JudgeCutShort(v)
       PROVE  LossesInStep'
  <2>1. /\ pc = "adversary" /\ pc' # "settle"
        /\ disk' = disk /\ cuts' = cuts + 1
        /\ ledger' \in L!CutShort(ledger, <<cand, v>>)
    BY <1>15 DEF JudgeCutShort, Leave
  <2>2. <<cand, v>> \in Hyps \X Verdict /\ ledger.open \subseteq ledger.readable
    BY <2>1, <1>2 DEF OnCandidate, LossesInStep
  <2>3. /\ (ledger.readable \ ledger.open) \subseteq ledger'.readable
        /\ ledger'.open \subseteq ledger'.readable
        /\ ledger'.open \subseteq ledger.open \cup {<<cand, v>>}
    BY <1>3, <2>1, <2>2, TailFacts
  <2>4. disk[cand].status # "accepted"
    BY <2>1 DEF OutcomesInStep, CandidateInStep
  <2>5. \A e \in ledger'.open : disk'[e[1]].status # "accepted"
    BY <1>4, <2>1, <2>3, <2>4
  <2>6. TailLoss' \in 0 .. 1 /\ VerdictLoss' = 0
    BY <2>1 DEF TailLoss, VerdictLoss
  <2>7. /\ IsFiniteSet(Undocumented')
        /\ Cardinality(Undocumented') \in Nat
        /\ Cardinality(Undocumented) \in Nat
        /\ Cardinality(Undocumented') <= Cardinality(Undocumented)
    BY <1>13, <2>1, <2>3
  <2>8. (Cardinality(Undocumented) + TailLoss + VerdictLoss <= cuts)'
    BY <1>3, <1>5, <2>1, <2>6, <2>7, LossTypes
  <2>9. QED
    BY <2>1, <2>3, <2>5, <2>7, <2>8 DEF LossesInStep
<1>16. CASE SettleUp
  <2>1. /\ pc = "settle" /\ pc' # "settle" /\ ruling = "UP" /\ cand \in Hyps
        /\ ledger' = ledger /\ cuts' = cuts
    BY <1>16, <1>2 DEF SettleUp, NextCandidate, OnCandidate, history
  <2>2. disk' = [mem EXCEPT ![cand] = [status |-> "accepted", contract |-> TRUE]]
    BY <1>16 DEF SettleUp, SaveTree
  <2>3. [status |-> "accepted", contract |-> TRUE] \in Node
    BY DEF Node
  <2>4. \A g \in Hyps :
          disk'[g].status = IF g = cand THEN "accepted" ELSE disk[g].status
    BY <1>1, <1>3, <2>1, <2>2, <2>3, NodeFacts
  <2>5. Undocumented' \subseteq Undocumented \cup {cand}
    BY <2>1, <2>4 DEF Undocumented, Accepted
  <2>6. VerdictLoss = 0 => Undocumented' \subseteq Undocumented
    BY <2>1, <2>4 DEF Undocumented, Accepted, VerdictLoss
  <2>7. /\ IsFiniteSet(Undocumented \cup {cand})
        /\ Cardinality(Undocumented) \in Nat
        /\ Cardinality(Undocumented \cup {cand}) <= Cardinality(Undocumented) + 1
    BY FS_AddElement, FS_CardinalityType DEF LossesInStep
  <2>8. /\ IsFiniteSet(Undocumented')
        /\ Cardinality(Undocumented') \in Nat
        /\ Cardinality(Undocumented') <= Cardinality(Undocumented \cup {cand})
    BY <2>5, <2>7, FS_Subset, FS_CardinalityType
  <2>9. Cardinality(Undocumented') <= Cardinality(Undocumented) + VerdictLoss
    <3>1. CASE VerdictLoss = 0
      BY <2>6, <2>7, <3>1, NoNewLoss DEF LossesInStep
    <3>2. CASE VerdictLoss = 1
      <4>1. Cardinality(Undocumented \cup {cand}) \in Nat
        BY <2>7, FS_CardinalityType
      <4>2. QED
        BY <2>7, <2>8, <3>2, <4>1
    <3>3. QED
      BY <3>1, <3>2, LossTypes
  <2>10. TailLoss' = TailLoss /\ VerdictLoss' = 0
    BY <2>1 DEF TailLoss, VerdictLoss, L!EndsClean
  <2>11. (Cardinality(Undocumented) + TailLoss + VerdictLoss <= cuts)'
    BY <1>3, <1>5, <2>1, <2>7, <2>8, <2>9, <2>10, LossTypes
  <2>12. ledger.open = {}
    BY <2>1 DEF LossesInStep
  <2>13. QED
    BY <2>1, <2>8, <2>11, <2>12 DEF LossesInStep
<1>17. CASE UNCHANGED vars
  BY <1>17
  DEF vars, LossesInStep, Undocumented, Accepted, TailLoss, VerdictLoss, L!EndsClean
<1> QED
  BY <1>6, <1>7, <1>8, <1>9, <1>10, <1>11, <1>12, <1>14, <1>15, <1>16, <1>17
  DEF Next, Work

\* A node becomes pending when its candidate is taken in hand, and while
\* nothing fails the candidate is let go of only when it is settled.
LEMMA PendingStep ==
  ASSUME TypeOK, OutcomesInStep, PendingInHand, [Next]_vars
  PROVE  PendingInHand'
<1>1. pc # "down" => \A h \in Hyps : mem[h].status = disk[h].status
  BY DEF OutcomesInStep, TreesInStep
<1>2. pc \in OnCandidate => cand \in Hyps
  BY DEF TypeOK
<1>3. mem \in [Hyps -> Node] /\ failures \in Nat
  BY DEF TypeOK
<1>4. ASSUME failures' = failures + 1
      PROVE  PendingInHand'
  BY <1>3, <1>4 DEF PendingInHand
<1>5. ASSUME \A h \in Hyps : disk'[h].status = disk[h].status,
             failures' = failures,
             pc \notin {"contract", "shelve", "adversary", "settle"}
      PROVE  PendingInHand'
  BY <1>5 DEF PendingInHand
<1>6. CASE \/ Construct \/ StartRun \/ Prospect \/ Forge \/ CardDone \/ EndRound
           \/ Finish \/ \E h \in Hyps : SkipCandidate(h)
  BY <1>6, <1>5
  DEF Construct, StartRun, Prospect, Forge, CardDone, EndRound, Finish,
      SkipCandidate, files, history
<1>7. CASE \/ RaiseInStage \/ RaiseInAutopsy \/ Crash
           \/ \E v \in Verdict : JudgeCutShort(v)
  BY <1>7, <1>4 DEF RaiseInStage, RaiseInAutopsy, Crash, JudgeCutShort
<1>8. ASSUME NEW c \in Cards, TakeCard(c)
      PROVE  PendingInHand'
  BY <1>8, <1>1, <1>5 DEF TakeCard, history
<1>9. ASSUME NEW h \in Hyps, TakeCandidate(h)
      PROVE  PendingInHand'
  <2>1. /\ h \notin Present(mem) /\ pc = "candidates" /\ pc' = "contract"
        /\ cand' = h /\ failures' = failures
    BY <1>9 DEF TakeCandidate, Skippable, history
  <2>2. disk' = [mem EXCEPT ![h].status = "pending"]
    BY <1>9, <2>1 DEF TakeCandidate, SaveTree
  <2>3. \A g \in Hyps :
          disk'[g].status = IF g = h THEN "pending" ELSE disk[g].status
    BY <1>1, <1>3, <2>1, <2>2, StatusFacts
  <2>4. QED
    BY <2>1, <2>3 DEF PendingInHand
<1>10. CASE (\E r \in Regions : Freeze(r)) \/ (\E v \in Verdict : Judge(v))
  <2>1. /\ disk' = disk /\ failures' = failures /\ cand' = cand
        /\ pc' \in {"shelve", "adversary", "settle"}
    BY <1>10 DEF Freeze, Judge, files, history
  <2>2. QED
    BY <2>1 DEF PendingInHand
<1>11. ASSUME NEW s \in {"accepted", "pruned"}, cand \in Hyps,
              failures' = failures,
              \A g \in Hyps :
                disk'[g].status = IF g = cand THEN s ELSE disk[g].status
       PROVE  PendingInHand'
  BY <1>11 DEF PendingInHand
<1>12. CASE Shelve
  <2>1. failures' = failures /\ pc # "down" /\ cand \in Hyps
    BY <1>12, <1>2 DEF Shelve, OnCandidate, history
  <2>2. disk' = [mem EXCEPT ![cand].status = "pruned"]
    BY <1>12 DEF Shelve, SaveTree
  <2>3. \A g \in Hyps :
          disk'[g].status = IF g = cand THEN "pruned" ELSE disk[g].status
    BY <1>1, <1>3, <2>1, <2>2, StatusFacts
  <2>4. QED
    BY <1>11, <2>1, <2>3
<1>13. CASE ShelveRefs
  <2>1. failures' = failures /\ pc = "shelveRefs" /\ cand \in Hyps
    BY <1>13, <1>2 DEF ShelveRefs, OnCandidate, history
  <2>2. disk' = [mem EXCEPT ![cand].contract = TRUE]
    BY <1>13 DEF ShelveRefs, SaveTree
  <2>3. \A g \in Hyps : disk'[g].status = disk[g].status
    BY <1>1, <1>3, <2>1, <2>2, ContractFacts
  <2>4. QED
    BY <1>5, <2>1, <2>3
<1>14. CASE SettleUp
  <2>1. failures' = failures /\ pc # "down" /\ cand \in Hyps
    BY <1>14, <1>2 DEF SettleUp, OnCandidate, history
  <2>2. disk' = [mem EXCEPT ![cand] = [status |-> "accepted", contract |-> TRUE]]
    BY <1>14 DEF SettleUp, SaveTree
  <2>3. [status |-> "accepted", contract |-> TRUE] \in Node
    BY DEF Node
  <2>4. \A g \in Hyps :
          disk'[g].status = IF g = cand THEN "accepted" ELSE disk[g].status
    BY <1>1, <1>3, <2>1, <2>2, <2>3, NodeFacts
  <2>5. QED
    BY <1>11, <2>1, <2>4
<1>15. CASE SettleDown
  <2>1. failures' = failures /\ pc # "down" /\ cand \in Hyps
    BY <1>15, <1>2 DEF SettleDown, OnCandidate, history
  <2>2. disk' = [mem EXCEPT ![cand] = [status |-> "pruned", contract |-> TRUE]]
    BY <1>15 DEF SettleDown, SaveTree
  <2>3. [status |-> "pruned", contract |-> TRUE] \in Node
    BY DEF Node
  <2>4. \A g \in Hyps :
          disk'[g].status = IF g = cand THEN "pruned" ELSE disk[g].status
    BY <1>1, <1>3, <2>1, <2>2, <2>3, NodeFacts
  <2>5. QED
    BY <1>11, <2>1, <2>4
<1>16. CASE UNCHANGED vars
  BY <1>16 DEF vars, PendingInHand
<1> QED
  BY <1>6, <1>7, <1>8, <1>9, <1>10, <1>12, <1>13, <1>14, <1>15, <1>16
  DEF Next, Work

\* The inductive invariant holds in every reachable state.
THEOREM Invariance == Spec => []IInv
<1>1. IInv /\ [Next]_vars => IInv'
  BY TypeStep, OutcomesStep, RegionsStep, StallStep, LossesStep, PendingStep DEF IInv
<1> QED
  BY InvInit, <1>1, PTL DEF Spec

-----------------------------------------------------------------------------
(***************************************************************************)
(* The safety properties                                                   *)
(***************************************************************************)

\* No region takes more kills within a call of run than close it, for any
\* threshold.
THEOREM KillsAreBounded == Spec => []KillsBounded
<1>1. IInv => KillsBounded
  BY DEF IInv, RegionsInStep
<1> QED
  BY Invariance, <1>1, PTL

\* No round begins after "escalate", for any thresholds and number of rounds.
THEOREM EscalationHolds == Spec => []EscalationStops
<1>1. IInv => EscalationStops
  BY DEF IInv, StallInStep, EscalationStops
<1> QED
  BY Invariance, <1>1, PTL

\* Only what was judged UP is ever taken for accepted, for any number of
\* runs, crashes, failed calls and torn appends.
THEOREM AcceptedJudged == Spec => []AcceptedWereJudged
<1>1. IInv => AcceptedWereJudged
  BY DEF IInv, OutcomesInStep
<1> QED
  BY Invariance, <1>1, PTL

\* At most one accepted node per append that was cut short has no verdict in
\* the ledger file, for any number of crashes and torn appends.
THEOREM AcceptancesAreDocumented == Spec => []AcceptancesDocumented
<1>1. IInv => AcceptancesDocumented
  <2>1. ASSUME IInv
        PROVE  AcceptancesDocumented
    <3>1. /\ Cardinality(Undocumented) + TailLoss + VerdictLoss <= cuts
          /\ IsFiniteSet(Undocumented) /\ cuts \in Nat
      BY <2>1 DEF IInv, LossesInStep, TypeOK
    <3>2. Cardinality(Undocumented) \in Nat
      BY <3>1, FS_CardinalityType
    <3>3. QED
      BY <3>1, <3>2, LossTypes DEF AcceptancesDocumented
  <2>2. QED
    BY <2>1
<1> QED
  BY Invariance, <1>1, PTL

\* A call of run that ends without a failure leaves no hypothesis pending.
THEOREM NothingIsLeftOpen == Spec => []NothingLeftOpen
<1>1. IInv => NothingLeftOpen
  BY DEF IInv, PendingInHand, NothingLeftOpen
<1> QED
  BY Invariance, <1>1, PTL

-----------------------------------------------------------------------------
(***************************************************************************)
(* The refinement of HypothesisLifecycle                                   *)
(***************************************************************************)

\* A step that changes neither the statuses on disk nor the verdicts is a
\* stuttering step of the lifecycle.
LEMMA Stutter ==
  ASSUME \A h \in Hyps : disk'[h].status = disk[h].status, issued' = issued
  PROVE  UNCHANGED Lifecycle!vars
  BY DEF Lifecycle!vars

\* A step that settles one hypothesis shows as that change of one status.
LEMMA ShownStatus ==
  ASSUME NEW h \in Hyps, NEW s,
         \A g \in Hyps : disk'[g].status = IF g = h THEN s ELSE disk[g].status
  PROVE  [g \in Hyps |-> disk'[g].status]
           = [[g \in Hyps |-> disk[g].status] EXCEPT ![h] = s]
  OBVIOUS

\* The empty tree is the lifecycle's initial state.
LEMMA LifecycleInit == Init => Lifecycle!Init
  BY DEF Init, Lifecycle!Init, Absent

\* Every step is a step of the lifecycle or a stutter.
LEMMA LifecycleStep ==
  ASSUME TypeOK, OutcomesInStep, [Next]_vars
  PROVE  [Lifecycle!Next]_(Lifecycle!vars)
<1>1. \A h \in Hyps : pc # "down" => mem[h].status = disk[h].status
  BY DEF OutcomesInStep, TreesInStep
<1>2. pc \in OnCandidate => cand \in Hyps
  BY DEF TypeOK
<1>3. mem \in [Hyps -> Node] /\ disk \in [Hyps -> Node]
  BY DEF TypeOK
<1>4. ASSUME disk' = disk, issued' = issued
      PROVE  UNCHANGED Lifecycle!vars
  BY <1>4 DEF Lifecycle!vars
<1>5. CASE \/ Construct \/ StartRun \/ Prospect \/ Forge \/ CardDone \/ EndRound
           \/ \E h \in Hyps : SkipCandidate(h)
           \/ \E r \in Regions : Freeze(r)
  BY <1>5, <1>4
  DEF Construct, StartRun, Prospect, Forge, CardDone, EndRound, SkipCandidate,
      Freeze, files, history
<1>6. CASE Finish \/ RaiseInStage \/ RaiseInAutopsy \/ Crash
  BY <1>6, <1>4 DEF Finish, RaiseInStage, RaiseInAutopsy, Crash, files
<1>7. ASSUME NEW c \in Cards, TakeCard(c)
      PROVE  UNCHANGED Lifecycle!vars
  BY <1>7, <1>1, Stutter DEF TakeCard, history
<1>8. ASSUME NEW h \in Hyps, TakeCandidate(h)
      PROVE  Lifecycle!Next
  <2>1. h \notin Present(mem) /\ pc # "down"
    BY <1>8 DEF TakeCandidate, Skippable
  <2>2. disk' = [mem EXCEPT ![h].status = "pending"] /\ issued' = issued
    BY <1>8, <2>1 DEF TakeCandidate, SaveTree, history
  <2>3. \A g \in Hyps :
          disk'[g].status = IF g = h THEN "pending" ELSE disk[g].status
    BY <1>1, <1>3, <2>1, <2>2, StatusFacts
  <2>4. disk[h].status = "absent"
    BY <1>1, <2>1 DEF Present
  <2>5. Lifecycle!Propose(h)
    BY <2>2, <2>3, <2>4, ShownStatus DEF Lifecycle!Propose
  <2>6. QED
    BY <2>5 DEF Lifecycle!Next
<1>9. CASE Shelve
  <2>1. /\ cand \in Hyps /\ pc # "down"
        /\ disk[cand].status = "pending" /\ issued[cand] = <<>>
    BY <1>9, <1>2 DEF Shelve, OnCandidate, OutcomesInStep, CandidateInStep
  <2>2. disk' = [mem EXCEPT ![cand].status = "pruned"] /\ issued' = issued
    BY <1>9 DEF Shelve, SaveTree, history
  <2>3. \A g \in Hyps :
          disk'[g].status = IF g = cand THEN "pruned" ELSE disk[g].status
    BY <1>1, <1>3, <2>1, <2>2, StatusFacts
  <2>4. Lifecycle!Prune(cand)
    BY <2>1, <2>2, <2>3, ShownStatus DEF Lifecycle!Prune
  <2>5. QED
    BY <2>1, <2>4 DEF Lifecycle!Next, Lifecycle!Prune
<1>10. CASE ShelveRefs
  <2>1. cand \in Hyps /\ pc # "down"
    BY <1>10, <1>2 DEF ShelveRefs, OnCandidate
  <2>2. disk' = [mem EXCEPT ![cand].contract = TRUE] /\ issued' = issued
    BY <1>10 DEF ShelveRefs, SaveTree, history
  <2>3. \A g \in Hyps : disk'[g].status = disk[g].status
    BY <1>1, <1>3, <2>1, <2>2, ContractFacts
  <2>4. QED
    BY <2>2, <2>3, Stutter
<1>11. ASSUME NEW v \in Verdict, pc = "adversary", disk' = disk,
              issued' = [issued EXCEPT ![cand] = Append(@, v)]
       PROVE  Lifecycle!Next
  <2>1. cand \in Hyps /\ disk[cand].status = "pending" /\ issued[cand] = <<>>
    BY <1>11, <1>2 DEF OnCandidate, OutcomesInStep, CandidateInStep
  <2>2. issued' = [issued EXCEPT ![cand] = <<v>>]
    BY <1>11, <2>1, FirstVerdict DEF TypeOK
  <2>3. Lifecycle!Judge(cand, v)
    BY <1>11, <2>1, <2>2 DEF Lifecycle!Judge
  <2>4. QED
    BY <2>1, <2>3 DEF Lifecycle!Next, Verdict
<1>12. CASE \E v \in Verdict : Judge(v) \/ JudgeCutShort(v)
  BY <1>12, <1>11 DEF Judge, JudgeCutShort
<1>13. CASE SettleUp
  <2>1. /\ cand \in Hyps /\ pc # "down"
        /\ disk[cand].status = "pending" /\ issued[cand] = <<"UP">>
    BY <1>13, <1>2 DEF SettleUp, OnCandidate, OutcomesInStep, CandidateInStep
  <2>2. /\ disk' = [mem EXCEPT ![cand] = [status |-> "accepted", contract |-> TRUE]]
        /\ issued' = issued
    BY <1>13 DEF SettleUp, SaveTree, history
  <2>3. [status |-> "accepted", contract |-> TRUE] \in Node
    BY DEF Node
  <2>4. \A g \in Hyps :
          disk'[g].status = IF g = cand THEN "accepted" ELSE disk[g].status
    BY <1>1, <1>3, <2>1, <2>2, <2>3, NodeFacts
  <2>5. Lifecycle!Accept(cand)
    BY <2>1, <2>2, <2>4, ShownStatus DEF Lifecycle!Accept
  <2>6. QED
    BY <2>1, <2>5 DEF Lifecycle!Next, Lifecycle!Accept
<1>14. CASE SettleDown
  <2>1. /\ cand \in Hyps /\ pc # "down"
        /\ disk[cand].status = "pending" /\ issued[cand] = <<"DOWN">>
    BY <1>14, <1>2 DEF SettleDown, OnCandidate, OutcomesInStep, CandidateInStep
  <2>2. /\ disk' = [mem EXCEPT ![cand] = [status |-> "pruned", contract |-> TRUE]]
        /\ issued' = issued
    BY <1>14 DEF SettleDown, SaveTree, history
  <2>3. [status |-> "pruned", contract |-> TRUE] \in Node
    BY DEF Node
  <2>4. \A g \in Hyps :
          disk'[g].status = IF g = cand THEN "pruned" ELSE disk[g].status
    BY <1>1, <1>3, <2>1, <2>2, <2>3, NodeFacts
  <2>5. issued[cand] # <<"UP">>
    BY <2>1
  <2>6. Lifecycle!Prune(cand)
    BY <2>1, <2>2, <2>4, <2>5, ShownStatus DEF Lifecycle!Prune
  <2>7. QED
    BY <2>1, <2>6 DEF Lifecycle!Next, Lifecycle!Prune
<1>15. CASE UNCHANGED vars
  BY <1>15, <1>4 DEF vars
<1> QED
  BY <1>5, <1>6, <1>7, <1>8, <1>9, <1>10, <1>12, <1>13, <1>14, <1>15
  DEF Next, Work

\* The executor, with its ledger, tree, rounds and crashes, implements the
\* lifecycle of a hypothesis: judged at most once, settled as judged, for good.
THEOREM ExecutorIsALifecycle == Spec => ImplementsLifecycle
<1>1. IInv /\ [Next]_vars => [Lifecycle!Next]_(Lifecycle!vars)
  BY LifecycleStep DEF IInv
<1> QED
  BY Invariance, LifecycleInit, <1>1, PTL
  DEF Spec, ImplementsLifecycle, Lifecycle!Spec

-----------------------------------------------------------------------------
(***************************************************************************)
(* What failures may leave behind in the tree: hypotheses that were judged *)
(* and never settled, and closed nodes that never got their contract.      *)
(*                                                                         *)
(* Either set grows only when something fails, and then by the candidate   *)
(* in hand; the properties, which count that candidate too, follow.        *)
(***************************************************************************)

\* Judged and pending, and nobody is about to settle it.
Unsettled ==
  {h \in Hyps : /\ issued[h] # <<>> /\ disk[h].status = "pending"
                /\ ~(pc = "settle" /\ h = cand)}

\* Closed without a contract, and nobody is about to save it.
Bare ==
  {h \in Hyps : /\ disk[h].status \in {"accepted", "pruned"} /\ ~disk[h].contract
                /\ ~(pc = "shelveRefs" /\ h = cand)}

\* A contract that the file has is in memory as well, so that no later save of the
\* whole tree takes it away.
ContractsInStep ==
  pc # "down" => \A h \in Hyps : disk[h].contract => mem[h].contract

LeftInv ==
  /\ ContractsInStep
  /\ IsFiniteSet(Unsettled) /\ Cardinality(Unsettled) <= failures
  /\ IsFiniteSet(Bare) /\ Cardinality(Bare) <= failures

-----------------------------------------------------------------------------
(***************************************************************************)
(* Counting                                                                *)
(***************************************************************************)

\* A part of a finite set is finite and counts no more.
LEMMA Fewer ==
  ASSUME NEW S, IsFiniteSet(S), NEW T, T \subseteq S
  PROVE  /\ IsFiniteSet(T)
         /\ Cardinality(T) \in Nat /\ Cardinality(S) \in Nat
         /\ Cardinality(T) <= Cardinality(S)
  BY FS_Subset, FS_CardinalityType

\* One more element counts at most one more.
LEMMA OneMore ==
  ASSUME NEW S, IsFiniteSet(S), NEW x, NEW T, T \subseteq S \cup {x}
  PROVE  /\ IsFiniteSet(T)
         /\ Cardinality(T) \in Nat /\ Cardinality(S) \in Nat
         /\ Cardinality(T) <= Cardinality(S) + 1
<1>1. IsFiniteSet(S \cup {x}) /\ Cardinality(S) \in Nat
  BY FS_AddElement, FS_CardinalityType
<1>2. Cardinality(S \cup {x}) = IF x \in S THEN Cardinality(S) ELSE Cardinality(S) + 1
  BY FS_AddElement
<1>3. Cardinality(S \cup {x}) <= Cardinality(S) + 1
  <2>1. CASE x \in S
    BY <1>1, <1>2, <2>1
  <2>2. CASE x \notin S
    BY <1>1, <1>2, <2>2
  <2> QED
    BY <2>1, <2>2
<1>4. /\ IsFiniteSet(T) /\ Cardinality(T) \in Nat
      /\ Cardinality(S \cup {x}) \in Nat
      /\ Cardinality(T) <= Cardinality(S \cup {x})
  BY <1>1, Fewer
<1> QED
  BY <1>1, <1>3, <1>4

-----------------------------------------------------------------------------
(***************************************************************************)
(* Steps                                                                   *)
(***************************************************************************)

LEMMA LeftInit == Init => LeftInv
<1> SUFFICES ASSUME Init PROVE LeftInv
  OBVIOUS
<1>1. Unsettled = {} /\ Bare = {} /\ ContractsInStep
  BY DEF Init, Unsettled, Bare, ContractsInStep, Absent
<1> QED
  BY <1>1, FS_EmptySet DEF Init, LeftInv

\* A step that leaves tree file, verdicts and candidate alone leaves nothing.
LEMMA LeftAlone ==
  ASSUME pc \notin {"settle", "shelveRefs"}, UNCHANGED <<disk, issued>>
  PROVE  Unsettled' \subseteq Unsettled /\ Bare' \subseteq Bare
  BY DEF Unsettled, Bare

\* A save of the whole tree that changes one node, which is either not judged or
\* closed, and either not closed, or has its contract, or will be saved with it.
LEMMA SavedOne ==
  ASSUME pc # "down", ContractsInStep, NEW h \in Hyps,
         mem \in [Hyps -> Node],
         \A g \in Hyps : mem[g].status = disk[g].status,
         mem' = disk',
         \A g \in Hyps \ {h} : disk'[g] = mem[g],
         issued' = issued,
         issued[h] = <<>> \/ disk'[h].status # "pending",
         \/ disk'[h].status = "pending"
         \/ disk'[h].contract
         \/ pc' = "shelveRefs" /\ cand' = h,
         pc \in {"settle", "shelveRefs"} => h = cand
  PROVE  /\ ContractsInStep'
         /\ Unsettled' \subseteq Unsettled
         /\ Bare' \subseteq Bare
<1>1. \A g \in Hyps \ {h} : /\ disk'[g].status = disk[g].status
                            /\ disk[g].contract => disk'[g].contract
  BY DEF ContractsInStep
<1>2. \A g \in Hyps \ {h} : ~(pc \in {"settle", "shelveRefs"} /\ g = cand)
  OBVIOUS
<1>3. Unsettled' \subseteq Unsettled
  BY <1>1, <1>2 DEF Unsettled
<1>4. Bare' \subseteq Bare
  BY <1>1, <1>2 DEF Bare
<1> QED
  BY <1>1, <1>3, <1>4 DEF ContractsInStep

\* No step leaves anything behind unless something fails.
LEMMA NothingLeft ==
  ASSUME TypeOK, OutcomesInStep, ContractsInStep,
         Construct \/ StartRun \/ Work
  PROVE  /\ ContractsInStep'
         /\ Unsettled' \subseteq Unsettled
         /\ Bare' \subseteq Bare
         /\ failures' = failures
<1>1. /\ mem \in [Hyps -> Node] /\ disk \in [Hyps -> Node]
      /\ issued \in [Hyps -> Seq(Verdict)]
      /\ pc \in OnCandidate => cand \in Hyps
  BY DEF TypeOK
<1>2. pc # "down" => \A h \in Hyps : mem[h].status = disk[h].status
  BY DEF OutcomesInStep, TreesInStep
<1>3. CASE Construct \/ StartRun
  <2>1. /\ UNCHANGED <<disk, issued, failures>>
        /\ pc \notin {"settle", "shelveRefs"}
        /\ mem' = disk \/ (mem' = mem /\ pc # "down")
    BY <1>3 DEF Construct, StartRun, files, history
  <2> QED
    BY <2>1, LeftAlone DEF ContractsInStep
<1>4. ASSUME \/ Prospect \/ Forge \/ CardDone \/ EndRound \/ Finish
             \/ \E h \in Hyps : SkipCandidate(h)
             \/ \E r \in Regions : Freeze(r)
      PROVE  /\ ContractsInStep'
             /\ Unsettled' \subseteq Unsettled
             /\ Bare' \subseteq Bare
             /\ failures' = failures
  <2>1. /\ UNCHANGED <<disk, issued, failures, mem>>
        /\ pc \notin {"settle", "shelveRefs", "down"}
    BY <1>4 DEF Prospect, Forge, CardDone, EndRound, Finish, SkipCandidate, Freeze,
                files, history
  <2> QED
    BY <2>1, LeftAlone DEF ContractsInStep
<1>5. ASSUME NEW c \in Cards, TakeCard(c)
      PROVE  /\ ContractsInStep'
             /\ Unsettled' \subseteq Unsettled
             /\ Bare' \subseteq Bare
             /\ failures' = failures
  <2>1. /\ pc = "cards" /\ mem' = mem /\ UNCHANGED <<issued, failures>>
        /\ disk' = disk \/ disk' = mem
    BY <1>5 DEF TakeCard, history
  <2>2. \A h \in Hyps : /\ disk'[h].status = disk[h].status
                        /\ disk[h].contract => disk'[h].contract
                        /\ disk'[h].contract => mem[h].contract
    BY <1>2, <2>1 DEF ContractsInStep
  <2> QED
    BY <2>1, <2>2 DEF ContractsInStep, Unsettled, Bare
<1>6. ASSUME NEW h \in Hyps, TakeCandidate(h)
      PROVE  /\ ContractsInStep'
             /\ Unsettled' \subseteq Unsettled
             /\ Bare' \subseteq Bare
             /\ failures' = failures
  <2>1. /\ pc = "candidates" /\ UNCHANGED <<issued, failures>>
        /\ h \notin Present(mem)
        /\ mem' = [mem EXCEPT ![h].status = "pending"] /\ disk' = mem'
    BY <1>6 DEF TakeCandidate, Skippable, SaveTree, history
  <2>2. issued[h] = <<>>
    BY <1>2, <2>1 DEF OutcomesInStep, StatusFollowsVerdict, Present
  <2>3. /\ \A g \in Hyps \ {h} : disk'[g] = mem[g]
        /\ disk'[h].status = "pending" /\ mem'[h].contract = mem[h].contract
    BY <1>1, <2>1 DEF Node
  <2> QED
    BY <1>1, <1>2, <2>1, <2>2, <2>3, SavedOne DEF ContractsInStep
<1>7. CASE Shelve
  <2>1. /\ pc = "shelve" /\ pc' = "shelveRefs" /\ cand' = cand
        /\ UNCHANGED <<issued, failures>>
        /\ mem' = [mem EXCEPT ![cand].status = "pruned"] /\ disk' = mem'
    BY <1>7 DEF Shelve, SaveTree, locals, history
  <2>2. cand \in Hyps
    BY <1>1, <2>1 DEF OnCandidate
  <2>3. /\ \A g \in Hyps \ {cand} : disk'[g] = mem[g]
        /\ disk'[cand].status = "pruned" /\ mem'[cand].contract = mem[cand].contract
    BY <1>1, <2>1, <2>2 DEF Node
  <2> QED
    BY <1>1, <1>2, <2>1, <2>2, <2>3, SavedOne DEF ContractsInStep
<1>8. CASE ShelveRefs
  <2>1. /\ pc = "shelveRefs" /\ UNCHANGED <<issued, failures>>
        /\ mem' = [mem EXCEPT ![cand].contract = TRUE] /\ disk' = mem'
        /\ pc' = "candidates"
    BY <1>8 DEF ShelveRefs, SaveTree, NextCandidate, history
  <2>2. cand \in Hyps
    BY <1>1, <2>1 DEF OnCandidate
  <2>3. /\ \A g \in Hyps \ {cand} : disk'[g] = mem[g]
        /\ disk'[cand].contract /\ disk'[cand].status = mem[cand].status
    BY <1>1, <2>1, <2>2 DEF Node
  <2>4. \A g \in Hyps : disk'[g].status = disk[g].status
    BY <1>2, <2>1, <2>3
  <2>5. \A g \in Hyps : disk[g].contract => disk'[g].contract
    BY <2>1, <2>3 DEF ContractsInStep
  <2> QED
    BY <2>1, <2>3, <2>4, <2>5 DEF ContractsInStep, Unsettled, Bare
<1>9. ASSUME NEW v \in Verdict, Judge(v)
      PROVE  /\ ContractsInStep'
             /\ Unsettled' \subseteq Unsettled
             /\ Bare' \subseteq Bare
             /\ failures' = failures
  <2>1. /\ pc = "adversary" /\ pc' = "settle" /\ UNCHANGED <<mem, disk, cand, failures>>
        /\ issued' = [issued EXCEPT ![cand] = Append(@, v)]
    BY <1>9 DEF Judge
  <2>2. \A g \in Hyps \ {cand} : issued'[g] = issued[g]
    BY <1>1, <2>1
  <2> QED
    BY <2>1, <2>2 DEF ContractsInStep, Unsettled, Bare
<1>10. CASE SettleUp \/ SettleDown
  <2> DEFINE n == [status |-> IF SettleUp THEN "accepted" ELSE "pruned", contract |-> TRUE]
  <2>1. mem' = [mem EXCEPT ![cand] = n] /\ disk' = mem'
    BY <1>10 DEF SettleUp, SettleDown, SaveTree
  <2>2. pc = "settle" /\ UNCHANGED <<issued, failures>>
    BY <1>10 DEF SettleUp, SettleDown, history
  <2>3. cand \in Hyps
    BY <1>1, <2>2 DEF OnCandidate
  <2>4. (\A g \in Hyps \ {cand} : disk'[g] = mem[g]) /\ disk'[cand] = n
    BY <1>1, <2>1, <2>3
  <2> QED
    BY <1>1, <1>2, <2>1, <2>2, <2>3, <2>4, SavedOne
<1> QED
  BY <1>3, <1>4, <1>5, <1>6, <1>7, <1>8, <1>9, <1>10 DEF Work

\* A failure leaves at most the candidate in hand.
LEMMA FailureLeavesOne ==
  ASSUME TypeOK, ContractsInStep,
         \/ RaiseInStage \/ RaiseInAutopsy \/ Crash
         \/ \E v \in Verdict : JudgeCutShort(v)
  PROVE  /\ ContractsInStep'
         /\ Unsettled' \subseteq Unsettled \cup {cand}
         /\ Bare' \subseteq Bare \cup {cand}
         /\ failures' = failures + 1
<1>1. disk' = disk /\ failures' = failures + 1
  BY DEF RaiseInStage, RaiseInAutopsy, Crash, JudgeCutShort, files
<1>2. \A h \in Hyps \ {cand} : issued'[h] = issued[h]
  BY DEF TypeOK, RaiseInStage, RaiseInAutopsy, Crash, JudgeCutShort
<1>3. ContractsInStep'
  <2>1. CASE Crash
    BY <2>1 DEF Crash, Leave, ContractsInStep
  <2>2. CASE RaiseInStage
    BY <2>2 DEF RaiseInStage, files, ContractsInStep
  <2>3. CASE RaiseInAutopsy
    <3>1. /\ pc # "down" /\ disk' = disk
          /\ mem' = [mem EXCEPT ![cand].contract = TRUE]
      BY <2>3 DEF RaiseInAutopsy, files
    <3>2. \A h \in Hyps : mem[h].contract => mem'[h].contract
      BY <3>1 DEF TypeOK, Node
    <3> QED
      BY <3>1, <3>2 DEF ContractsInStep
  <2>4. ASSUME NEW v \in Verdict, JudgeCutShort(v)
        PROVE  ContractsInStep'
    BY <2>4 DEF JudgeCutShort, Leave, ContractsInStep
  <2> QED
    BY <2>1, <2>2, <2>3, <2>4
<1>4. Unsettled' \subseteq Unsettled \cup {cand}
  BY <1>1, <1>2 DEF Unsettled
<1>5. Bare' \subseteq Bare \cup {cand}
  BY <1>1 DEF Bare
<1> QED
  BY <1>1, <1>3, <1>4, <1>5

\* Every step keeps what is left behind within the failures so far.
LEMMA LeftStep ==
  ASSUME IInv, LeftInv, [Next]_vars
  PROVE  LeftInv'
<1>1. failures \in Nat /\ TypeOK /\ OutcomesInStep
  BY DEF IInv, TypeOK
<1>2. /\ ContractsInStep
      /\ IsFiniteSet(Unsettled) /\ Cardinality(Unsettled) <= failures
      /\ IsFiniteSet(Bare) /\ Cardinality(Bare) <= failures
  BY DEF LeftInv
<1>3. CASE Construct \/ StartRun \/ Work
  <2>1. /\ ContractsInStep' /\ failures' = failures
        /\ Unsettled' \subseteq Unsettled /\ Bare' \subseteq Bare
    BY <1>1, <1>2, <1>3, NothingLeft
  <2>2. IsFiniteSet(Unsettled') /\ Cardinality(Unsettled') <= failures
    BY <1>1, <1>2, <2>1, Fewer
  <2>3. IsFiniteSet(Bare') /\ Cardinality(Bare') <= failures
    BY <1>1, <1>2, <2>1, Fewer
  <2> QED
    BY <2>1, <2>2, <2>3 DEF LeftInv
<1>4. CASE \/ RaiseInStage \/ RaiseInAutopsy \/ Crash
           \/ \E v \in Verdict : JudgeCutShort(v)
  <2>1. /\ ContractsInStep' /\ failures' = failures + 1
        /\ Unsettled' \subseteq Unsettled \cup {cand}
        /\ Bare' \subseteq Bare \cup {cand}
    BY <1>1, <1>2, <1>4, FailureLeavesOne
  <2>2. IsFiniteSet(Unsettled') /\ Cardinality(Unsettled') <= failures + 1
    <3>1. /\ IsFiniteSet(Unsettled') /\ Cardinality(Unsettled') \in Nat /\ Cardinality(Unsettled) \in Nat
          /\ Cardinality(Unsettled') <= Cardinality(Unsettled) + 1
      BY <1>2, <2>1, OneMore
    <3> QED
      BY <1>1, <1>2, <3>1
  <2>3. IsFiniteSet(Bare') /\ Cardinality(Bare') <= failures + 1
    <3>1. /\ IsFiniteSet(Bare') /\ Cardinality(Bare') \in Nat /\ Cardinality(Bare) \in Nat
          /\ Cardinality(Bare') <= Cardinality(Bare) + 1
      BY <1>2, <2>1, OneMore
    <3> QED
      BY <1>1, <1>2, <3>1
  <2> QED
    BY <2>1, <2>2, <2>3 DEF LeftInv
<1>5. CASE UNCHANGED vars
  <2>1. UNCHANGED <<ContractsInStep, Unsettled, Bare, failures>>
    BY <1>5 DEF vars, ContractsInStep, Unsettled, Bare
  <2> QED
    BY <1>2, <2>1 DEF LeftInv
<1> QED
  BY <1>3, <1>4, <1>5 DEF Next

LEMMA LeftHolds == Spec => [](IInv /\ LeftInv)
<1>1. Init => LeftInv
  BY LeftInit
<1>2. IInv /\ LeftInv /\ [Next]_vars => LeftInv'
  BY LeftStep
<1> QED
  BY <1>1, <1>2, Invariance, PTL DEF Spec

-----------------------------------------------------------------------------
\* However many runs, crashes, torn appends and answers of the wrong shape there
\* are, each leaves at most one hypothesis that was judged and is not settled.
THEOREM JudgedSettled == Spec => []JudgedAreSettled
<1>1. IInv /\ LeftInv => JudgedAreSettled
  <2> SUFFICES ASSUME IInv, LeftInv PROVE JudgedAreSettled
    OBVIOUS
  <2> DEFINE open == {h \in Hyps : issued[h] # <<>> /\ disk[h].status = "pending"}
  <2>1. failures \in Nat /\ IsFiniteSet(Unsettled) /\ Cardinality(Unsettled) <= failures
    BY DEF IInv, TypeOK, LeftInv
  <2>2. CASE pc = "settle"
    <3>1. open \subseteq Unsettled \cup {cand}
      BY DEF Unsettled
    <3>2. /\ Cardinality(open) \in Nat /\ Cardinality(Unsettled) \in Nat
          /\ Cardinality(open) <= Cardinality(Unsettled) + 1
      BY <2>1, <3>1, OneMore
    <3>3. Cardinality(open) <= failures + 1
      BY <2>1, <3>2
    <3> QED
      BY <2>2, <3>3 DEF JudgedAreSettled
  <2>3. CASE pc # "settle"
    <3>1. open \subseteq Unsettled
      BY <2>3 DEF Unsettled
    <3>2. Cardinality(open) <= failures + 0
      BY <2>1, <3>1, Fewer
    <3> QED
      BY <2>3, <3>2 DEF JudgedAreSettled
  <2> QED
    BY <2>2, <2>3
<1> QED
  BY <1>1, LeftHolds, PTL

\* However many runs and failures there are, each failure leaves at most one closed
\* node without its contract.
THEOREM ContractsReachClosed == Spec => []ClosedHaveContracts
<1>1. IInv /\ LeftInv => ClosedHaveContracts
  <2> SUFFICES ASSUME IInv, LeftInv PROVE ClosedHaveContracts
    OBVIOUS
  <2> DEFINE bare ==
        {h \in Hyps : disk[h].status \in {"accepted", "pruned"} /\ ~disk[h].contract}
  <2>1. failures \in Nat /\ IsFiniteSet(Bare) /\ Cardinality(Bare) <= failures
    BY DEF IInv, TypeOK, LeftInv
  <2>2. CASE pc = "shelveRefs"
    <3>1. bare \subseteq Bare \cup {cand}
      BY DEF Bare
    <3>2. /\ Cardinality(bare) \in Nat /\ Cardinality(Bare) \in Nat
          /\ Cardinality(bare) <= Cardinality(Bare) + 1
      BY <2>1, <3>1, OneMore
    <3>3. Cardinality(bare) <= failures + 1
      BY <2>1, <3>2
    <3> QED
      BY <2>2, <3>3 DEF ClosedHaveContracts
  <2>3. CASE pc # "shelveRefs"
    <3>1. bare \subseteq Bare
      BY <2>3 DEF Bare
    <3>2. Cardinality(bare) <= failures + 0
      BY <2>1, <3>1, Fewer
    <3> QED
      BY <2>3, <3>2 DEF ClosedHaveContracts
  <2> QED
    BY <2>2, <2>3
<1> QED
  BY <1>1, LeftHolds, PTL
=============================================================================
