------------------------- MODULE HypothesisExecutor -------------------------
(***************************************************************************)
(* HypothesisExecutor.run of hypothesis/executor.py: rounds of prospect,   *)
(* forge, contract, adversary, scoring and autopsy over one topic, and     *)
(* what they write to the idea tree and to the verdict ledger, with the    *)
(* process dying between any two writes and the topic being run again.     *)
(*                                                                         *)
(* What the models answer is a choice: how many cards and candidates there *)
(* are, which nodes they name (a node id is a digest of the text, so that  *)
(* a repeated answer names the same node), the latent root that a contract *)
(* names, the verdict, and answers of the wrong shape, which raise.        *)
(***************************************************************************)
EXTENDS Integers, Sequences, FiniteSets

CONSTANTS
  Cards,                \* ids that card nodes may get
  Hyps,                 \* ids that hypothesis nodes may get
  CardOf,               \* the card each hypothesis id is a digest of
  Regions,              \* latent roots
  MaxRounds, MaxCards, MaxCandidates,   \* HypothesisConfig
  EscalateAt, Threshold,                \* escalate_at, region_close_threshold
  MaxRuns,              \* bound: calls of run in a behaviour
  MaxFailures           \* bound: crashes and failed calls in a behaviour

ASSUME CardOfAssumption == CardOf \in [Hyps -> Cards]
ASSUME ConfigAssumption ==
  /\ MaxRounds \in Nat \ {0}
  /\ MaxCards \in Nat
  /\ MaxCandidates \in Nat
  /\ EscalateAt \in Nat \ {0}
  /\ Threshold \in Nat \ {0}
ASSUME BoundsAssumption == MaxRuns \in Nat /\ MaxFailures \in Nat

NoCard == "no card"
NoHyp == "no hypothesis"
NoRegion == "no region"

ASSUME NoneAssumption == NoCard \notin Cards /\ NoHyp \notin Hyps /\ NoRegion \notin Regions

VARIABLES
  pc,                   \* "down", "ready" between calls of run, or a stage
  mem, disk,            \* hypothesis nodes in session.tree and its file
  cards,                \* card nodes in both
  ledger,               \* verdict-ledger.jsonl, as module LedgerFile has it
  entries,              \* _ledger._entries, as a set
  accepted,             \* accepted_ids
  kills,                \* RegionTracker._kills
  stall,                \* StallLedger._stall_count
  round,                \* round_n
  fresh,                \* new_accepted_this_round > 0
  cardsLeft, card,      \* cards of this round to come, and the one in hand
  candsLeft, cand,      \* candidates of this card to come, and the one in hand
  region, ruling        \* of the candidate in hand

\* History; no guard reads it, except for the bounds.
VARIABLES
  issued,               \* verdicts issued on each hypothesis, in order
  skipped,              \* hypotheses skipped because their node exists
  cuts,                 \* ledger appends that were cut short
  runs, failures

locals == <<accepted, kills, stall, round, fresh, cardsLeft, card, candsLeft,
            cand, region, ruling>>
files == <<disk, cards, ledger>>
history == <<issued, skipped, cuts, runs, failures>>
vars == <<pc, mem, disk, cards, ledger, entries, accepted, kills, stall, round,
          fresh, cardsLeft, card, candsLeft, cand, region, ruling,
          issued, skipped, cuts, runs, failures>>

-----------------------------------------------------------------------------
Verdict == {"UP", "DOWN"}

L == INSTANCE LedgerFile WITH Entry <- Hyps \X Verdict

\* A hypothesis node; contract says whether refs["contract"] is on it.
Node == [status : {"absent", "pending", "accepted", "pruned"}, contract : BOOLEAN]

Absent == [status |-> "absent", contract |-> FALSE]

Stages == {"prospect", "cards", "forge", "candidates", "contract", "shelve",
           "shelveRefs", "adversary", "settle", "advance"}

\* Stages with a card, and with a candidate, in hand.
OnCard == {"forge", "candidates"}
OnCandidate == {"contract", "shelve", "shelveRefs", "adversary", "settle"}

TypeOK ==
  /\ pc \in {"down", "ready"} \cup Stages
  /\ mem \in [Hyps -> Node]
  /\ disk \in [Hyps -> Node]
  /\ cards \in SUBSET Cards
  /\ ledger \in L!Ledger
  /\ entries \in SUBSET (Hyps \X Verdict)
  /\ accepted \in SUBSET Hyps
  /\ kills \in [Regions -> Nat]
  /\ stall \in Nat
  /\ round \in 0 .. MaxRounds - 1
  /\ fresh \in BOOLEAN
  /\ cardsLeft \in 0 .. MaxCards
  /\ card \in (IF pc \in OnCard \cup OnCandidate THEN Cards ELSE {NoCard})
  /\ candsLeft \in (IF pc \in OnCandidate THEN 1 ELSE 0) .. MaxCandidates
  /\ cand \in (IF pc \in OnCandidate THEN Hyps ELSE {NoHyp})
  /\ region \in (IF pc \in OnCandidate \ {"contract"} THEN Regions ELSE {NoRegion})
  /\ ruling \in (IF pc = "settle" THEN Verdict ELSE {"none"})
  /\ issued \in [Hyps -> Seq(Verdict)]
  /\ skipped \in SUBSET Hyps
  /\ cuts \in Nat
  /\ runs \in Nat
  /\ failures \in Nat

Init ==
  /\ pc = "down"
  /\ mem = [h \in Hyps |-> Absent]
  /\ disk = [h \in Hyps |-> Absent]
  /\ cards = {}
  /\ ledger = L!Empty
  /\ entries = {}
  /\ accepted = {}
  /\ kills = [r \in Regions |-> 0]
  /\ stall = 0
  /\ round = 0
  /\ fresh = FALSE
  /\ cardsLeft = 0
  /\ card = NoCard
  /\ candsLeft = 0
  /\ cand = NoHyp
  /\ region = NoRegion
  /\ ruling = "none"
  /\ issued = [h \in Hyps |-> <<>>]
  /\ skipped = {}
  /\ cuts = 0
  /\ runs = 0
  /\ failures = 0

-----------------------------------------------------------------------------
(***************************************************************************)
(* Helpers                                                                 *)
(***************************************************************************)

Present(t) == {h \in Hyps : t[h].status # "absent"}
Accepted(t) == {h \in Hyps : t[h].status = "accepted"}

\* VerdictLedger.accepted_node_ids
UpIn(es) == {h \in Hyps : <<h, "UP">> \in es}

\* RegionTracker.is_closed
Closed(r) == kills[r] >= Threshold

\* A change of hypothesis nodes and the save() it ends in.
SaveTree(t) ==
  /\ mem' = t
  /\ disk' = t

\* The candidate is done with; on to the next one of the same card.
NextCandidate ==
  /\ pc' = "candidates"
  /\ candsLeft' = candsLeft - 1
  /\ cand' = NoHyp
  /\ region' = NoRegion
  /\ ruling' = "none"

-----------------------------------------------------------------------------
(***************************************************************************)
(* The process and the calls of run                                        *)
(***************************************************************************)

\* A process loads the session and constructs the executor and its ledger.
Construct ==
  /\ pc = "down"
  /\ pc' = "ready"
  /\ mem' = disk
  /\ entries' = ledger.readable
  /\ UNCHANGED <<files, locals, history>>

\* run: what is accepted already is read from the ledger and from the tree;
\* the region tracker and the stall ledger start anew.
StartRun ==
  /\ pc = "ready"
  /\ runs < MaxRuns
  /\ runs' = runs + 1
  /\ accepted' = UpIn(entries) \cup Accepted(mem)
  /\ pc' = "prospect"
  /\ UNCHANGED <<mem, files, entries, kills, stall, round, fresh, cardsLeft,
                 card, candsLeft, cand, region, ruling,
                 issued, skipped, cuts, failures>>

\* The call of run is over, and its locals with it.
Leave(where) ==
  /\ pc' = where
  /\ accepted' = {}
  /\ kills' = [r \in Regions |-> 0]
  /\ stall' = 0
  /\ round' = 0
  /\ fresh' = FALSE
  /\ cardsLeft' = 0
  /\ card' = NoCard
  /\ candsLeft' = 0
  /\ cand' = NoHyp
  /\ region' = NoRegion
  /\ ruling' = "none"

\* advance_step, and the result "done".
Finish ==
  /\ pc = "advance"
  /\ Leave("ready")
  /\ UNCHANGED <<mem, files, entries, issued, skipped, cuts, runs, failures>>

\* An answer of the wrong shape raises out of run_prospect or run_forge, or,
\* when it is a derivation's, out of the gates of run_adversary or, with the
\* verdict already in the ledger, out of score_hypothesis; run turns it into
\* an error result.
RaiseInStage ==
  /\ pc \in {"prospect", "forge", "adversary", "settle"}
  /\ failures < MaxFailures
  /\ failures' = failures + 1
  /\ Leave("ready")
  /\ UNCHANGED <<mem, files, entries, issued, skipped, cuts, runs>>

Crash ==
  /\ pc # "down"
  /\ failures < MaxFailures
  /\ failures' = failures + 1
  /\ Leave("down")
  /\ mem' = [h \in Hyps |-> Absent]
  /\ entries' = {}
  /\ UNCHANGED <<files, issued, skipped, cuts, runs>>

-----------------------------------------------------------------------------
(***************************************************************************)
(* The stages of a round                                                   *)
(***************************************************************************)

\* run_prospect returns at most MaxCards cards.
Prospect ==
  /\ pc = "prospect"
  /\ cardsLeft' \in 0 .. MaxCards
  /\ fresh' = FALSE
  /\ pc' = "cards"
  /\ UNCHANGED <<mem, files, entries, accepted, kills, stall, round, card,
                 candsLeft, cand, region, ruling, history>>

\* A card is taken up; its node is added, and the tree saved, unless it is there.
TakeCard(c) ==
  /\ pc = "cards"
  /\ cardsLeft > 0
  /\ cardsLeft' = cardsLeft - 1
  /\ card' = c
  /\ cards' = cards \cup {c}
  /\ disk' = IF c \in cards THEN disk ELSE mem
  /\ pc' = "forge"
  /\ UNCHANGED <<mem, ledger, entries, accepted, kills, stall, round,
                 fresh, candsLeft, cand, region, ruling, history>>

\* run_forge returns at most MaxCandidates candidates.
Forge ==
  /\ pc = "forge"
  /\ candsLeft' \in 0 .. MaxCandidates
  /\ pc' = "candidates"
  /\ UNCHANGED <<mem, files, entries, accepted, kills, stall, round, fresh,
                 cardsLeft, card, cand, region, ruling, history>>

\* Fault: a node is skipped only when a verdict was recorded on it.
SkippableWhenSettled(h) == h \in accepted \/ mem[h].status \in {"accepted", "pruned"}

\* The two resume guards.  build_hyp_refs puts the key "verdict" on every
\* hypothesis node, so the second one holds of each node that exists.
Skippable(h) == h \in accepted \/ h \in Present(mem)

\* Fault: for a candidate that is skipped the forge is asked again.
SkipAndReforge(h) ==
  /\ pc = "candidates"
  /\ candsLeft > 0
  /\ CardOf[h] = card
  /\ Skippable(h)
  /\ pc' = "forge"
  /\ skipped' = skipped \cup {h}
  /\ UNCHANGED <<mem, files, entries, accepted, kills, stall, round, fresh,
                 cardsLeft, card, candsLeft, cand, region, ruling,
                 issued, cuts, runs, failures>>

SkipCandidate(h) ==
  /\ pc = "candidates"
  /\ candsLeft > 0
  /\ CardOf[h] = card
  /\ Skippable(h)
  /\ candsLeft' = candsLeft - 1
  /\ skipped' = skipped \cup {h}
  /\ UNCHANGED <<pc, mem, files, entries, accepted, kills, stall, round, fresh,
                 cardsLeft, card, cand, region, ruling,
                 issued, cuts, runs, failures>>

\* The hypothesis node is added, if there is none.
TakeCandidate(h) ==
  /\ pc = "candidates"
  /\ candsLeft > 0
  /\ CardOf[h] = card
  /\ ~Skippable(h)
  /\ IF h \in Present(mem)
     THEN UNCHANGED <<mem, disk>>
     ELSE SaveTree([mem EXCEPT ![h].status = "pending"])
  /\ cand' = h
  /\ pc' = "contract"
  /\ UNCHANGED <<cards, ledger, entries, accepted, kills, stall, round, fresh,
                 cardsLeft, card, candsLeft, region, ruling, history>>

CardDone ==
  /\ pc = "candidates"
  /\ candsLeft = 0
  /\ card' = NoCard
  /\ pc' = "cards"
  /\ UNCHANGED <<mem, files, entries, accepted, kills, stall, round, fresh,
                 cardsLeft, candsLeft, cand, region, ruling, history>>

\* Fault: closed regions are not looked at.
FreezeAnyRegion(r) ==
  /\ pc = "contract"
  /\ region' = r
  /\ pc' = "adversary"
  /\ UNCHANGED <<mem, files, entries, accepted, kills, stall, round, fresh,
                 cardsLeft, card, candsLeft, cand, ruling, history>>

\* freeze_contract names the region; a closed one is not put to the adversary.
Freeze(r) ==
  /\ pc = "contract"
  /\ region' = r
  /\ pc' = IF Closed(r) THEN "shelve" ELSE "adversary"
  /\ UNCHANGED <<mem, files, entries, accepted, kills, stall, round, fresh,
                 cardsLeft, card, candsLeft, cand, ruling, history>>

\* Fault: a candidate in a closed region is passed over and left as it is.
PassOver ==
  /\ pc = "shelve"
  /\ pc' = "shelveRefs"
  /\ UNCHANGED <<mem, files, entries, locals, history>>

\* A candidate in a closed region: pruned and saved ...
Shelve ==
  /\ pc = "shelve"
  /\ SaveTree([mem EXCEPT ![cand].status = "pruned"])
  /\ pc' = "shelveRefs"
  /\ UNCHANGED <<cards, ledger, entries, locals, history>>

\* Fault: the references are not saved.
ShelveRefsInMemory ==
  /\ pc = "shelveRefs"
  /\ mem' = [mem EXCEPT ![cand].contract = TRUE]
  /\ NextCandidate
  /\ UNCHANGED <<disk, cards, ledger, entries, accepted, kills, stall, round, fresh,
                 cardsLeft, card, history>>

\* ... and then given its references and saved again.
ShelveRefs ==
  /\ pc = "shelveRefs"
  /\ SaveTree([mem EXCEPT ![cand].contract = TRUE])
  /\ NextCandidate
  /\ UNCHANGED <<cards, ledger, entries, accepted, kills, stall, round, fresh,
                 cardsLeft, card, history>>

\* Fault: the verdict is not appended to the ledger.
JudgeOffLedger(v) ==
  /\ pc = "adversary"
  /\ ruling' = v
  /\ issued' = [issued EXCEPT ![cand] = Append(@, v)]
  /\ pc' = "settle"
  /\ UNCHANGED <<mem, files, entries, accepted, kills, stall, round, fresh,
                 cardsLeft, card, candsLeft, cand, region,
                 skipped, cuts, runs, failures>>

\* run_adversary gives a verdict, and it is appended to the ledger.
Judge(v) ==
  /\ pc = "adversary"
  /\ ruling' = v
  /\ issued' = [issued EXCEPT ![cand] = Append(@, v)]
  /\ ledger' = L!Appended(ledger, <<cand, v>>)
  /\ entries' = entries \cup {<<cand, v>>}
  /\ pc' = "settle"
  /\ UNCHANGED <<mem, disk, cards, accepted, kills, stall, round, fresh,
                 cardsLeft, card, candsLeft, cand, region,
                 skipped, cuts, runs, failures>>

\* The append of the verdict is cut short, by an OSError that run turns into
\* an error result (the entry stays in the cache) or by the process's death.
JudgeCutShort(v) ==
  /\ pc = "adversary"
  /\ failures < MaxFailures
  /\ failures' = failures + 1
  /\ cuts' = cuts + 1
  /\ issued' = [issued EXCEPT ![cand] = Append(@, v)]
  /\ ledger' \in L!CutShort(ledger, <<cand, v>>)
  /\ \/ /\ Leave("ready")
        /\ entries' = entries \cup {<<cand, v>>}
        /\ UNCHANGED mem
     \/ /\ Leave("down")
        /\ entries' = {}
        /\ mem' = [h \in Hyps |-> Absent]
  /\ UNCHANGED <<disk, cards, skipped, runs>>

\* Fault: the accepted node is not saved.
SettleUpInMemory ==
  /\ pc = "settle"
  /\ ruling = "UP"
  /\ mem' = [mem EXCEPT ![cand] = [status |-> "accepted", contract |-> TRUE]]
  /\ accepted' = accepted \cup {cand}
  /\ fresh' = TRUE
  /\ NextCandidate
  /\ UNCHANGED <<disk, cards, ledger, entries, kills, stall, round, cardsLeft, card, history>>

\* UP: references and status go to disk in one save.
SettleUp ==
  /\ pc = "settle"
  /\ ruling = "UP"
  /\ SaveTree([mem EXCEPT ![cand] = [status |-> "accepted", contract |-> TRUE]])
  /\ accepted' = accepted \cup {cand}
  /\ fresh' = TRUE
  /\ NextCandidate
  /\ UNCHANGED <<cards, ledger, entries, kills, stall, round, cardsLeft, card, history>>

\* DOWN: references and status in one save, and the kill is counted.
SettleDown ==
  /\ pc = "settle"
  /\ ruling = "DOWN"
  /\ SaveTree([mem EXCEPT ![cand] = [status |-> "pruned", contract |-> TRUE]])
  /\ kills' = [kills EXCEPT ![region] = @ + 1]
  /\ NextCandidate
  /\ UNCHANGED <<cards, ledger, entries, accepted, stall, round, fresh,
                 cardsLeft, card, history>>

\* DOWN with reasons that are not strings: classify_kill raises, after the
\* references were put on the node in memory and before it is saved.
RaiseInAutopsy ==
  /\ pc = "settle"
  /\ ruling = "DOWN"
  /\ failures < MaxFailures
  /\ failures' = failures + 1
  /\ mem' = [mem EXCEPT ![cand].contract = TRUE]
  /\ Leave("ready")
  /\ UNCHANGED <<files, entries, issued, skipped, cuts, runs>>

\* StallLedger.record_round
StallAfter == IF fresh THEN 0 ELSE stall + 1

\* The loop ends by its range or by "escalate".
LastRound == StallAfter >= EscalateAt \/ round + 1 = MaxRounds

EndRound ==
  /\ pc = "cards"
  /\ cardsLeft = 0
  /\ stall' = StallAfter
  /\ IF LastRound
     THEN pc' = "advance" /\ UNCHANGED round
     ELSE pc' = "prospect" /\ round' = round + 1
  /\ UNCHANGED <<mem, files, entries, accepted, kills, fresh, cardsLeft, card,
                 candsLeft, cand, region, ruling, issued, skipped, cuts, runs, failures>>

-----------------------------------------------------------------------------
\* What a call of run does when nothing fails.
Work ==
  \/ Prospect
  \/ \E c \in Cards : TakeCard(c)
  \/ Forge
  \/ \E h \in Hyps : SkipCandidate(h) \/ TakeCandidate(h)
  \/ CardDone
  \/ \E r \in Regions : Freeze(r)
  \/ Shelve
  \/ ShelveRefs
  \/ \E v \in Verdict : Judge(v)
  \/ SettleUp
  \/ SettleDown
  \/ EndRound
  \/ Finish

Next ==
  \/ Construct
  \/ StartRun
  \/ Work
  \/ RaiseInStage
  \/ \E v \in Verdict : JudgeCutShort(v)
  \/ RaiseInAutopsy
  \/ Crash

Spec == Init /\ [][Next]_vars

\* A call that was made goes on: the models answer or their calls fail.
FairSpec == Spec /\ WF_vars(Work)

-----------------------------------------------------------------------------
(***************************************************************************)
(* Properties                                                              *)
(***************************************************************************)

Lifecycle == INSTANCE HypothesisLifecycle WITH
  status <- [h \in Hyps |-> disk[h].status],
  verdicts <- issued

\* Across crashes, failed appends and repeated runs over the same tree, each
\* hypothesis is judged at most once, and what the tree says of it is what its
\* one verdict said, for good.
ImplementsLifecycle == Lifecycle!Spec

\* Within one call of run no region takes more kills than close it: critique
\* is not spent on a region that is known to be dead.
KillsBounded == \A r \in Regions : kills[r] <= Threshold

\* Once the stall ledger has said "escalate", the call begins no other round.
EscalationStops == pc = "prospect" => stall < EscalateAt

\* An accepted node has its verdict in the ledger file, but for one node per
\* append that was cut short (and swallowed the verdict glued to it).
Undocumented == {h \in Accepted(disk) : <<h, "UP">> \notin ledger.readable}
AcceptancesDocumented == Cardinality(Undocumented) <= cuts

\* Whatever a run finds accepted was once judged UP: neither the ledger nor the
\* tree can make a hypothesis that was killed pass for accepted.
AcceptedWereJudged == \A h \in accepted : issued[h] = <<"UP">>

\* While nothing failed, a call of run that is over has left no hypothesis
\* pending: what it leaves pending, the coordinator takes for work to dispatch.
NothingLeftOpen ==
  failures = 0 /\ pc \in {"advance", "ready"} =>
    \A h \in Hyps : disk[h].status # "pending"

\* A call of run comes to an end.
RunEnds == (pc \in Stages) ~> (pc \in {"ready", "down"})

(***************************************************************************)
(* The inductive invariant behind the safety properties                    *)
(***************************************************************************)

\* A live process knows the status of every node as its file has it.
TreesInStep == pc # "down" => \A h \in Hyps : mem[h].status = disk[h].status

\* The one verdict of a hypothesis, and what it allows its node to be.
StatusFollowsVerdict ==
  \A h \in Hyps :
    /\ issued[h] \in {<<>>, <<"UP">>, <<"DOWN">>}
    /\ disk[h].status = "absent" => issued[h] = <<>>
    /\ disk[h].status = "accepted" => issued[h] = <<"UP">>
    /\ disk[h].status = "pruned" => issued[h] # <<"UP">>

\* The candidate in hand is settled last, and judged only if it never was.
CandidateInStep ==
  /\ pc \in {"contract", "shelve", "adversary"} =>
       disk[cand].status = "pending" /\ issued[cand] = <<>>
  /\ pc = "settle" => disk[cand].status = "pending" /\ issued[cand] = <<ruling>>

\* Neither the ledger's file nor its cache holds a verdict that was not issued.
LedgerTrue == \A e \in ledger.readable \cup entries : issued[e[1]] = <<e[2]>>

\* Trees, ledger and locals agree with the verdicts that were issued.
OutcomesInStep ==
  /\ TreesInStep
  /\ StatusFollowsVerdict
  /\ CandidateInStep
  /\ LedgerTrue
  /\ AcceptedWereJudged

\* A candidate that is put to the adversary is in an open region.
RegionsInStep ==
  /\ KillsBounded
  /\ pc \in {"adversary", "settle"} => ~Closed(region)

\* The stall counter is below the threshold until the loop is left.
StallInStep == pc # "advance" => stall < EscalateAt

\* What the next append will lose to the file's tail, and what the last append
\* lost of the verdict in hand.
TailLoss == IF L!EndsClean(ledger) THEN 0 ELSE 1
VerdictLoss ==
  IF pc = "settle" /\ ruling = "UP" /\ <<cand, "UP">> \notin ledger.readable
  THEN 1 ELSE 0

\* Each append that was cut short accounts for one loss, past or to come; an
\* entry that the next append will swallow is of a node that is not accepted.
LossesInStep ==
  /\ ledger.open \subseteq ledger.readable
  /\ \A e \in ledger.open : disk[e[1]].status # "accepted"
  /\ pc = "settle" => ledger.open = {}
  /\ IsFiniteSet(Undocumented)
  /\ Cardinality(Undocumented) + TailLoss + VerdictLoss <= cuts

\* While nothing failed, only the candidate in hand is pending.
PendingInHand ==
  failures = 0 =>
    \A h \in Hyps :
      disk[h].status = "pending" =>
        h = cand /\ pc \in {"contract", "shelve", "adversary", "settle"}

IInv ==
  /\ TypeOK
  /\ OutcomesInStep
  /\ RegionsInStep
  /\ StallInStep
  /\ LossesInStep
  /\ PendingInHand

\* The verdict is in the ledger before the tree knows of it: a hypothesis that
\* was judged and is pending was in hand when something failed, and one failure
\* leaves one such hypothesis, however many runs follow.
JudgedAreSettled ==
  Cardinality({h \in Hyps : issued[h] # <<>> /\ disk[h].status = "pending"})
    <= failures + (IF pc = "settle" THEN 1 ELSE 0)

\* A closed node has its contract, although a candidate of a closed region is
\* saved once without: one failure leaves one node like that, which no later run
\* completes, and there is none by any other way.
ClosedHaveContracts ==
  Cardinality({h \in Hyps : disk[h].status \in {"accepted", "pruned"} /\ ~disk[h].contract})
    <= failures + (IF pc = "shelveRefs" THEN 1 ELSE 0)

(***************************************************************************)
(* What the code's own texts say and the code does not do                  *)
(***************************************************************************)

\* A candidate is skipped if it was accepted or "already critiqued" (or pruned
\* with its region).
SkippedWereCritiqued ==
  \A h \in skipped : issued[h] # <<>> \/ disk[h].status = "pruned"
=============================================================================
