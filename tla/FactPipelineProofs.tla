------------------------- MODULE FactPipelineProofs -------------------------
(***************************************************************************)
(* Proofs about FactPipeline, for any sources, papers and limits: type     *)
(* correctness, no source's hits are left out, what is stored matches the  *)
(* record it was compared with, and every fact is verified or refused for  *)
(* a cause.                                                                *)
(*                                                                         *)
(* The outcome of a fact depends on what the layers before have found, so  *)
(* the invariant says what is known of the paper and of the record at each *)
(* of them.                                                                *)
(***************************************************************************)
EXTENDS FactPipeline, Recursion, SequenceTheorems

-----------------------------------------------------------------------------
(***************************************************************************)
(* The hits, source by source                                              *)
(***************************************************************************)

\* The hits of the first s sources, for each s.
HitsUpTo ==
  CHOOSE upTo : upTo =
    [s \in 0 .. NumSources |-> IF s = 0 THEN <<>> ELSE upTo[s - 1] \o found[s]]

\* Looked is the first of them.
LEMMA LookedIsFirst ==
  Looked = SubSeq(HitsUpTo[NumSources], 1,
                  IF Len(HitsUpTo[NumSources]) < MaxPapers
                  THEN Len(HitsUpTo[NumSources]) ELSE MaxPapers)
  BY DEF Looked, HitsUpTo

\* The hits of s sources are those of s - 1, and then those of the last.
LEMMA HitsSourceBySource ==
  ASSUME found \in [Sources -> Seq(Papers)]
  PROVE  /\ HitsUpTo[0] = <<>>
         /\ \A s \in 0 .. NumSources : HitsUpTo[s] \in Seq(Papers)
         /\ \A s \in 1 .. NumSources : HitsUpTo[s] = HitsUpTo[s - 1] \o found[s]
<1> DEFINE N == NumSources
           D == Seq(Papers)
           start == <<>>
           step == [nd \in (1 .. N) \X D |-> nd[2] \o found[nd[1]]]
           Eq(g) == g = [s \in 0 .. N |->
                          IF s = 0 THEN <<>> ELSE g[s - 1] \o found[s]]
<1>1. N \in Nat /\ start \in D
  BY SourcesAssumption
<1>2. \A s \in 1 .. N : found[s] \in D
  BY DEF Sources
<1>3. step \in [(1 .. N) \X D -> D]
  <2>1. ASSUME NEW s \in 1 .. N, NEW d \in D
        PROVE  d \o found[s] \in D
    BY <1>2, ConcatProperties
  <2> QED
    BY <2>1
<1>4. \E g : Stepwise(g, N, D, start, step)
  <2> HIDE DEF N, D, step, start
  <2> QED
    BY <1>1, <1>3, StepwiseExists
<1>5. PICK g : Stepwise(g, N, D, start, step)
  BY <1>4
<1>6. /\ g \in [0 .. N -> D]
      /\ g[0] = <<>>
      /\ \A s \in 1 .. N : g[s] = step[<<s, g[s - 1]>>]
  <2> HIDE DEF N, D, step
  <2> QED
    BY <1>5 DEF Stepwise
<1>7. \A s \in 1 .. N : g[s - 1] \in D /\ <<s, g[s - 1]>> \in (1 .. N) \X D
  <2>1. N \in Nat /\ g \in [0 .. N -> D]
    BY <1>1, <1>6
  <2> HIDE DEF N, D, step
  <2> QED
    BY <2>1
<1>8. \A s \in 1 .. N : step[<<s, g[s - 1]>>] = g[s - 1] \o found[s]
  <2> HIDE DEF N, D
  <2> QED
    BY <1>7
<1>9. Eq(g)
  <2>1. \A s \in 0 .. N : s # 0 => s \in 1 .. N
    BY <1>1
  <2>2. \A s \in 0 .. N : g[s] = IF s = 0 THEN <<>> ELSE g[s - 1] \o found[s]
    <3> HIDE DEF step, N
    <3> QED BY <1>6, <1>8, <2>1
  <2> HIDE DEF step, N
  <2> QED
    BY <1>6, <2>2
<1> DEFINE u == HitsUpTo
<1>10. Eq(u)
  <2>1. u = CHOOSE h : Eq(h)
    BY DEF HitsUpTo
  <2> HIDE DEF Eq, u
  <2> QED
    BY <1>9, <2>1
<1>11. u[0] = <<>> /\ \A s \in 1 .. N : u[s] = u[s - 1] \o found[s]
  <2>1. 0 \in 0 .. N /\ \A s \in 1 .. N : s \in 0 .. N /\ s # 0
    BY <1>1
  <2> HIDE DEF u, N
  <2> QED
    BY <1>10, <2>1
<1>12. \A s \in 0 .. N : u[s] \in D
  <2> DEFINE S == {s \in 0 .. N : u[s] \in D}
  <2>1. 0 \in S
    <3>1. u[0] \in D /\ 0 \in 0 .. N
      <4> HIDE DEF u, N, D
      <4> QED BY <1>1, <1>11
    <3> QED
      BY <3>1
  <2>2. ASSUME NEW s \in 0 .. N, s < N, s \in S
        PROVE  s + 1 \in S
    <3>1. s + 1 \in 1 .. N /\ (s + 1) - 1 = s /\ s + 1 \in 0 .. N
      BY <2>2, <1>1
    <3>2. u[s + 1] = u[s] \o found[s + 1]
      <4> HIDE DEF u, N
      <4> QED BY <3>1, <1>11
    <3>3. u[s] \in D /\ found[s + 1] \in D
      BY <2>2, <3>1, <1>2
    <3>4. u[s + 1] \in D
      <4> HIDE DEF u, N
      <4> QED BY <3>2, <3>3, ConcatProperties
    <3> QED
      BY <3>1, <3>4
  <2>3. \A s \in 0 .. N : s \in S
    <3> HIDE DEF S, N
    <3> QED BY <1>1, <2>1, <2>2, BoundedInduction
  <2> QED
    BY <2>3
<1> QED
  BY <1>11, <1>12

\* What a source has found is among the hits of all sources.
LEMMA HitsAreKept ==
  ASSUME found \in [Sources -> Seq(Papers)],
         NEW s \in Sources, NEW i \in DOMAIN found[s]
  PROVE  \E j \in DOMAIN HitsUpTo[NumSources] :
           HitsUpTo[NumSources][j] = found[s][i]
<1> DEFINE N == NumSources
           Has(n) == \E j \in DOMAIN HitsUpTo[n] : HitsUpTo[n][j] = found[s][i]
           S == {n \in 0 .. N : n >= s => Has(n)}
<1>1. N \in Nat /\ s \in 1 .. N
  BY SourcesAssumption DEF Sources
<1>2. 0 \in S
  BY <1>1
<1>3. ASSUME NEW n \in 0 .. N, n < N, n \in S
      PROVE  n + 1 \in S
  <2> DEFINE a == HitsUpTo[n]
             b == found[n + 1]
             c == HitsUpTo[n + 1]
  <2>1. n + 1 \in 1 .. N /\ (n + 1) - 1 = n
    BY <1>3, <1>1
  <2>2. a \in Seq(Papers) /\ b \in Seq(Papers) /\ c = a \o b
    BY <2>1, HitsSourceBySource DEF Sources
  <2>3. /\ DOMAIN c = 1 .. (Len(a) + Len(b))
        /\ \A k \in 1 .. Len(a) : c[k] = a[k]
        /\ \A k \in 1 .. Len(b) : c[Len(a) + k] = b[k]
    <3> HIDE DEF a, b, c
    <3>1. /\ Len(a) \in Nat /\ Len(b) \in Nat
          /\ c \in Seq(Papers) /\ Len(c) = Len(a) + Len(b)
          /\ \A k \in 1 .. Len(a) + Len(b) :
               c[k] = IF k <= Len(a) THEN a[k] ELSE b[k - Len(a)]
      BY <2>2, ConcatProperties
    <3>2. \A k \in 1 .. Len(a) : c[k] = a[k]
      BY <3>1
    <3>3. \A k \in 1 .. Len(b) : c[Len(a) + k] = b[k]
      <4> SUFFICES ASSUME NEW k \in 1 .. Len(b) PROVE c[Len(a) + k] = b[k]
        OBVIOUS
      <4>1. /\ Len(a) + k \in 1 .. Len(a) + Len(b)
            /\ ~(Len(a) + k <= Len(a)) /\ (Len(a) + k) - Len(a) = k
        BY <3>1
      <4> QED
        BY <3>1, <4>1
    <3> QED
      BY <3>1, <3>2, <3>3
  <2>4. CASE n >= s
    <3>1. PICK j \in DOMAIN a : a[j] = found[s][i]
      BY <2>4, <1>3
    <3>2. j \in 1 .. Len(a) /\ j \in DOMAIN c /\ c[j] = a[j]
      <4> HIDE DEF a, b, c
      <4> QED BY <2>2, <2>3
    <3>3. Has(n + 1)
      BY <3>1, <3>2
    <3> QED
      BY <3>3, <2>1
  <2>5. CASE n + 1 = s
    <3>1. i \in 1 .. Len(b) /\ b[i] = found[s][i]
      BY <2>5, <2>2
    <3>2. Len(a) + i \in DOMAIN c /\ c[Len(a) + i] = b[i]
      <4> HIDE DEF a, b, c
      <4>1. Len(a) \in Nat /\ Len(b) \in Nat
        BY <2>2
      <4> QED BY <3>1, <4>1, <2>3
    <3>3. Has(n + 1)
      BY <3>1, <3>2
    <3> QED
      BY <3>3, <2>1
  <2>6. CASE n + 1 < s
    BY <2>6, <2>1, <1>1
  <2> QED
    BY <2>4, <2>5, <2>6, <1>1
<1>4. \A n \in 0 .. N : n \in S
  <2> HIDE DEF S, N
  <2> QED BY <1>1, <1>2, <1>3, BoundedInduction
<1>5. N \in S /\ N >= s
  BY <1>1, <1>4
<1> QED
  BY <1>5

\* The papers looked at are papers, and all of the hits if there are few.
LEMMA LookedProperties ==
  ASSUME found \in [Sources -> Seq(Papers)]
  PROVE  /\ Looked \in Seq(Papers)
         /\ Len(Looked) < MaxPapers => Looked = HitsUpTo[NumSources]
<1> DEFINE all == HitsUpTo[NumSources]
           m == IF Len(all) < MaxPapers THEN Len(all) ELSE MaxPapers
<1>1. all \in Seq(Papers)
  <2>1. NumSources \in 0 .. NumSources
    BY SourcesAssumption
  <2> QED
    BY <2>1, HitsSourceBySource
<1>2. Looked = SubSeq(all, 1, m)
  BY LookedIsFirst
<1>3. Len(all) \in Nat /\ m \in 0 .. Len(all) /\ MaxPapers \in Nat
  BY <1>1, LimitsAssumption
<1> HIDE DEF all
<1>4. Looked \in Seq(Papers) /\ Len(Looked) = m
  <2> HIDE DEF m
  <2> QED BY <1>1, <1>2, <1>3
<1>5. ASSUME Len(Looked) < MaxPapers
      PROVE  Looked = all
  <2>1. m = Len(all)
    BY <1>3, <1>4, <1>5
  <2> HIDE DEF m
  <2> QED
    BY <1>1, <1>2, <2>1
<1> QED
  BY <1>4, <1>5 DEF all

-----------------------------------------------------------------------------
(***************************************************************************)
(* Types                                                                   *)
(***************************************************************************)

\* What a source can find is a sequence of papers.
LEMMA HitsAreSequences ==
  ASSUME NEW s, NEW h \in Hits(s)
  PROVE  h \in Seq(Papers)
<1>1. PICK k \in 0 .. MaxPapers : h \in [1 .. k -> Known(s)]
  BY DEF Hits
<1>2. k \in Nat /\ h \in [1 .. k -> Papers]
  BY <1>1, LimitsAssumption DEF Known
<1> QED
  BY <1>2

\* The paper in hand is one of the hits.
LEMMA PaperInHand ==
  ASSUME TypeOK, queue # <<>>
  PROVE  /\ Paper \in Papers /\ Tail(queue) \in Seq(Papers)
         /\ IdOf(Paper) \in Ids /\ NodeOf(Paper) \in Nodes
         /\ Record[Paper].source \in Sources
<1>1. queue \in Seq(Papers)
  BY DEF TypeOK
<1>2. Paper \in Papers /\ Tail(queue) \in Seq(Papers)
  BY <1>1, HeadTailProperties DEF Paper
<1>3. Record[Paper] \in RecordType
  BY <1>2, PapersAssumption
<1>4. IdOf(Paper) \in Ids /\ Record[Paper].source \in Sources
  BY <1>3 DEF IdOf, RecordType
<1> QED
  BY <1>2, <1>4, NodeIdAssumption DEF NodeOf

\* There is a first adapter, and one fact less is still a number of facts.
LEMMA Counts ==
  /\ 1 \in 1 .. NumSources + 1
  /\ \A k \in 0 .. MaxFacts : k > 0 => k - 1 \in 0 .. MaxFacts
  BY SourcesAssumption, LimitsAssumption

\* However a fact is settled.
LEMMA SettleType ==
  ASSUME TypeOK, queue # <<>>, left > 0,
         NEW status \in {"failed", "rejected", "verified"},
         NEW band \in Bands \cup {"not read"}, NEW ruling \in Rulings,
         NEW troubled \in BOOLEAN,
         status = "verified" => resolved # NoPaper,
         Settle(status, band, ruling, troubled),
         UNCHANGED <<search, hits, owner, runs>>
  PROVE  TypeOK'
<1>1. Paper \in Papers
  BY PaperInHand
<1>2. last' \in Outcomes
  <2>1. /\ Paper \in Papers \cup {NoPaper} /\ resolved \in Papers \cup {NoPaper}
        /\ status \in {"none", "failed", "rejected", "verified"}
    BY <1>1 DEF TypeOK
  <2>2. last' = [paper |-> Paper, status |-> status, resolved |-> resolved,
                 band |-> band, ruling |-> ruling, trouble |-> troubled]
    BY DEF Settle
  <2> QED
    BY <2>1, <2>2 DEF Outcomes
<1>3. stored' \subseteq [paper : Papers, resolved : Papers]
  <2>1. stored \subseteq [paper : Papers, resolved : Papers]
    BY DEF TypeOK
  <2>2. status = "verified" => resolved \in Papers
    BY DEF TypeOK
  <2>3. stored' = IF status = "verified"
                  THEN stored \cup {[paper |-> Paper, resolved |-> resolved]} ELSE stored
    BY DEF Settle
  <2>4. CASE status = "verified"
    <3>1. [paper |-> Paper, resolved |-> resolved] \in [paper : Papers, resolved : Papers]
      BY <1>1, <2>2, <2>4
    <3> QED
      BY <2>1, <2>3, <2>4, <3>1
  <2>5. CASE status # "verified"
    BY <2>1, <2>3, <2>5
  <2> QED
    BY <2>4, <2>5
<1>4. left' \in 0 .. MaxFacts
  <2>1. left \in 0 .. MaxFacts
    BY DEF TypeOK
  <2>2. left' = left - 1
    BY DEF Settle
  <2> QED
    BY <2>1, <2>2, Counts
<1>5. /\ pc' = "facts" /\ trouble' = FALSE
      /\ adapter' \in 1 .. NumSources + 1 /\ resolved' \in Papers \cup {NoPaper}
  <2>1. adapter' = 1 /\ resolved' = NoPaper /\ pc' = "facts" /\ trouble' = FALSE
    BY DEF Settle
  <2> QED
    BY <2>1, Counts
<1>6. /\ query' = query /\ tries' = tries /\ found' = found /\ queue' = queue
      /\ seen' = seen /\ owner' = owner /\ runs' = runs
  BY DEF search, hits
<1> QED
  BY <1>2, <1>3, <1>4, <1>5, <1>6 DEF TypeOK

\* A claim that is settled without a fact keeps the types as well.
LEMMA SettleUnresolvedType ==
  ASSUME TypeOK, queue # <<>>, left > 0,
         NEW status \in {"failed", "rejected"}, NEW troubled \in BOOLEAN,
         SettleUnresolved(status, troubled),
         UNCHANGED <<search, hits, owner, runs>>
  PROVE  TypeOK'
  BY SettleType DEF SettleUnresolved, Rulings

\* The types hold at the start.
LEMMA TypeInit ==
  ASSUME Init
  PROVE  TypeOK
<1>1. 0 \in 0 .. MaxRetries /\ 0 \in 0 .. MaxFacts /\ 0 \in 0 .. MaxRuns
      /\ 1 \in 1 .. NumSources + 1
  BY LimitsAssumption, SourcesAssumption
<1>2. NoOutcome \in Outcomes
  BY DEF NoOutcome, Outcomes, Rulings
<1>3. <<>> \in Seq(Papers)
  OBVIOUS
<1>4. found \in [Sources -> Seq(Papers)] /\ queue \in Seq(Papers)
  BY <1>3 DEF Init
<1>5. /\ query \in [Sources -> {"asking", "answered", "failed"}]
      /\ tries \in [Sources -> 0 .. MaxRetries]
      /\ owner \in [Nodes -> Ids \cup {NoId}]
  BY <1>1 DEF Init
<1>6. pc = "idle" /\ stored = {} /\ seen = {} /\ trouble = FALSE
  BY DEF Init
<1>7. left = 0 /\ adapter = 1 /\ runs = 0 /\ resolved = NoPaper /\ last = NoOutcome
  BY DEF Init
<1> QED
  BY <1>1, <1>2, <1>4, <1>5, <1>6, <1>7 DEF TypeOK

LEMMA TypeStep ==
  ASSUME TypeOK, [Next]_vars
  PROVE  TypeOK'
<1>1. CASE Begin
  BY <1>1, LimitsAssumption
  DEF Begin, TypeOK, search, hits, check, outcome
<1>2. ASSUME NEW s \in Sources, SourceAnswers(s)
      PROVE  TypeOK'
  <2>1. PICK h \in Hits(s) : found' = [found EXCEPT ![s] = h]
    BY <1>2 DEF SourceAnswers
  <2>2. h \in Seq(Papers)
    BY HitsAreSequences
  <2>3. found' \in [Sources -> Seq(Papers)]
    BY <2>1, <2>2 DEF TypeOK
  <2> QED
    BY <1>2, <2>3 DEF SourceAnswers, TypeOK, hits, check, outcome
<1>3. ASSUME NEW s \in Sources, SourceThrottled(s)
      PROVE  TypeOK'
  <2>1. tries' \in [Sources -> 0 .. MaxRetries]
    BY <1>3, LimitsAssumption DEF SourceThrottled, TypeOK
  <2> QED
    BY <1>3, <2>1 DEF SourceThrottled, TypeOK, hits, check, outcome
<1>4. ASSUME NEW s \in Sources, SourceFails(s)
      PROVE  TypeOK'
  BY <1>4 DEF SourceFails, TypeOK, hits, check, outcome
<1>5. CASE Merge
  <2>1. queue' \in Seq(Papers)
    BY <1>5, LookedProperties DEF Merge, TypeOK
  <2>2. seen' \subseteq Ids
    BY <1>5 DEF Merge, TypeOK, Named
  <2>3. /\ query' \in [Sources -> {"asking", "answered", "failed"}]
        /\ tries' \in [Sources -> 0 .. MaxRetries]
        /\ found' \in [Sources -> Seq(Papers)]
    BY <1>5, LimitsAssumption DEF Merge, SearchDone
  <2> QED
    BY <1>5, <2>1, <2>2, <2>3 DEF Merge, TypeOK, check, outcome
<1>6. CASE SkipSeen
  BY <1>6, PaperInHand DEF SkipSeen, TypeOK, search, check, outcome
<1>7. CASE TakePaper
  <2>1. IdOf(Paper) \in Ids /\ NodeOf(Paper) \in Nodes
    BY <1>7, PaperInHand DEF TakePaper
  <2>2. owner' \in [Nodes -> Ids \cup {NoId}]
    BY <1>7, <2>1 DEF TakePaper, TypeOK
  <2>3. seen' \subseteq Ids
    BY <1>7, <2>1 DEF TakePaper, TypeOK
  <2> QED
    BY <1>7, <2>2, <2>3 DEF TakePaper, TypeOK, search, check, outcome
<1>8. CASE Extract
  BY <1>8 DEF Extract, TypeOK, search, hits, check, outcome
<1>9. CASE ClosePaper
  <2>1. queue # <<>>
    BY <1>9 DEF ClosePaper, TypeOK
  <2> QED
    BY <1>9, <2>1, PaperInHand DEF ClosePaper, TypeOK, search, check, outcome
<1>10. CASE Return
  BY <1>10 DEF Return, TypeOK, search, hits, check, outcome
<1>11. CASE CheckIdentifier
  <2>1. CASE pc' \in {"fetch", "doi"} /\ UNCHANGED <<left, check, outcome>>
    BY <1>11, <2>1 DEF CheckIdentifier, TypeOK, search, hits, check, outcome
  <2>2. CASE SettleUnresolved("failed", FALSE)
    <3>1. queue # <<>> /\ left > 0 /\ UNCHANGED <<search, hits, owner, runs>>
      BY <1>11 DEF CheckIdentifier, TypeOK
    <3> QED
      BY <2>2, <3>1, SettleUnresolvedType
  <2> QED
    BY <1>11, <2>1, <2>2 DEF CheckIdentifier
<1>12. CASE FetchFinds
  <2>1. resolved' \in Papers
    BY <1>12 DEF FetchFinds, Known
  <2>2. resolved' # NoPaper
    BY <2>1, PapersAssumption
  <2> QED
    BY <1>12, <2>1, <2>2 DEF FetchFinds, TypeOK, search, hits, outcome
<1>13. CASE FetchMisses
  <2>1. queue # <<>> /\ left > 0 /\ UNCHANGED <<search, hits, owner, runs>>
    BY <1>13 DEF FetchMisses, TypeOK
  <2>2. CASE /\ pc' = "doi" /\ trouble' = TRUE
             /\ UNCHANGED <<left, adapter, resolved, outcome>>
    BY <2>1, <2>2 DEF TypeOK, search, hits, outcome
  <2>3. CASE SettleUnresolved("rejected", TRUE)
    BY <2>1, <2>3, SettleUnresolvedType
  <2> QED
    BY <1>13, <2>2, <2>3 DEF FetchMisses
<1>14. CASE DoiFinds
  <2>1. resolved' \in Papers
    BY <1>14 DEF DoiFinds, Known
  <2>2. resolved' # NoPaper
    BY <2>1, PapersAssumption
  <2> QED
    BY <1>14, <2>1, <2>2 DEF DoiFinds, TypeOK, search, hits, outcome
<1>15. CASE DoiMisses
  <2>1. queue # <<>> /\ left > 0 /\ UNCHANGED <<search, hits, owner, runs>>
    BY <1>15 DEF DoiMisses, TypeOK
  <2>2. CASE adapter < NumSources
    <3>1. adapter' \in 1 .. NumSources + 1
      BY <1>15, <2>2, SourcesAssumption DEF DoiMisses, TypeOK
    <3> QED
      BY <1>15, <2>1, <2>2, <3>1 DEF DoiMisses, TypeOK, search, hits, outcome
  <2>3. CASE SettleUnresolved("rejected", TRUE)
    BY <2>1, <2>3, SettleUnresolvedType
  <2> QED
    BY <1>15, <2>2, <2>3 DEF DoiMisses
<1>16. CASE CheckMetadata
  <2>1. queue # <<>> /\ left > 0 /\ UNCHANGED <<search, hits, owner, runs>>
    BY <1>16 DEF CheckMetadata, TypeOK
  <2>2. CASE pc' = "ground" /\ UNCHANGED <<left, check, outcome>>
    BY <1>16, <2>1, <2>2 DEF CheckMetadata, TypeOK, search, hits, check, outcome
  <2>3. CASE SettleUnresolved("rejected", trouble)
    BY <2>1, <2>3, SettleUnresolvedType DEF TypeOK
  <2> QED
    BY <1>16, <2>2, <2>3 DEF CheckMetadata
<1>17. CASE Ground
  <2>1. queue # <<>> /\ left > 0 /\ resolved # NoPaper /\ trouble \in BOOLEAN
        /\ UNCHANGED <<search, hits, owner, runs>>
    BY <1>17 DEF Ground, TypeOK
  <2>2. PICK band \in Bands, ruling \in Rulings :
          Settle(IF Grounded(band, ruling) THEN "verified" ELSE "rejected",
                 band, ruling, trouble)
    BY <1>17 DEF Ground
  <2> DEFINE status == IF Grounded(band, ruling) THEN "verified" ELSE "rejected"
  <2>3. status \in {"failed", "rejected", "verified"}
        /\ band \in Bands \cup {"not read"}
    OBVIOUS
  <2> HIDE DEF status
  <2> QED
    BY <2>1, <2>2, <2>3, SettleType
<1>18. CASE UNCHANGED vars
  BY <1>18 DEF vars, TypeOK, search, hits, check, outcome
<1> QED
  BY <1>1, <1>2, <1>3, <1>4, <1>5, <1>6, <1>7, <1>8, <1>9, <1>10, <1>11, <1>12,
     <1>13, <1>14, <1>15, <1>16, <1>17, <1>18 DEF Next, Step

\* Whatever the sources, the adapters and the judge answer, a dispatch only looks
\* at hits, compares a fact with a record it has, and stores what was resolved.
THEOREM TypeCorrect == Spec => []TypeOK
<1>1. Init => TypeOK
  BY TypeInit
<1>2. TypeOK /\ [Next]_vars => TypeOK'
  BY TypeStep
<1> QED
  BY <1>1, <1>2, PTL DEF Spec

-----------------------------------------------------------------------------
(***************************************************************************)
(* The search                                                              *)
(***************************************************************************)

\* The hits of a source that answers are looked at whichever others fail, unless
\* as many hits as allowed are.
THEOREM HitsLookedAt == Spec => NoneLeftOut
<1> DEFINE Kept == pc = "search" /\ pc' = "papers" =>
                     \A s \in Sources : \A i \in DOMAIN found[s] :
                       Len(queue') < MaxPapers =>
                         \E j \in DOMAIN queue' : queue'[j] = found[s][i]
<1>1. TypeOK /\ [Next]_vars => [Kept]_vars
  <2> SUFFICES ASSUME TypeOK, Next, pc = "search", pc' = "papers",
                      NEW s \in Sources, NEW i \in DOMAIN found[s],
                      Len(queue') < MaxPapers
               PROVE  \E j \in DOMAIN queue' : queue'[j] = found[s][i]
    OBVIOUS
  <2>1. Merge
    BY DEF Next, Step, Begin, SourceAnswers, SourceThrottled, SourceFails, SkipSeen,
           TakePaper, Extract, ClosePaper, Return, CheckIdentifier, FetchFinds,
           FetchMisses, DoiFinds, DoiMisses, CheckMetadata, Ground
  <2>2. queue' = Looked /\ found \in [Sources -> Seq(Papers)]
    BY <2>1 DEF Merge, TypeOK
  <2>3. queue' = HitsUpTo[NumSources]
    BY <2>2, LookedProperties
  <2> QED
    BY <2>2, <2>3, HitsAreKept
<1> QED
  BY <1>1, TypeCorrect, PTL DEF Spec, NoneLeftOut

-----------------------------------------------------------------------------
(***************************************************************************)
(* The causes                                                              *)
(***************************************************************************)

\* Sources other than that of the paper in hand may be asked for its DOI.
AskedElsewhere ==
  /\ Record[Paper].doi # NoDoi
  /\ trouble \/ ~Asked(Paper)

\* The record is one of the paper's own source.
OwnSource == Record[resolved].source = Record[Paper].source

\* What holds when a layer is reached.
LayersPassed ==
  /\ pc = "doi" => AskedElsewhere
  /\ pc \notin {"metadata", "ground"} => resolved = NoPaper
  /\ pc \in {"metadata", "ground"} => resolved # NoPaper /\ (OwnSource \/ AskedElsewhere)
  /\ pc = "ground" => SameWork(Paper, resolved)

Causes ==
  /\ StoredMatchRecords
  /\ VerifiedForCause
  /\ RefusedForCause

CauseInv == LayersPassed /\ Causes

\* Causes are about the store and the last outcome only.
LEMMA CausesStay ==
  ASSUME Causes, UNCHANGED outcome
  PROVE  Causes'
  BY DEF Causes, outcome, StoredMatchRecords, VerifiedForCause, RefusedForCause

\* Records pass L3 if and only if they are of the same work.
LEMMA MatchIsSameWork ==
  ASSUME NEW p, NEW q
  PROVE  YearsMatch(p, q) /\ AuthorsMatch(p, q) <=> SameWork(p, q)
  BY DEF YearsMatch, AuthorsMatch, SameWork

\* A fact that is refused before L4 adds nothing to the store.
LEMMA RefusalIsCaused ==
  ASSUME Causes, NEW status \in {"failed", "rejected"}, NEW troubled,
         SettleUnresolved(status, troubled),
         \/ /\ resolved = NoPaper
            /\ \/ troubled = TRUE
               \/ ~Asked(Paper) /\ Record[Paper].doi = NoDoi
         \/ resolved # NoPaper /\ ~SameWork(Paper, resolved)
  PROVE  Causes' /\ pc' = "facts" /\ resolved' = NoPaper
<1>1. stored' = stored /\ pc' = "facts" /\ resolved' = NoPaper
  BY DEF SettleUnresolved, Settle
<1>2. last' = [paper |-> Paper, status |-> status, resolved |-> resolved,
               band |-> "not read", ruling |-> "none", trouble |-> troubled]
  BY DEF SettleUnresolved, Settle
<1>3. StoredMatchRecords'
  BY <1>1 DEF Causes, StoredMatchRecords
<1>4. VerifiedForCause'
  BY <1>2 DEF VerifiedForCause
<1>5. RefusedForCause'
  BY <1>2 DEF RefusedForCause
<1> QED
  BY <1>1, <1>3, <1>4, <1>5 DEF Causes

\* L4 settles a fact whose record matches.
LEMMA GroundIsCaused ==
  ASSUME CauseInv, Ground
  PROVE  Causes' /\ pc' = "facts" /\ resolved' = NoPaper
<1>1. PICK band \in Bands, ruling \in Rulings :
        /\ band \in {"high", "low"} => ruling = "none"
        /\ Settle(IF Grounded(band, ruling) THEN "verified" ELSE "rejected",
                  band, ruling, trouble)
  BY DEF Ground
<1> DEFINE status == IF Grounded(band, ruling) THEN "verified" ELSE "rejected"
<1>2. /\ last' = [paper |-> Paper, status |-> status, resolved |-> resolved,
                  band |-> band, ruling |-> ruling, trouble |-> trouble]
      /\ pc' = "facts" /\ resolved' = NoPaper
  BY <1>1 DEF Settle
<1>3. \A f \in stored' : f \in stored \/ f = [paper |-> Paper, resolved |-> resolved]
  BY <1>1 DEF Settle
<1>4. pc = "ground"
  BY DEF Ground
<1>5. SameWork(Paper, resolved)
  BY <1>4 DEF CauseInv, LayersPassed
<1>6. resolved # NoPaper /\ (OwnSource \/ AskedElsewhere)
  BY <1>4 DEF CauseInv, LayersPassed
<1>7. StoredMatchRecords'
  BY <1>3, <1>5 DEF CauseInv, Causes, StoredMatchRecords, SameWork
<1>8. VerifiedForCause'
  <2>1. status = "verified" =>
          /\ band # "low" /\ ruling # "unsupported"
          /\ band = "lower" => ruling = "supported"
    BY <1>1 DEF Grounded
  <2> HIDE DEF status
  <2> QED
    BY <1>2, <1>6, <2>1 DEF VerifiedForCause, AskedElsewhere, OwnSource, Asked
<1>9. RefusedForCause'
  <2>1. status # "verified" => band \in {"lower", "low"} \/ ruling = "unsupported"
    BY DEF Grounded, Bands, Rulings
  <2>2. status \in {"failed", "rejected"} => status # "verified"
    OBVIOUS
  <2> HIDE DEF status
  <2> QED
    BY <1>2, <1>6, <2>1, <2>2 DEF RefusedForCause
<1> QED
  BY <1>2, <1>7, <1>8, <1>9 DEF Causes

\* So do the causes, as nothing is decided yet.
LEMMA CauseInit ==
  ASSUME Init
  PROVE  CauseInv
  BY DEF Init, CauseInv, LayersPassed, Causes, NoOutcome, StoredMatchRecords,
         VerifiedForCause, RefusedForCause

\* Before L1 and after L4 nothing is known of a record.
LEMMA CauseStep ==
  ASSUME CauseInv, [Next]_vars
  PROVE  CauseInv'
<1> USE DEF CauseInv
<1>1. CASE Begin \/ Merge \/ SkipSeen \/ TakePaper \/ Extract \/ ClosePaper \/ Return
  <2>1. /\ UNCHANGED outcome /\ resolved' = resolved
        /\ pc \notin {"metadata", "ground"}
        /\ pc' \in {"idle", "search", "papers", "extract", "facts"}
    BY <1>1 DEF Begin, Merge, SkipSeen, TakePaper, Extract, ClosePaper, Return, check
  <2> QED
    BY <2>1, CausesStay DEF LayersPassed
<1>2. ASSUME NEW s \in Sources, SourceAnswers(s) \/ SourceThrottled(s) \/ SourceFails(s)
      PROVE  CauseInv'
  <2>1. UNCHANGED outcome /\ resolved' = resolved /\ pc = "search" /\ pc' = "search"
    BY <1>2 DEF SourceAnswers, SourceThrottled, SourceFails, check
  <2> QED
    BY <2>1, CausesStay DEF LayersPassed
<1>3. CASE CheckIdentifier
  <2>1. pc = "facts" /\ resolved = NoPaper /\ queue' = queue
    BY <1>3 DEF CheckIdentifier, LayersPassed, hits
  <2>2. CASE Asked(Paper)
    <3>1. pc' = "fetch" /\ UNCHANGED <<check, outcome>>
      BY <1>3, <2>2 DEF CheckIdentifier, Asked
    <3> QED
      BY <2>1, <3>1, CausesStay DEF LayersPassed, check
  <2>3. CASE ~Asked(Paper) /\ Record[Paper].doi # NoDoi
    <3>1. pc' = "doi" /\ UNCHANGED <<check, outcome>>
      BY <1>3, <2>3 DEF CheckIdentifier, Asked
    <3> QED
      BY <2>1, <2>3, <3>1, CausesStay DEF LayersPassed, AskedElsewhere, Asked, Paper, check
  <2>4. CASE ~Asked(Paper) /\ Record[Paper].doi = NoDoi
    <3>1. SettleUnresolved("failed", FALSE)
      BY <1>3, <2>4 DEF CheckIdentifier, Asked
    <3> QED
      BY <2>1, <2>4, <3>1, RefusalIsCaused DEF LayersPassed
  <2> QED
    BY <2>2, <2>3, <2>4
<1>4. CASE FetchFinds
  <2>1. PICK p \in Known(Record[Paper].source) : resolved' = p
    BY <1>4 DEF FetchFinds
  <2>2. p \in Papers /\ p # NoPaper /\ Record[p].source = Record[Paper].source
    BY PapersAssumption DEF Known
  <2>3. pc' = "metadata" /\ UNCHANGED outcome /\ queue' = queue
    BY <1>4 DEF FetchFinds, hits
  <2> QED
    BY <2>1, <2>2, <2>3, CausesStay DEF LayersPassed, OwnSource, Paper
<1>5. CASE FetchMisses
  <2>1. pc = "fetch" /\ resolved = NoPaper /\ queue' = queue
    BY <1>5 DEF FetchMisses, LayersPassed, hits
  <2>2. CASE Record[Paper].doi # NoDoi
    <3>1. pc' = "doi" /\ trouble' = TRUE /\ resolved' = resolved /\ UNCHANGED outcome
      BY <1>5, <2>2 DEF FetchMisses
    <3> QED
      BY <2>1, <2>2, <3>1, CausesStay DEF LayersPassed, AskedElsewhere, Asked, Paper
  <2>3. CASE Record[Paper].doi = NoDoi
    <3>1. SettleUnresolved("rejected", TRUE)
      BY <1>5, <2>3 DEF FetchMisses
    <3> QED
      BY <2>1, <3>1, RefusalIsCaused DEF LayersPassed
  <2> QED
    BY <2>2, <2>3
<1>6. CASE DoiFinds
  <2>1. /\ pc = "doi" /\ pc' = "metadata"
        /\ UNCHANGED <<trouble, outcome>> /\ queue' = queue
    BY <1>6 DEF DoiFinds, hits
  <2>2. resolved' \in Papers /\ resolved' # NoPaper
    BY <1>6, PapersAssumption DEF DoiFinds, Known
  <2> QED
    BY <2>1, <2>2, CausesStay DEF LayersPassed, AskedElsewhere, Asked, Paper
<1>7. CASE DoiMisses
  <2>1. pc = "doi" /\ resolved = NoPaper /\ queue' = queue
    BY <1>7 DEF DoiMisses, LayersPassed, hits
  <2>2. CASE adapter < NumSources
    <3>1. pc' = "doi" /\ trouble' = TRUE /\ resolved' = resolved /\ UNCHANGED outcome
      BY <1>7, <2>1, <2>2 DEF DoiMisses
    <3> QED
      BY <2>1, <3>1, CausesStay DEF LayersPassed, AskedElsewhere, Asked, Paper
  <2>3. CASE ~(adapter < NumSources)
    <3>1. SettleUnresolved("rejected", TRUE)
      BY <1>7, <2>3 DEF DoiMisses
    <3> QED
      BY <2>1, <3>1, RefusalIsCaused DEF LayersPassed
  <2> QED
    BY <2>2, <2>3
<1>8. CASE CheckMetadata
  <2>1. pc = "metadata" /\ resolved # NoPaper /\ (OwnSource \/ AskedElsewhere)
    BY <1>8 DEF CheckMetadata, LayersPassed
  <2>2. CASE SameWork(Paper, resolved)
    <3>1. /\ pc' = "ground" /\ queue' = queue
          /\ UNCHANGED <<trouble, resolved, outcome>>
      BY <1>8, <2>2, MatchIsSameWork DEF CheckMetadata, check, hits
    <3>2. Paper' = Paper
      BY <3>1 DEF Paper
    <3>3. (OwnSource \/ AskedElsewhere)'
      BY <2>1, <3>1, <3>2 DEF OwnSource, AskedElsewhere, Asked
    <3>4. SameWork(Paper, resolved)'
      BY <2>2, <3>1, <3>2 DEF SameWork
    <3> QED
      BY <2>1, <3>1, <3>3, <3>4, CausesStay DEF LayersPassed
  <2>3. CASE ~SameWork(Paper, resolved)
    <3>1. SettleUnresolved("rejected", trouble)
      BY <1>8, <2>3, MatchIsSameWork DEF CheckMetadata
    <3> QED
      BY <2>1, <2>3, <3>1, RefusalIsCaused DEF LayersPassed
  <2> QED
    BY <2>2, <2>3
<1>9. CASE Ground
  BY <1>9, GroundIsCaused DEF LayersPassed
<1>10. CASE UNCHANGED vars
  <2>1. UNCHANGED <<pc, trouble, resolved, queue, outcome>>
    BY <1>10 DEF vars, check, hits
  <2>2. Paper' = Paper
    BY <2>1 DEF Paper
  <2>3. LayersPassed'
    BY <2>1, <2>2 DEF LayersPassed, OwnSource, AskedElsewhere, Asked, SameWork
  <2> QED
    BY <2>1, <2>3, CausesStay
<1> QED
  BY <1>1, <1>2, <1>3, <1>4, <1>5, <1>6, <1>7, <1>8, <1>9, <1>10 DEF Next, Step

\* Every step keeps them.
LEMMA CausesHold == Spec => []CauseInv
<1>1. Init => CauseInv
  BY CauseInit
<1>2. CauseInv /\ [Next]_vars => CauseInv'
  BY CauseStep
<1> QED
  BY <1>1, <1>2, PTL DEF Spec

\* Whatever the sources answer for an id or a DOI, a stored fact cites a paper with
\* authors that shares one, and the year, with the record it was compared with.
THEOREM StoredMatch == Spec => []StoredMatchRecords
<1>1. CauseInv => StoredMatchRecords
  BY DEF CauseInv, Causes
<1> QED
  BY <1>1, CausesHold, PTL

\* Whatever the sources answer: no fact is verified against the judge, or against
\* another source's record while the adapter of its own answers; and none is refused
\* unless no record was to be had, the record is that of another work, or the
\* evidence is not in its text.
THEOREM SettledCaused == Spec => []SettledForCause
<1>1. CauseInv => SettledForCause
  BY DEF CauseInv, Causes, SettledForCause
<1> QED
  BY <1>1, CausesHold, PTL
=============================================================================
