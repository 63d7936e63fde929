---------------------------- MODULE FactPipeline ----------------------------
(***************************************************************************)
(* What one dispatch of LitMinerExecutor (literature/executor.py) does     *)
(* with the outside world: the search that goes to all sources at once     *)
(* (search/dispatch.py), and the layers that each extracted fact passes    *)
(* (verify/citation.py, verify/grounding.py) before it is stored.          *)
(*                                                                         *)
(* Module LitMiner has the same dispatch with its saves and crashes, and   *)
(* lets search and verification answer anything.  Here nothing crashes,    *)
(* and the sources fail, throttle and answer one by one.  They are numbered *)
(* in the order of the dictionary of clients.                              *)
(***************************************************************************)
EXTENDS Integers, Sequences

CONSTANTS
  NumSources,
  Registered,      \* sources configured under the name their papers carry
  Papers,          \* PaperResults: what sources answer to a search or for an id
  NoPaper,
  Record,          \* what a paper says
  NodeId,          \* the node for an external id
  Ids, NoId, Years, NoYear, Dois, NoDoi, Surnames, Nodes,
  MaxPapers,       \* max_papers, and max_results_per_source with it
  MaxFacts,        \* max_facts_per_paper
  MaxRetries,      \* of a search that is throttled; 0 when retry_on is empty
  MaxRuns          \* bound: dispatches

Sources == 1 .. NumSources

\* A source may have several records under one external id: what it answers to a
\* search need not be what it answers when it is asked for the id.
RecordType == [source : Sources, id : Ids, doi : Dois \cup {NoDoi},
               year : Years \cup {NoYear}, authors : SUBSET Surnames, abstract : BOOLEAN]

ASSUME SourcesAssumption == NumSources \in Nat \ {0} /\ Registered \subseteq Sources
ASSUME PapersAssumption == NoPaper \notin Papers /\ Record \in [Papers -> RecordType]
\* paper_<external id>, with ':' and '/' replaced by '_': ids may share a node.
ASSUME NodeIdAssumption == NodeId \in [Ids -> Nodes]
ASSUME AbsentAssumption == NoId \notin Ids /\ NoYear \notin Years /\ NoDoi \notin Dois
ASSUME LimitsAssumption ==
  MaxPapers \in Nat /\ MaxFacts \in Nat /\ MaxRetries \in Nat /\ MaxRuns \in Nat

VARIABLES
  pc,              \* "idle", "search", "papers", "extract", "facts", "fetch",
                   \* "doi", "metadata", "ground"
  query, tries,    \* of each source: "asking", "answered" or "failed"
  found,           \* of each source: its answer
  queue,           \* hits still to look at, the one in hand first
  seen,            \* seen_eids
  left,            \* facts of the paper in hand still to verify
  adapter,         \* the source asked for the DOI
  resolved,        \* the paper that L2 came up with
  owner,           \* of each node of the tree: the external id in its refs
  stored           \* facts of the store: the paper cited, and the one resolved

\* History; only the bound on dispatches reads it.
VARIABLES
  runs,            \* dispatches begun
  trouble,         \* a source failed or had nothing while the fact was verified
  last             \* the outcome for the last fact

search == <<query, tries, found>>
hits == <<queue, seen>>
check == <<adapter, resolved, trouble>>
outcome == <<stored, last>>
vars == <<pc, search, hits, left, check, owner, outcome, runs>>

-----------------------------------------------------------------------------
\* How much of the evidence is in the text: HIGH_THRESHOLD or more, between the
\* threshold of the fallback and that, between LOW_THRESHOLD and the fallback,
\* or LOW_THRESHOLD and less.
Bands == {"high", "upper", "lower", "low"}

\* "none" when there is no judge, when it is not asked and when it fails.
Rulings == {"supported", "unsupported", "none"}

\* What an adapter may answer when it is asked for an id, one of its own or a DOI:
\* nothing compares the answer with what was asked for.
Known(s) == {p \in Papers : Record[p].source = s}

\* Answers of a source to a search.
Hits(s) == UNION {[1 .. k -> Known(s)] : k \in 0 .. MaxPapers}

Outcomes == [paper : Papers \cup {NoPaper}, status : {"none", "failed", "rejected", "verified"},
             resolved : Papers \cup {NoPaper}, band : Bands \cup {"not read"},
             ruling : Rulings, trouble : BOOLEAN]
NoOutcome == [paper |-> NoPaper, status |-> "none", resolved |-> NoPaper,
              band |-> "not read", ruling |-> "none", trouble |-> FALSE]

TypeOK ==
  /\ pc \in {"idle", "search", "papers", "extract", "facts", "fetch", "doi",
             "metadata", "ground"}
  /\ query \in [Sources -> {"asking", "answered", "failed"}]
  /\ tries \in [Sources -> 0 .. MaxRetries]
  /\ found \in [Sources -> Seq(Papers)]
  /\ queue \in Seq(Papers)
  /\ pc \notin {"idle", "search", "papers"} => queue # <<>>
  /\ seen \subseteq Ids
  /\ left \in 0 .. MaxFacts
  /\ pc \in {"fetch", "doi", "metadata", "ground"} => left > 0
  /\ adapter \in 1 .. NumSources + 1
  /\ resolved \in Papers \cup {NoPaper}
  /\ pc \in {"metadata", "ground"} => resolved # NoPaper
  /\ owner \in [Nodes -> Ids \cup {NoId}]
  /\ stored \subseteq [paper : Papers, resolved : Papers]
  /\ runs \in 0 .. MaxRuns
  /\ trouble \in BOOLEAN
  /\ last \in Outcomes

Init ==
  /\ pc = "idle"
  /\ query = [s \in Sources |-> "asking"]
  /\ tries = [s \in Sources |-> 0]
  /\ found = [s \in Sources |-> <<>>]
  /\ queue = <<>>
  /\ seen = {}
  /\ left = 0
  /\ adapter = 1
  /\ resolved = NoPaper
  /\ owner = [n \in Nodes |-> NoId]
  /\ stored = {}
  /\ runs = 0
  /\ trouble = FALSE
  /\ last = NoOutcome

-----------------------------------------------------------------------------
(***************************************************************************)
(* The search: dispatch()                                                  *)
(***************************************************************************)

\* run() is called for a topic and asks every source at once.
Begin ==
  /\ pc = "idle"
  /\ runs < MaxRuns
  /\ runs' = runs + 1
  /\ pc' = "search"
  /\ UNCHANGED <<search, hits, left, check, owner, outcome>>

SourceAnswers(s) ==
  /\ query[s] = "asking"
  /\ pc = "search"
  /\ \E h \in Hits(s) : found' = [found EXCEPT ![s] = h]
  /\ query' = [query EXCEPT ![s] = "answered"]
  /\ UNCHANGED <<pc, tries, hits, left, check, owner, outcome, runs>>

\* Fault: a throttled search is repeated for as long as it is throttled.
SourceThrottledAgain(s) ==
  /\ query[s] = "asking"
  /\ pc = "search"
  /\ tries' = [tries EXCEPT ![s] = IF @ < MaxRetries THEN @ + 1 ELSE 0]
  /\ UNCHANGED <<pc, query, found, hits, left, check, owner, outcome, runs>>

\* A throttled search is repeated, up to the limit.
SourceThrottled(s) ==
  /\ query[s] = "asking"
  /\ pc = "search"
  /\ tries[s] < MaxRetries
  /\ tries' = [tries EXCEPT ![s] = @ + 1]
  /\ UNCHANGED <<pc, query, found, hits, left, check, owner, outcome, runs>>

\* Any other error, and throttling at the limit, leaves the source out.
SourceFails(s) ==
  /\ query[s] = "asking"
  /\ pc = "search"
  /\ query' = [query EXCEPT ![s] = "failed"]
  /\ UNCHANGED <<pc, tries, found, hits, left, check, owner, outcome, runs>>

\* Only the papers are kept of a search.
SearchDone ==
  /\ query' = [s \in Sources |-> "asking"]
  /\ tries' = [s \in Sources |-> 0]
  /\ found' = [s \in Sources |-> <<>>]

\* The papers looked at: the first of all hits, source by source.
Looked ==
  LET upTo[s \in 0 .. NumSources] == IF s = 0 THEN <<>> ELSE upTo[s - 1] \o found[s]
      all == upTo[NumSources]
  IN  SubSeq(all, 1, IF Len(all) < MaxPapers THEN Len(all) ELSE MaxPapers)

\* The external ids that the refs of a node name.
Named == {owner[n] : n \in Nodes} \ {NoId}

\* Fault: one source that fails costs the answers of all others.
MergeUnlessFailed ==
  /\ pc = "search"
  /\ \A s \in Sources : query[s] # "asking"
  /\ queue' = IF \E s \in Sources : query[s] = "failed" THEN <<>> ELSE Looked
  /\ seen' = Named
  /\ pc' = "papers"
  /\ SearchDone
  /\ UNCHANGED <<left, check, owner, outcome, runs>>

\* All sources have answered or failed.
Merge ==
  /\ pc = "search"
  /\ \A s \in Sources : query[s] # "asking"
  /\ queue' = Looked
  /\ seen' = Named
  /\ pc' = "papers"
  /\ SearchDone
  /\ UNCHANGED <<left, check, owner, outcome, runs>>

-----------------------------------------------------------------------------
(***************************************************************************)
(* The papers                                                              *)
(***************************************************************************)

Paper == Head(queue)

IdOf(p) == Record[p].id

NodeOf(p) == NodeId[IdOf(p)]

SkipSeen ==
  /\ pc = "papers"
  /\ queue # <<>>
  /\ IdOf(Paper) \in seen
  /\ queue' = Tail(queue)
  /\ UNCHANGED <<pc, search, seen, left, check, owner, outcome, runs>>

\* The node is created with the external id of the paper, unless there is one.
TakePaper ==
  /\ pc = "papers"
  /\ queue # <<>>
  /\ IdOf(Paper) \notin seen
  /\ seen' = seen \cup {IdOf(Paper)}
  /\ owner' = [owner EXCEPT ![NodeOf(Paper)] = IF @ = NoId THEN IdOf(Paper) ELSE @]
  /\ pc' = "extract"
  /\ UNCHANGED <<search, queue, left, check, outcome, runs>>

\* The model answers with claims; those quoted from the abstract become facts.
Extract ==
  /\ pc = "extract"
  /\ \E k \in 0 .. MaxFacts :
       /\ Record[Paper].abstract \/ k = 0
       /\ left' = k
  /\ pc' = "facts"
  /\ UNCHANGED <<search, hits, check, owner, outcome, runs>>

ClosePaper ==
  /\ pc = "facts"
  /\ left = 0
  /\ queue' = Tail(queue)
  /\ pc' = "papers"
  /\ UNCHANGED <<search, seen, left, check, owner, outcome, runs>>

Return ==
  /\ pc = "papers"
  /\ queue = <<>>
  /\ pc' = "idle"
  /\ UNCHANGED <<search, hits, left, check, owner, outcome, runs>>

-----------------------------------------------------------------------------
(***************************************************************************)
(* The layers: VerificationPipeline.verify                                 *)
(***************************************************************************)

\* The fact is settled; the next one starts from nothing.
Settle(status, band, ruling, troubled) ==
  /\ last' = [paper |-> Paper, status |-> status, resolved |-> resolved, band |-> band,
              ruling |-> ruling, trouble |-> troubled]
  /\ stored' = IF status = "verified"
               THEN stored \cup {[paper |-> Paper, resolved |-> resolved]} ELSE stored
  /\ left' = left - 1
  /\ pc' = "facts"
  /\ adapter' = 1
  /\ resolved' = NoPaper
  /\ trouble' = FALSE

SettleUnresolved(status, troubled) == Settle(status, "not read", "none", troubled)

\* L1: a source that has an adapter, or a DOI.
CheckIdentifier ==
  /\ pc = "facts"
  /\ left > 0
  /\ IF Record[Paper].source \in Registered
     THEN pc' = "fetch" /\ UNCHANGED <<left, check, outcome>>
     ELSE IF Record[Paper].doi # NoDoi
     THEN pc' = "doi" /\ UNCHANGED <<left, check, outcome>>
     ELSE SettleUnresolved("failed", FALSE)
  /\ UNCHANGED <<search, hits, owner, runs>>

\* L2: the adapter of the paper's source is asked for the external id, and has a
\* record, which may say something else than the hit did ...
FetchFinds ==
  /\ pc = "fetch"
  /\ \E p \in Known(Record[Paper].source) : resolved' = p
  /\ pc' = "metadata"
  /\ UNCHANGED <<search, hits, left, adapter, trouble, owner, outcome, runs>>

\* ... or it has not, or fails; then the DOI is tried, if there is one.
FetchMisses ==
  /\ pc = "fetch"
  /\ IF Record[Paper].doi # NoDoi
     THEN pc' = "doi" /\ trouble' = TRUE /\ UNCHANGED <<left, adapter, resolved, outcome>>
     ELSE SettleUnresolved("rejected", TRUE)
  /\ UNCHANGED <<search, hits, owner, runs>>

\* Each adapter is asked for the DOI as if it were an id of its own, until one of
\* them has a paper, whichever that is.
DoiFinds ==
  /\ pc = "doi"
  /\ \E p \in Known(adapter) : resolved' = p
  /\ pc' = "metadata"
  /\ UNCHANGED <<search, hits, left, adapter, trouble, owner, outcome, runs>>

DoiMisses ==
  /\ pc = "doi"
  /\ IF adapter < NumSources
     THEN adapter' = adapter + 1 /\ trouble' = TRUE /\ UNCHANGED <<pc, left, resolved, outcome>>
     ELSE SettleUnresolved("rejected", TRUE)
  /\ UNCHANGED <<search, hits, owner, runs>>

\* L3: a year that both records have is the same ...
YearsMatch(p, q) ==
  Record[p].year # NoYear /\ Record[q].year # NoYear => Record[p].year = Record[q].year

\* Fault: without authors to expect there is nothing to compare.
AuthorsMatchIfAny(p, q) ==
  Record[p].authors # {} => Record[p].authors \cap Record[q].authors # {}

\* ... and the records share a surname.  The hit's authors are a list, maybe an
\* empty one, and never None.
AuthorsMatch(p, q) == Record[p].authors \cap Record[q].authors # {}

CheckMetadata ==
  /\ pc = "metadata"
  /\ IF YearsMatch(Paper, resolved) /\ AuthorsMatch(Paper, resolved)
     THEN pc' = "ground" /\ UNCHANGED <<left, check, outcome>>
     ELSE SettleUnresolved("rejected", trouble)
  /\ UNCHANGED <<search, hits, owner, runs>>

\* Fault: a judge that fails counts as one that agrees.
GroundedUnlessRefused(band, ruling) ==
  band = "high" \/ (band \in {"upper", "lower"} /\ ruling # "unsupported")

\* L4: clear cases are decided by the overlap, the others by the judge, and by
\* the overlap again when there is no ruling.
Grounded(band, ruling) ==
  \/ band = "high"
  \/ band \in {"upper", "lower"} /\ ruling = "supported"
  \/ band = "upper" /\ ruling = "none"

\* The evidence is compared with the abstract of the paper that was resolved.
Ground ==
  /\ pc = "ground"
  /\ \E band \in Bands, ruling \in Rulings :
       /\ ~Record[resolved].abstract => band = "low"
       /\ band \in {"high", "low"} => ruling = "none"
       /\ Settle(IF Grounded(band, ruling) THEN "verified" ELSE "rejected",
                 band, ruling, trouble)
  /\ UNCHANGED <<search, hits, owner, runs>>

-----------------------------------------------------------------------------
Step ==
  \/ \E s \in Sources : SourceAnswers(s) \/ SourceThrottled(s) \/ SourceFails(s)
  \/ Merge
  \/ SkipSeen
  \/ TakePaper
  \/ Extract
  \/ ClosePaper
  \/ Return
  \/ CheckIdentifier
  \/ FetchFinds
  \/ FetchMisses
  \/ DoiFinds
  \/ DoiMisses
  \/ CheckMetadata
  \/ Ground

Next == Begin \/ Step

Spec == Init /\ [][Next]_vars

\* A source answers, or its client times out.
FairSpec == Spec /\ WF_vars(Step)

-----------------------------------------------------------------------------
(***************************************************************************)
(* Properties                                                              *)
(***************************************************************************)

SameWork(p, q) ==
  /\ Record[p].authors \cap Record[q].authors # {}
  /\ Record[p].year = Record[q].year \/ NoYear \in {Record[p].year, Record[q].year}

\* A fact in the store cites a paper with authors, and was compared with a record
\* that has one of them and no other year, whatever the source answered for its id
\* or another one for its DOI (verify, _check_metadata).
StoredMatchRecords ==
  \A f \in stored : SameWork(f.paper, f.resolved)

\* Whether the source of a paper has an adapter that is asked for it.
Asked(p) == Record[p].source \in Registered

\* A fact that is verified has its evidence in the text, or much of it and no
\* ruling against it, or some of it and a ruling for it; and it was compared with
\* a record of its own source, unless it has a DOI and its source is not asked or
\* has failed (verify, _resolve, GroundingVerifier.verify).
VerifiedForCause ==
  last.status = "verified" =>
    /\ last.band # "low"
    /\ last.ruling # "unsupported"
    /\ last.band = "lower" => last.ruling = "supported"
    /\ Record[last.resolved].source # Record[last.paper].source =>
         /\ Record[last.paper].doi # NoDoi
         /\ last.trouble \/ ~Asked(last.paper)

\* A fact is refused without a record only when no source can be asked, or one
\* that was asked failed or had nothing; and with a record only when the record
\* is that of another work, or the evidence is not in its text and no judge
\* said otherwise.
RefusedForCause ==
  last.status \in {"failed", "rejected"} =>
    \/ /\ last.resolved = NoPaper
       /\ last.trouble \/ (~Asked(last.paper) /\ Record[last.paper].doi = NoDoi)
    \/ /\ last.resolved # NoPaper
       /\ \/ ~SameWork(last.paper, last.resolved)
          \/ last.band \in {"lower", "low"}
          \/ last.ruling = "unsupported"

\* Every fact that is settled is verified or refused for a cause.
SettledForCause == VerifiedForCause /\ RefusedForCause

\* However the others fare, what a source has found is looked at, unless as many
\* hits as allowed are (dispatch, gather with return_exceptions).
NoneLeftOut ==
  [][pc = "search" /\ pc' = "papers" =>
       \A s \in Sources : \A i \in DOMAIN found[s] :
         Len(queue') < MaxPapers =>
           \E j \in DOMAIN queue' : queue'[j] = found[s][i]]_vars

\* A dispatch ends, whatever the sources, the extractor and the judge answer.
RunEnds == pc # "idle" ~> pc = "idle"
=============================================================================
