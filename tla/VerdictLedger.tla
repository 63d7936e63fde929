---------------------------- MODULE VerdictLedger ----------------------------
(***************************************************************************)
(* The append-only verdict ledger of hypothesis/ledger.py: an in-memory    *)
(* list of entries and the file verdict-ledger.jsonl, which is opened,     *)
(* written and closed for each entry and read once, on construction.       *)
(*                                                                         *)
(* The file is a sequence of lines and each line a sequence of chunks, one *)
(* per write that reached it; the last line is the unterminated tail, and  *)
(* is empty after a write that ended in its newline.  An interrupted write *)
(* may be the death of the process or an OSError it survives.              *)
(***************************************************************************)
EXTENDS Sequences, SequencesExt, Integers

CONSTANTS
  MaxEntries,           \* bound: appends in a behaviour
  MaxInterrupts         \* bound: interrupted appends in a behaviour

ASSUME BoundsAssumption == MaxEntries \in Nat /\ MaxInterrupts \in Nat

VARIABLES
  up,                   \* a VerdictLedger object exists
  entries,              \* its _entries
  file                  \* the lines of the file

\* History; no guard reads it, except for the bounds.
VARIABLES
  issued,               \* appends begun so far; the k-th appends entry k
  acked,                \* entries whose append returned
  interrupts            \* appends that were cut short

vars == <<up, entries, file, issued, acked, interrupts>>

Entries == 1 .. MaxEntries

\* A chunk is whole when the entire JSON object of its entry is there.
Chunk == [entry : Entries, whole : BOOLEAN]

TypeOK ==
  /\ up \in BOOLEAN
  /\ entries \in Seq(Entries)
  /\ file \in Seq(Seq(Chunk)) \ {<<>>}
  /\ issued \in Nat
  /\ acked \in SUBSET Entries
  /\ interrupts \in Nat

Init ==
  /\ up = FALSE
  /\ entries = <<>>
  /\ file = << <<>> >>
  /\ issued = 0
  /\ acked = {}
  /\ interrupts = 0

-----------------------------------------------------------------------------
\* The file with a chunk of entry e glued to its tail.
Written(f, e, w) ==
  [f EXCEPT ![Len(f)] = Append(@, [entry |-> e, whole |-> w])]

\* The write of an entry: its object and a newline.
Line(f, e) == Append(Written(f, e, TRUE), <<>>)

\* What else the file may hold when the write is interrupted.
Interrupted(f, e) == {f, Written(f, e, FALSE), Written(f, e, TRUE)}

\* json.loads accepts a line that is one object, and no other: a blank line
\* is passed over, and two objects or a torn one raise JSONDecodeError.
Parses(line) == Len(line) = 1 /\ line[1].whole

\* Fault: a line that does not parse is loaded as an entry that is nobody's.
LoadedWithGaps(f) ==
  LET used == SelectSeq(f, LAMBDA line : line # <<>>)
  IN  [i \in 1 .. Len(used) |-> IF Parses(used[i]) THEN used[i][1].entry ELSE 0]

\* Fault: loading breaks off at the first line that does not parse.
LoadedUntilBad(f) ==
  LET bad == {i \in 1 .. Len(f) : f[i] # <<>> /\ ~Parses(f[i])}
      good == SelectSeq(IF bad = {} THEN f ELSE SubSeq(f, 1, Min(bad) - 1), Parses)
  IN  [i \in 1 .. Len(good) |-> good[i][1].entry]

\* The entries a constructor reads from the file, in the file's order.
Loaded(f) ==
  LET upTo[n \in 0 .. Len(f)] ==
        IF n = 0 THEN <<>>
        ELSE IF Parses(f[n]) THEN Append(upTo[n - 1], f[n][1].entry)
        ELSE upTo[n - 1]
  IN  upTo[Len(f)]

-----------------------------------------------------------------------------
\* __init__
Open ==
  /\ ~up
  /\ up' = TRUE
  /\ entries' = Loaded(file)
  /\ UNCHANGED <<file, issued, acked, interrupts>>

\* The next entry is made and cached: first half of every append.
Begin ==
  /\ up
  /\ issued < MaxEntries
  /\ issued' = issued + 1

\* Fault: each append writes the whole cache again.
AppendAll ==
  /\ Begin
  /\ entries' = Append(entries, issued')
  /\ file' = FoldLeft(Line, file, entries')
  /\ acked' = acked \cup {issued'}
  /\ UNCHANGED <<up, interrupts>>

\* append, undisturbed.
AppendEntry ==
  /\ Begin
  /\ entries' = Append(entries, issued')
  /\ file' = Line(file, issued')
  /\ acked' = acked \cup {issued'}
  /\ UNCHANGED <<up, interrupts>>

\* Fault: the entry is cached after the write, so an error skips the cache.
FailUncached ==
  /\ Begin
  /\ interrupts < MaxInterrupts
  /\ interrupts' = interrupts + 1
  /\ file' \in Interrupted(file, issued')
  /\ UNCHANGED <<up, entries, acked>>

\* append raises OSError after the entry was cached; the object lives on.
Fail ==
  /\ Begin
  /\ interrupts < MaxInterrupts
  /\ interrupts' = interrupts + 1
  /\ entries' = Append(entries, issued')
  /\ file' \in Interrupted(file, issued')
  /\ UNCHANGED <<up, acked>>

\* The process dies in append, and what it had written so far stays.
Die ==
  /\ Begin
  /\ interrupts < MaxInterrupts
  /\ interrupts' = interrupts + 1
  /\ up' = FALSE
  /\ entries' = <<>>
  /\ file' \in Interrupted(file, issued')
  /\ UNCHANGED acked

\* The process ends, or dies, outside append.
Close ==
  /\ up
  /\ up' = FALSE
  /\ entries' = <<>>
  /\ UNCHANGED <<file, issued, acked, interrupts>>

Next == Open \/ AppendEntry \/ Fail \/ Die \/ Close

Spec == Init /\ [][Next]_vars

-----------------------------------------------------------------------------
(***************************************************************************)
(* Properties                                                              *)
(***************************************************************************)

\* Whatever was interrupted, a re-opened ledger shows entries that were really
\* appended, each once and in the order they were appended.
LoadsInOrder ==
  LET seen == Loaded(file)
  IN  /\ \A i \in 1 .. Len(seen) : seen[i] <= issued
      /\ \A i, j \in 1 .. Len(seen) : i < j => seen[i] < seen[j]

\* Each interrupted append costs a re-opened reader at most one entry whose
\* append had returned.
LossBounded ==
  Cardinality(acked \ Range(Loaded(file))) <= interrupts

\* A live object knows every entry that a re-opened one would: what resume may
\* rely on to be settled is never unknown to the process that settled it.
CacheCoversFile == up => Range(Loaded(file)) \subseteq Range(entries)

\* The lines implement the ledger that the other modules use.
Compact == INSTANCE LedgerFile WITH
  Entry <- Entries,
  ledger <- [readable |-> Range(Loaded(file)),
             open |-> IF Parses(Last(file)) THEN {Last(file)[1].entry} ELSE {},
             torn |-> Last(file) # <<>> /\ ~Parses(Last(file))]

ImplementsLedgerFile == Compact!Spec

\* The module's own text: each append flushes its line so that entries survive
\* process restart, and a partially written file never corrupts other records.
AppendedEntriesSurvive == acked \subseteq Range(Loaded(file))
=============================================================================
