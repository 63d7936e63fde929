------------------------ MODULE VerdictLedgerProofs -------------------------
(***************************************************************************)
(* Proofs about VerdictLedger, for any number of entries and of            *)
(* interrupted appends: type correctness, what a re-opened ledger shows,   *)
(* what an interruption may cost, and the refinement of LedgerFile.        *)
(*                                                                         *)
(* A file is looked at as its terminated lines and its tail.  What the     *)
(* former hold never changes again; an append, whole or cut short, adds    *)
(* one chunk to the tail.                                                  *)
(***************************************************************************)
EXTENDS VerdictLedger, Recursion, FiniteSetTheorems, SequenceTheorems

FileLine == Seq(Chunk)

-----------------------------------------------------------------------------
(***************************************************************************)
(* Loading, line by line                                                   *)
(***************************************************************************)

\* The entries of the first n lines, for each n.
LoadedUpTo(f) ==
  CHOOSE upTo : upTo =
    [n \in 0 .. Len(f) |->
      IF n = 0 THEN <<>>
      ELSE IF Parses(f[n]) THEN Append(upTo[n - 1], f[n][1].entry)
      ELSE upTo[n - 1]]

\* Loaded is the last of them.
LEMMA LoadedIsLast ==
  \A f : Loaded(f) = LoadedUpTo(f)[Len(f)]
  BY DEF Loaded, LoadedUpTo

\* A line that parses has an entry.
LEMMA ParsedEntry ==
  ASSUME NEW line \in FileLine, Parses(line)
  PROVE  line[1].entry \in Entries
<1>1. Len(line) = 1
  BY DEF Parses
<1>2. line[1] \in Chunk
  BY <1>1 DEF FileLine
<1> QED
  BY <1>2 DEF Chunk

\* What is loaded of n lines follows from what is loaded of n - 1.
LEMMA LoadedLineByLine ==
  ASSUME NEW f \in Seq(FileLine)
  PROVE  /\ LoadedUpTo(f)[0] = <<>>
         /\ \A n \in 0 .. Len(f) : LoadedUpTo(f)[n] \in Seq(Entries)
         /\ \A n \in 1 .. Len(f) :
              LoadedUpTo(f)[n] = IF Parses(f[n])
                                 THEN Append(LoadedUpTo(f)[n - 1], f[n][1].entry)
                                 ELSE LoadedUpTo(f)[n - 1]
<1> DEFINE N == Len(f)
           D == Seq(Entries)
           step == [nd \in (1 .. N) \X D |->
                     IF Parses(f[nd[1]]) THEN Append(nd[2], f[nd[1]][1].entry)
                     ELSE nd[2]]
           Eq(g) == g = [n \in 0 .. N |->
                          IF n = 0 THEN <<>>
                          ELSE IF Parses(f[n]) THEN Append(g[n - 1], f[n][1].entry)
                          ELSE g[n - 1]]
<1>1. N \in Nat /\ <<>> \in D
  OBVIOUS
<1>2. step \in [(1 .. N) \X D -> D]
  <2>1. ASSUME NEW n \in 1 .. N, NEW d \in D
        PROVE  (IF Parses(f[n]) THEN Append(d, f[n][1].entry) ELSE d) \in D
    <3>1. f[n] \in FileLine
      OBVIOUS
    <3>2. Parses(f[n]) => f[n][1].entry \in Entries
      BY <3>1, ParsedEntry
    <3> QED
      BY <3>2
  <2> QED
    BY <2>1
<1>3. PICK g : Stepwise(g, N, D, <<>>, step)
  <2> DEFINE start == <<>>
  <2>1. start \in D
    BY <1>1
  <2>2. \E g : Stepwise(g, N, D, start, step)
    <3> HIDE DEF N, D, step, start
    <3> QED
      BY <1>1, <1>2, <2>1, StepwiseExists
  <2> QED
    BY <2>2
<1>4. /\ g \in [0 .. N -> D]
      /\ g[0] = <<>>
      /\ \A n \in 1 .. N : g[n] = step[<<n, g[n - 1]>>]
  <2> HIDE DEF N, D, step
  <2> QED
    BY <1>3 DEF Stepwise
<1>5. \A n \in 1 .. N : g[n - 1] \in D /\ <<n, g[n - 1]>> \in (1 .. N) \X D
  <2> HIDE DEF D, step
  <2> QED
    BY <1>1, <1>4
<1>6. \A n \in 1 .. N :
        step[<<n, g[n - 1]>>] =
          IF Parses(f[n]) THEN Append(g[n - 1], f[n][1].entry) ELSE g[n - 1]
  <2> HIDE DEF N, D
  <2> QED
    BY <1>5
<1>7. Eq(g)
  <2>1. \A n \in 0 .. N : n # 0 => n \in 1 .. N
    BY <1>1
  <2>2. \A n \in 0 .. N :
          g[n] = IF n = 0 THEN <<>>
                 ELSE IF Parses(f[n]) THEN Append(g[n - 1], f[n][1].entry)
                 ELSE g[n - 1]
    <3> HIDE DEF step, N
    <3> QED BY <1>4, <1>6, <2>1
  <2> HIDE DEF step, N
  <2> QED
    BY <1>4, <2>2
<1>8. Eq(LoadedUpTo(f))
  <2>1. LoadedUpTo(f) = CHOOSE h : Eq(h)
    BY DEF LoadedUpTo
  <2> HIDE DEF Eq
  <2> QED
    BY <1>7, <2>1
<1> DEFINE u == LoadedUpTo(f)
<1>9. /\ u[0] = <<>>
      /\ \A n \in 1 .. N :
           u[n] = IF Parses(f[n]) THEN Append(u[n - 1], f[n][1].entry) ELSE u[n - 1]
  <2>1. u = [n \in 0 .. N |->
                          IF n = 0 THEN <<>>
                          ELSE IF Parses(f[n]) THEN Append(u[n - 1], f[n][1].entry)
                          ELSE u[n - 1]]
    BY <1>8
  <2>2. 0 \in 0 .. N /\ \A n \in 1 .. N : n \in 0 .. N /\ n # 0
    BY <1>1
  <2> HIDE DEF u, N
  <2> QED
    BY <2>1, <2>2
<1>10. \A n \in 0 .. N : u[n] \in D
  <2> DEFINE S == {n \in 0 .. N : u[n] \in D}
  <2>1. 0 \in S
    <3>1. u[0] \in D /\ 0 \in 0 .. N
      <4> HIDE DEF u, N, D
      <4> QED BY <1>1, <1>9
    <3> QED
      BY <3>1
  <2>2. ASSUME NEW n \in 0 .. N, n < N, n \in S
        PROVE  n + 1 \in S
    <3>1. n + 1 \in 1 .. N /\ (n + 1) - 1 = n /\ n + 1 \in 0 .. N
      BY <2>2, <1>1
    <3>2. Parses(f[n + 1]) => f[n + 1][1].entry \in Entries
      BY <3>1, ParsedEntry
    <3>3. u[n + 1] = IF Parses(f[n + 1]) THEN Append(u[n], f[n + 1][1].entry) ELSE u[n]
      <4> HIDE DEF u, N
      <4> QED BY <3>1, <1>9
    <3>4. u[n] \in D
      BY <2>2
    <3>5. u[n + 1] \in D
      <4> HIDE DEF u, N
      <4> QED BY <3>2, <3>3, <3>4
    <3> QED
      BY <3>1, <3>5
  <2>3. \A n \in 0 .. N : n \in S
    <3> HIDE DEF S, N
    <3> QED BY <1>1, <2>1, <2>2, BoundedInduction
  <2> QED
    BY <2>3
<1> QED
  BY <1>9, <1>10

\* Two files that begin alike load alike.
LEMMA LoadedAlike ==
  ASSUME NEW f \in Seq(FileLine), NEW g \in Seq(FileLine), NEW k \in Nat,
         k <= Len(f), k <= Len(g), \A n \in 1 .. k : f[n] = g[n]
  PROVE  LoadedUpTo(f)[k] = LoadedUpTo(g)[k]
<1> DEFINE S == {n \in 0 .. k : LoadedUpTo(f)[n] = LoadedUpTo(g)[n]}
<1>1. 0 \in S
  BY LoadedLineByLine
<1>2. ASSUME NEW n \in 0 .. k, n < k, n \in S
      PROVE  n + 1 \in S
  <2>1. /\ n + 1 \in 1 .. k /\ (n + 1) - 1 = n /\ n + 1 \in 0 .. k
        /\ n + 1 \in 1 .. Len(f) /\ n + 1 \in 1 .. Len(g)
    BY <1>2
  <2>2. f[n + 1] = g[n + 1]
    BY <2>1
  <2>3. /\ LoadedUpTo(f)[n + 1] = IF Parses(f[n + 1])
                                 THEN Append(LoadedUpTo(f)[n], f[n + 1][1].entry)
                                 ELSE LoadedUpTo(f)[n]
        /\ LoadedUpTo(g)[n + 1] = IF Parses(g[n + 1])
                                 THEN Append(LoadedUpTo(g)[n], g[n + 1][1].entry)
                                 ELSE LoadedUpTo(g)[n]
    BY <2>1, LoadedLineByLine
  <2>4. LoadedUpTo(f)[n] = LoadedUpTo(g)[n]
    BY <1>2
  <2> QED
    BY <2>1, <2>2, <2>3, <2>4
<1>3. \A n \in 0 .. k : n \in S
  <2> HIDE DEF S
  <2> QED BY <1>1, <1>2, BoundedInduction
<1> QED
  BY <1>3

\* Loading gives entries.
LEMMA LoadedType ==
  ASSUME NEW f \in Seq(FileLine)
  PROVE  Loaded(f) \in Seq(Entries)
  BY LoadedIsLast, LoadedLineByLine

\* An empty file loads as nothing.
LEMMA LoadedOfNothing == Loaded(<<>>) = <<>>
<1>1. <<>> \in Seq(FileLine) /\ Len(<<>>) = 0
  OBVIOUS
<1>2. LoadedUpTo(<<>>)[0] = <<>>
  BY <1>1, LoadedLineByLine
<1> QED
  BY <1>1, <1>2, LoadedIsLast

\* One more line adds its entry, if it parses, and nothing otherwise.
LEMMA LoadedOfOneMore ==
  ASSUME NEW f \in Seq(FileLine), NEW line \in FileLine
  PROVE  Loaded(Append(f, line)) =
           IF Parses(line) THEN Append(Loaded(f), line[1].entry) ELSE Loaded(f)
<1> DEFINE g == Append(f, line)
<1>1. /\ g \in Seq(FileLine) /\ Len(g) = Len(f) + 1 /\ g[Len(f) + 1] = line
      /\ \A n \in 1 .. Len(f) : g[n] = f[n]
  OBVIOUS
<1>2. LoadedUpTo(g)[Len(f)] = LoadedUpTo(f)[Len(f)]
  <2> HIDE DEF g
  <2> QED BY <1>1, LoadedAlike
<1>3. Len(g) \in 1 .. Len(g) /\ Len(g) - 1 = Len(f)
  BY <1>1
<1>4. LoadedUpTo(g)[Len(g)] =
        IF Parses(g[Len(g)]) THEN Append(LoadedUpTo(g)[Len(g) - 1], g[Len(g)][1].entry)
        ELSE LoadedUpTo(g)[Len(g) - 1]
  <2> HIDE DEF g
  <2> QED BY <1>1, <1>3, LoadedLineByLine
<1> QED
  BY <1>1, <1>2, <1>3, <1>4, LoadedIsLast

-----------------------------------------------------------------------------
(***************************************************************************)
(* The tail of a file, and what an append makes of it                      *)
(***************************************************************************)

Files == Seq(FileLine) \ {<<>>}

\* What is loaded of the lines that are terminated.
Settled(f) == Loaded(Front(f))

\* A file is its terminated lines and its tail.
LEMMA TailSplits ==
  ASSUME NEW f \in Files
  PROVE  /\ Front(f) \in Seq(FileLine)
         /\ Last(f) \in FileLine
         /\ f = Append(Front(f), Last(f))
<1>1. Len(f) \in Nat \ {0} /\ f \in Seq(FileLine)
  BY DEF Files
<1>2. Front(f) \in Seq(FileLine) /\ Last(f) \in FileLine
  BY <1>1 DEF Front, Last
<1>3. f = Append(Front(f), Last(f))
  BY <1>1 DEF Front, Last
<1> QED
  BY <1>2, <1>3

\* A line is put after the terminated ones and becomes the tail.
LEMMA LineBecomesTail ==
  ASSUME NEW f \in Seq(FileLine), NEW line \in FileLine
  PROVE  /\ Append(f, line) \in Files
         /\ Front(Append(f, line)) = f
         /\ Last(Append(f, line)) = line
  BY DEF Files, Front, Last

\* Only the tail can change what is loaded.
LEMMA LoadedByTail ==
  ASSUME NEW f \in Files
  PROVE  /\ Settled(f) \in Seq(Entries)
         /\ Loaded(f) = IF Parses(Last(f)) THEN Append(Settled(f), Last(f)[1].entry)
                        ELSE Settled(f)
  BY TailSplits, LoadedOfOneMore, LoadedType DEF Settled

\* An empty line does not parse; one chunk does when it is whole; two never do.
LEMMA WhatParses ==
  /\ ~Parses(<<>>)
  /\ \A line \in FileLine, c \in Chunk :
       /\ Append(line, c) \in FileLine /\ Append(line, c) # <<>>
       /\ Parses(Append(line, c)) <=> line = <<>> /\ c.whole
       /\ line = <<>> => Append(line, c)[1] = c
<1>1. ~Parses(<<>>)
  BY DEF Parses
<1>2. ASSUME NEW line \in FileLine, NEW c \in Chunk
      PROVE  /\ Append(line, c) \in FileLine /\ Append(line, c) # <<>>
             /\ Parses(Append(line, c)) <=> line = <<>> /\ c.whole
             /\ line = <<>> => Append(line, c)[1] = c
  <2>1. /\ Append(line, c) \in FileLine
        /\ Len(Append(line, c)) = Len(line) + 1
        /\ Len(line) \in Nat
        /\ line = <<>> <=> Len(line) = 0
        /\ Append(line, c)[Len(line) + 1] = c
    BY DEF FileLine
  <2>2. Append(line, c) # <<>>
    BY <2>1
  <2>3. line = <<>> => Append(line, c)[1] = c
    BY <2>1
  <2>4. Len(Append(line, c)) = 1 <=> line = <<>>
    BY <2>1
  <2>5. Parses(Append(line, c)) <=> line = <<>> /\ c.whole
    <3>1. CASE line = <<>>
      <4>1. Append(line, c)[1].whole = c.whole
        BY <3>1, <2>3
      <4> QED
        BY <4>1, <3>1, <2>4 DEF Parses
    <3>2. CASE line # <<>>
      BY <3>2, <2>4 DEF Parses
    <3> QED
      BY <3>1, <3>2
  <2> QED
    BY <2>1, <2>2, <2>3, <2>5
<1> QED
  BY <1>1, <1>2

\* A chunk goes to the tail.  It can be loaded when it is whole and the tail was
\* empty; what the tail had before can be loaded no more.
LEMMA WrittenEffect ==
  ASSUME NEW f \in Files, NEW e \in Entries, NEW w \in BOOLEAN
  PROVE  LET g == Written(f, e, w)
         IN  /\ g \in Files
             /\ Last(g) \in FileLine /\ Last(g) # <<>>
             /\ Parses(Last(g)) <=> Last(f) = <<>> /\ w
             /\ Parses(Last(g)) => Last(g)[1].entry = e
             /\ Loaded(g) = IF Last(f) = <<>> /\ w THEN Append(Settled(f), e)
                            ELSE Settled(f)
<1> DEFINE c == [entry |-> e, whole |-> w]
           tail == Append(Last(f), c)
           g == Written(f, e, w)
<1>1. c \in Chunk /\ c.whole = w /\ c.entry = e
  BY DEF Chunk
<1>2. /\ Front(f) \in Seq(FileLine) /\ Last(f) \in FileLine
      /\ f = Append(Front(f), Last(f))
  BY TailSplits
<1>3. /\ tail \in FileLine /\ tail # <<>>
      /\ Parses(tail) <=> Last(f) = <<>> /\ w
      /\ Last(f) = <<>> => tail[1] = c
  <2> HIDE DEF c
  <2> QED BY <1>1, <1>2, WhatParses
<1>4. g = Append(Front(f), tail)
  <2>1. f \in Seq(FileLine) /\ Len(f) \in Nat \ {0}
    BY DEF Files
  <2>2. g = [f EXCEPT ![Len(f)] = tail]
    BY <2>1 DEF Written, Last
  <2> HIDE DEF tail, g
  <2>3. g \in Seq(FileLine) /\ Append(Front(f), tail) \in Seq(FileLine)
    BY <2>1, <2>2, <1>2, <1>3
  <2>4. Len(g) = Len(f) /\ Len(Append(Front(f), tail)) = Len(f)
    BY <2>1, <2>2, <1>2 DEF Front
  <2>5. ASSUME NEW i \in 1 .. Len(f)
        PROVE  g[i] = Append(Front(f), tail)[i]
    <3>1. CASE i = Len(f)
      <4>1. g[i] = tail
        BY <3>1, <2>1, <2>2
      <4>2. Len(Front(f)) + 1 = Len(f)
        BY <2>1, <1>2 DEF Front
      <4> QED
        BY <3>1, <4>1, <4>2, <1>2
    <3>2. CASE i # Len(f)
      <4>1. g[i] = f[i]
        BY <3>2, <2>1, <2>2
      <4>2. i \in 1 .. Len(Front(f)) /\ Front(f)[i] = f[i]
        BY <3>2, <2>1 DEF Front
      <4> QED
        BY <4>1, <4>2, <1>2
    <3> QED
      BY <3>1, <3>2
  <2> QED
    BY <2>3, <2>4, <2>5, SeqEqual
<1>5. g \in Files /\ Front(g) = Front(f) /\ Last(g) = tail
  <2> HIDE DEF tail, g
  <2> QED BY <1>2, <1>3, <1>4, LineBecomesTail
<1>6. Loaded(g) = IF Parses(tail) THEN Append(Settled(f), tail[1].entry) ELSE Settled(f)
  <2> HIDE DEF tail, g
  <2> QED BY <1>5, LoadedByTail DEF Settled
<1> HIDE DEF tail, g
<1>7. Loaded(g) = IF Last(f) = <<>> /\ w THEN Append(Settled(f), e) ELSE Settled(f)
  BY <1>1, <1>3, <1>6
<1>8. Parses(Last(g)) => Last(g)[1].entry = e
  BY <1>1, <1>3, <1>5
<1>9. Last(g) \in FileLine /\ Last(g) # <<>> /\ (Parses(Last(g)) <=> Last(f) = <<>> /\ w)
  BY <1>3, <1>5
<1> QED
  BY <1>5, <1>7, <1>8, <1>9 DEF g

\* The whole line, with its newline, leaves an empty tail.
LEMMA LineEffect ==
  ASSUME NEW f \in Files, NEW e \in Entries
  PROVE  /\ Line(f, e) \in Files
         /\ Last(Line(f, e)) = <<>>
         /\ Loaded(Line(f, e)) = IF Last(f) = <<>> THEN Append(Settled(f), e)
                                 ELSE Settled(f)
<1>1. /\ Written(f, e, TRUE) \in Files
      /\ Loaded(Written(f, e, TRUE)) = IF Last(f) = <<>> THEN Append(Settled(f), e)
                                       ELSE Settled(f)
  BY WrittenEffect
<1>2. <<>> \in FileLine
  BY DEF FileLine
<1>3. Written(f, e, TRUE) \in Seq(FileLine)
  BY <1>1 DEF Files
<1> QED
  BY <1>1, <1>2, <1>3, LineBecomesTail, LoadedOfOneMore, WhatParses DEF Line

-----------------------------------------------------------------------------
(***************************************************************************)
(* Type correctness                                                        *)
(***************************************************************************)

\* The files of the type invariant.
LEMMA FilesAreTyped == Files = Seq(Seq(Chunk)) \ {<<>>}
  BY DEF Files, FileLine

\* No entries, and a file without a line.
LEMMA EmptyIsTyped == <<>> \in Seq(Entries) /\ << <<>> >> \in Files
<1>1. << <<>> >> \in Seq(FileLine)
  BY DEF FileLine
<1> QED
  BY <1>1 DEF Files

\* The entry that an append makes.
LEMMA NextEntry ==
  ASSUME TypeOK, issued < MaxEntries
  PROVE  issued + 1 \in Entries
  BY BoundsAssumption DEF TypeOK, Entries

\* Whatever is left of a cut append is a file.
LEMMA CutAppendIsFile ==
  ASSUME NEW f \in Files, NEW e \in Entries, NEW g \in Interrupted(f, e)
  PROVE  g \in Files
  BY WrittenEffect DEF Interrupted

\* The object, its cache and the lines of the file are of their kinds, whatever
\* an append leaves when it is cut short: ledger.py, __init__ and append.
THEOREM TypeCorrect == Spec => []TypeOK
<1>1. Init => TypeOK
  <2> SUFFICES ASSUME Init PROVE TypeOK
    OBVIOUS
  <2>1. entries \in Seq(Entries) /\ file \in Files
    BY EmptyIsTyped DEF Init
  <2> QED
    BY <2>1, FilesAreTyped DEF Init, TypeOK
<1>2. TypeOK /\ [Next]_vars => TypeOK'
  <2> SUFFICES ASSUME TypeOK, [Next]_vars PROVE TypeOK'
    OBVIOUS
  <2>1. CASE Open
    BY <2>1, FilesAreTyped, LoadedType DEF TypeOK, Open, Files
  <2>2. CASE AppendEntry
    <3>1. issued + 1 \in Entries /\ issued + 1 \in Nat
      BY <2>2, NextEntry DEF AppendEntry, Begin, TypeOK
    <3>2. Line(file, issued + 1) \in Files
      BY <3>1, FilesAreTyped, LineEffect DEF TypeOK
    <3> QED
      BY <2>2, <3>1, <3>2, FilesAreTyped DEF TypeOK, AppendEntry, Begin
  <2>3. CASE Fail
    <3>1. issued + 1 \in Entries /\ issued + 1 \in Nat
      BY <2>3, NextEntry DEF Fail, Begin, TypeOK
    <3>2. file' \in Files
      BY <2>3, <3>1, FilesAreTyped, CutAppendIsFile DEF TypeOK, Fail, Begin
    <3> QED
      BY <2>3, <3>1, <3>2, FilesAreTyped DEF TypeOK, Fail, Begin
  <2>4. CASE Die
    <3>1. issued + 1 \in Entries /\ issued + 1 \in Nat
      BY <2>4, NextEntry DEF Die, Begin, TypeOK
    <3>2. file' \in Files
      BY <2>4, <3>1, FilesAreTyped, CutAppendIsFile DEF TypeOK, Die, Begin
    <3>3. entries' \in Seq(Entries)
      BY <2>4, EmptyIsTyped DEF Die
    <3>4. issued' \in Nat /\ acked' \in SUBSET Entries /\ interrupts' \in Nat
      <4>1. issued \in Nat /\ acked \in SUBSET Entries /\ interrupts \in Nat
        BY DEF TypeOK
      <4>2. issued' = issued + 1 /\ acked' = acked /\ interrupts' = interrupts + 1
        BY <2>4 DEF Die, Begin
      <4> QED
        BY <4>1, <4>2
    <3>5. up' \in BOOLEAN
      BY <2>4 DEF Die
    <3> QED
      BY <3>2, <3>3, <3>4, <3>5, FilesAreTyped DEF TypeOK
  <2>5. CASE Close
    BY <2>5, EmptyIsTyped DEF TypeOK, Close
  <2>6. CASE UNCHANGED vars
    BY <2>6 DEF TypeOK, vars
  <2> QED
    BY <2>1, <2>2, <2>3, <2>4, <2>5, <2>6 DEF Next
<1> QED
  BY <1>1, <1>2, PTL DEF Spec

-----------------------------------------------------------------------------
(***************************************************************************)
(* The order of what is loaded                                             *)
(***************************************************************************)

\* Entries among the first n, each once and in order.
Ordered(seen, n) ==
  /\ \A i \in 1 .. Len(seen) : seen[i] <= n
  /\ \A i, j \in 1 .. Len(seen) : i < j => seen[i] < seen[j]

\* The next entry may follow.
LEMMA OrderedGrows ==
  ASSUME NEW s \in Seq(Entries), NEW n \in Nat, Ordered(s, n)
  PROVE  /\ Ordered(s, n + 1)
         /\ n + 1 \in Entries => Ordered(Append(s, n + 1), n + 1)
<1>1. \A i \in 1 .. Len(s) : s[i] \in Nat /\ s[i] <= n /\ s[i] < n + 1
  <2>1. \A i \in 1 .. Len(s) : s[i] \in Entries
    OBVIOUS
  <2> QED
    BY <2>1 DEF Ordered, Entries
<1>2. Ordered(s, n + 1)
  BY <1>1 DEF Ordered
<1>3. ASSUME n + 1 \in Entries
      PROVE  Ordered(Append(s, n + 1), n + 1)
  <2> DEFINE t == Append(s, n + 1)
  <2>1. /\ Len(t) = Len(s) + 1 /\ t[Len(s) + 1] = n + 1 /\ Len(s) \in Nat
        /\ \A i \in 1 .. Len(s) : t[i] = s[i]
    BY <1>3
  <2>2. \A i \in 1 .. Len(t) : i \in 1 .. Len(s) \/ i = Len(s) + 1
    BY <2>1
  <2> HIDE DEF t
  <2>3. \A i \in 1 .. Len(t) : t[i] <= n + 1
    BY <2>1, <2>2, <1>1
  <2>4. \A i, j \in 1 .. Len(t) : i < j => t[i] < t[j]
    <3> SUFFICES ASSUME NEW i \in 1 .. Len(t), NEW j \in 1 .. Len(t), i < j
                 PROVE  t[i] < t[j]
      OBVIOUS
    <3>1. i \in 1 .. Len(s) /\ t[i] = s[i]
      BY <2>1
    <3>2. CASE j \in 1 .. Len(s)
      BY <3>1, <3>2, <2>1 DEF Ordered
    <3>3. CASE j = Len(s) + 1
      BY <3>1, <3>3, <2>1, <1>1
    <3> QED
      BY <2>2, <3>2, <3>3
  <2> QED
    BY <2>3, <2>4 DEF Ordered, t
<1> QED
  BY <1>2, <1>3

\* Without the last one they are still in order, and the last one is not among them.
LEMMA OrderedShrinks ==
  ASSUME NEW s \in Seq(Entries), NEW e \in Entries, NEW n \in Nat, Ordered(Append(s, e), n)
  PROVE  Ordered(s, n) /\ e \notin Range(s)
<1> DEFINE t == Append(s, e)
<1>1. /\ Len(t) = Len(s) + 1 /\ t[Len(s) + 1] = e /\ Len(s) \in Nat
      /\ \A i \in 1 .. Len(s) : t[i] = s[i] /\ s[i] \in Entries
  OBVIOUS
<1>2. /\ \A i \in 1 .. Len(t) : t[i] <= n
      /\ \A i, j \in 1 .. Len(t) : i < j => t[i] < t[j]
  BY DEF Ordered
<1> HIDE DEF t
<1>3. Ordered(s, n)
  BY <1>1, <1>2 DEF Ordered
<1>4. \A i \in 1 .. Len(s) : s[i] < e
  <2> SUFFICES ASSUME NEW i \in 1 .. Len(s)
               PROVE  s[i] < e
    OBVIOUS
  <2>1. /\ i \in 1 .. Len(t) /\ Len(s) + 1 \in 1 .. Len(t) /\ i < Len(s) + 1
        /\ t[i] = s[i]
    BY <1>1
  <2> QED
    BY <1>1, <1>2, <2>1
<1>5. \A i \in 1 .. Len(s) : s[i] # e
  BY <1>4, <1>1 DEF Entries
<1> QED
  BY <1>3, <1>5 DEF Range

\* The entries of a sequence with one more.
LEMMA RangeOfOneMore ==
  ASSUME NEW s \in Seq(Entries), NEW e \in Entries
  PROVE  Range(Append(s, e)) = Range(s) \cup {e}
<1> DEFINE t == Append(s, e)
<1>1. /\ DOMAIN t = 1 .. Len(s) + 1 /\ t[Len(s) + 1] = e /\ Len(s) \in Nat
      /\ DOMAIN s = 1 .. Len(s)
      /\ \A i \in 1 .. Len(s) : t[i] = s[i]
  OBVIOUS
<1>2. 1 .. Len(s) + 1 = (1 .. Len(s)) \cup {Len(s) + 1}
  BY <1>1
<1> HIDE DEF t
<1>3. Range(t) = Range(s) \cup {e}
  BY <1>1, <1>2 DEF Range
<1> QED
  BY <1>3 DEF t

\* What the terminated lines hold is in order if the whole is, and the entry of
\* the tail is not among it.
LEMMA SettledOrdered ==
  ASSUME NEW f \in Files, NEW n \in Nat, Ordered(Loaded(f), n)
  PROVE  /\ Ordered(Settled(f), n)
         /\ Parses(Last(f)) => /\ Last(f)[1].entry \in Entries
                               /\ Range(Loaded(f)) = Range(Settled(f)) \cup {Last(f)[1].entry}
                               /\ Last(f)[1].entry \notin Range(Settled(f))
         /\ ~Parses(Last(f)) => Loaded(f) = Settled(f)
<1>1. CASE Parses(Last(f))
  <2>1. Last(f)[1].entry \in Entries
    BY <1>1, TailSplits, ParsedEntry
  <2>2. Settled(f) \in Seq(Entries) /\ Loaded(f) = Append(Settled(f), Last(f)[1].entry)
    BY <1>1, LoadedByTail
  <2> QED
    BY <1>1, <2>1, <2>2, OrderedShrinks, RangeOfOneMore
<1>2. CASE ~Parses(Last(f))
  BY <1>2, LoadedByTail
<1> QED
  BY <1>1, <1>2

\* After an append of the next entry, whole or cut short, the file loads what it
\* loaded, or that without the tail, or the one or the other and the entry.
LEMMA AppendOutcomes ==
  ASSUME NEW f \in Files, NEW e \in Entries, NEW g \in Interrupted(f, e) \cup {Line(f, e)}
  PROVE  /\ g \in Files
         /\ \/ g = f
            \/ Loaded(g) = Settled(f)
            \/ Last(f) = <<>> /\ Loaded(g) = Append(Loaded(f), e)
<1>1. Last(f) = <<>> => Settled(f) = Loaded(f)
  BY LoadedByTail, WhatParses
<1>2. CASE g = f
  BY <1>2
<1>3. CASE g = Line(f, e)
  BY <1>1, <1>3, LineEffect
<1>4. CASE g = Written(f, e, FALSE)
  BY <1>4, WrittenEffect
<1>5. CASE g = Written(f, e, TRUE)
  BY <1>1, <1>5, WrittenEffect
<1> QED
  BY <1>2, <1>3, <1>4, <1>5 DEF Interrupted

\* What was appended stays in order.
LEMMA AppendKeepsOrder ==
  ASSUME NEW f \in Files, NEW n \in Nat, n + 1 \in Entries, Ordered(Loaded(f), n),
         NEW g \in Interrupted(f, n + 1) \cup {Line(f, n + 1)}
  PROVE  /\ Ordered(Loaded(g), n + 1)
         /\ Range(Loaded(g)) \subseteq Range(Loaded(f)) \cup {n + 1}
<1>1. Loaded(f) \in Seq(Entries) /\ Settled(f) \in Seq(Entries)
  BY LoadedType, LoadedByTail DEF Files
<1>2. Ordered(Settled(f), n) /\ Range(Settled(f)) \subseteq Range(Loaded(f))
  BY SettledOrdered
<1>3. CASE g = f
  BY <1>1, <1>3, OrderedGrows
<1>4. CASE Loaded(g) = Settled(f)
  BY <1>1, <1>2, <1>4, OrderedGrows
<1>5. CASE Loaded(g) = Append(Loaded(f), n + 1)
  BY <1>1, <1>5, OrderedGrows, RangeOfOneMore
<1> QED
  BY <1>3, <1>4, <1>5, AppendOutcomes

-----------------------------------------------------------------------------
(***************************************************************************)
(* The inductive invariant                                                 *)
(***************************************************************************)

\* An append that was cut short has cost an entry whose append had returned, or has
\* left a tail that may cost the next one.  The entry of a tail is never one of
\* those, so that gluing something to it costs nothing more.
LossInv ==
  /\ acked \subseteq 1 .. issued
  /\ Cardinality(acked \ Range(Loaded(file))) + (IF Last(file) = <<>> THEN 0 ELSE 1)
       <= interrupts
  /\ Parses(Last(file)) => Last(file)[1].entry \notin acked

IInv == TypeOK /\ LoadsInOrder /\ CacheCoversFile /\ LossInv

\* The two conjuncts of LoadsInOrder under one name.
LEMMA InOrder == LoadsInOrder <=> Ordered(Loaded(file), issued)
  BY DEF LoadsInOrder, Ordered

\* The same of the next state.
LEMMA InOrderNext == LoadsInOrder' <=> Ordered(Loaded(file'), issued')
  BY DEF LoadsInOrder, Ordered

\* A write of the next entry: what each action that has Begin does to the file.
WritesNext ==
  /\ issued < MaxEntries
  /\ issued' = issued + 1
  /\ file' \in Interrupted(file, issued + 1) \cup {Line(file, issued + 1)}

\* All three ways a write can go make such a step.
LEMMA Writes == AppendEntry \/ Fail \/ Die => WritesNext
<1>1. Begin => issued < MaxEntries /\ issued' = issued + 1
  BY DEF Begin
<1> QED
  BY <1>1 DEF AppendEntry, Fail, Die, WritesNext

\* Nothing else touches the file.
LEMMA FileStays ==
  Open \/ Close \/ UNCHANGED vars => UNCHANGED <<file, issued, acked, interrupts>>
  BY DEF Open, Close, vars

\* A write keeps what is loaded in order.
LEMMA WriteFacts ==
  ASSUME TypeOK, LoadsInOrder, WritesNext
  PROVE  /\ file \in Files /\ file' \in Files
         /\ issued \in Nat /\ issued' = issued + 1 /\ issued' \in Entries
         /\ Ordered(Loaded(file), issued) /\ LoadsInOrder'
         /\ Range(Loaded(file')) \subseteq Range(Loaded(file)) \cup {issued'}
<1>1. issued \in Nat /\ issued' = issued + 1 /\ issued + 1 \in Entries
  BY NextEntry DEF WritesNext, TypeOK
<1>2. file \in Files
  BY FilesAreTyped DEF TypeOK
<1>3. file' \in Interrupted(file, issued + 1) \cup {Line(file, issued + 1)}
  BY DEF WritesNext
<1>4. Ordered(Loaded(file), issued)
  BY InOrder
<1>5. file' \in Files
  BY <1>1, <1>2, <1>3, AppendOutcomes
<1>6. /\ Ordered(Loaded(file'), issued + 1)
      /\ Range(Loaded(file')) \subseteq Range(Loaded(file)) \cup {issued + 1}
  BY <1>1, <1>2, <1>3, <1>4, AppendKeepsOrder
<1> QED
  BY <1>1, <1>2, <1>4, <1>5, <1>6, InOrderNext

\* The empty file loads nothing.
LEMMA FreshFile == Loaded(<< <<>> >>) = <<>> /\ Last(<< <<>> >>) = <<>>
<1>1. <<>> \in Seq(FileLine) /\ <<>> \in FileLine
  BY DEF FileLine
<1> DEFINE line == <<>>
           g == Append(<<>>, line)
<1>2. g = << <<>> >>
  OBVIOUS
<1>3. line \in FileLine /\ ~Parses(line)
  BY <1>1, WhatParses
<1> HIDE DEF line
<1>4. Last(g) = line
  BY <1>1, <1>3, LineBecomesTail
<1>5. Loaded(g) = Loaded(<<>>)
  BY <1>1, <1>3, LoadedOfOneMore
<1> QED
  BY <1>2, <1>4, <1>5, LoadedOfNothing DEF line

\* Nothing has been appended, loaded or lost at the start.
LEMMA InitIInv == Init /\ TypeOK => IInv
<1> SUFFICES ASSUME Init, TypeOK PROVE IInv
  OBVIOUS
<1>1. Loaded(file) = <<>> /\ Last(file) = <<>>
  BY FreshFile DEF Init
<1>2. Len(<<>>) = 0 /\ Range(<<>>) = {}
  BY DEF Range
<1>3. LoadsInOrder
  BY <1>1, <1>2 DEF LoadsInOrder
<1>4. CacheCoversFile
  BY DEF Init, CacheCoversFile
<1>5. LossInv
  <2>1. acked = {} /\ interrupts = 0 /\ acked \ Range(Loaded(file)) = {}
    BY DEF Init
  <2>2. Cardinality({}) = 0
    BY FS_EmptySet
  <2>3. ~Parses(Last(file))
    BY <1>1, WhatParses
  <2> QED
    BY <1>1, <2>1, <2>2, <2>3 DEF LossInv
<1> QED
  BY <1>3, <1>4, <1>5 DEF IInv

\* The live cache covers the file: it is filled from it, and has each entry before
\* the file has it.
LEMMA CacheStep ==
  ASSUME IInv, [Next]_vars
  PROVE  CacheCoversFile'
<1>1. CASE Open
  BY <1>1 DEF Open, CacheCoversFile
<1>2. CASE AppendEntry \/ Fail
  <2>1. Range(Loaded(file')) \subseteq Range(Loaded(file)) \cup {issued'} /\ issued' \in Entries
    BY <1>2, Writes, WriteFacts DEF IInv
  <2>2. up /\ entries' = Append(entries, issued') /\ entries \in Seq(Entries)
    BY <1>2 DEF AppendEntry, Fail, Begin, IInv, TypeOK
  <2>3. Range(Loaded(file)) \subseteq Range(entries)
    BY <2>2 DEF IInv, CacheCoversFile
  <2>4. Range(entries') = Range(entries) \cup {issued'}
    BY <2>1, <2>2, RangeOfOneMore
  <2> QED
    BY <2>1, <2>3, <2>4 DEF CacheCoversFile
<1>3. CASE Die \/ Close
  BY <1>3 DEF Die, Close, CacheCoversFile
<1>4. CASE UNCHANGED vars
  BY <1>4 DEF vars, IInv, CacheCoversFile
<1> QED
  BY <1>1, <1>2, <1>3, <1>4 DEF Next

\* A set with at most one entry more than another counts at most one more.
LEMMA AtMostOneMore ==
  ASSUME NEW S \in SUBSET Entries, NEW T \in SUBSET Entries, NEW e \in Entries
  PROVE  /\ Cardinality(S) \in Nat
         /\ T \subseteq S => Cardinality(T) <= Cardinality(S)
         /\ T \subseteq S \cup {e} => Cardinality(T) <= Cardinality(S) + 1
<1>1. IsFiniteSet(Entries)
  BY BoundsAssumption, FS_Interval DEF Entries
<1>2. IsFiniteSet(S) /\ IsFiniteSet(T)
  BY <1>1, FS_Subset
<1>3. Cardinality(S) \in Nat /\ Cardinality(T) \in Nat
  BY <1>2, FS_CardinalityType
<1>4. T \subseteq S => Cardinality(T) <= Cardinality(S)
  BY <1>2, FS_Subset
<1>5. /\ IsFiniteSet(S \cup {e})
      /\ Cardinality(S \cup {e}) = Cardinality(S) \/ Cardinality(S \cup {e}) = Cardinality(S) + 1
  BY <1>2, FS_AddElement
<1>6. T \subseteq S \cup {e} => Cardinality(T) <= Cardinality(S \cup {e})
  BY <1>5, FS_Subset
<1> QED
  BY <1>3, <1>4, <1>5, <1>6

Lost == acked \ Range(Loaded(file))

\* Losing the tail loses nothing that had been acknowledged.
LEMMA TailIsNobodys ==
  ASSUME TypeOK, LoadsInOrder, LossInv
  PROVE  acked \ Range(Settled(file)) = Lost
<1>1. file \in Files /\ issued \in Nat /\ Ordered(Loaded(file), issued)
  BY FilesAreTyped, InOrder DEF TypeOK
<1> QED
  BY <1>1, SettledOrdered DEF LossInv, Lost

\* A whole append loses itself at most, and then there is no tail any more.
LEMMA LossOfWhole ==
  ASSUME IInv, AppendEntry
  PROVE  LossInv'
<1>1. WritesNext /\ TypeOK /\ LoadsInOrder /\ LossInv
  BY Writes DEF IInv
<1>2. /\ file \in Files /\ issued \in Nat /\ issued' = issued + 1 /\ issued' \in Entries
  BY <1>1, WriteFacts
<1>3. /\ acked' = acked \cup {issued'} /\ interrupts' = interrupts
      /\ file' = Line(file, issued')
  BY DEF AppendEntry
<1>4. acked \in SUBSET Entries /\ interrupts \in Nat
  BY <1>1 DEF TypeOK
<1>5. /\ Last(file') = <<>>
      /\ Loaded(file') = IF Last(file) = <<>> THEN Append(Settled(file), issued')
                         ELSE Settled(file)
      /\ Settled(file) \in Seq(Entries)
  BY <1>2, <1>3, LineEffect, LoadedByTail
<1>6. acked \ Range(Settled(file)) = Lost
  BY <1>1, TailIsNobodys
<1>7. acked' \subseteq 1 .. issued'
  BY <1>1, <1>2, <1>3 DEF LossInv
<1>8. Cardinality(Lost) + (IF Last(file) = <<>> THEN 0 ELSE 1) <= interrupts
  BY <1>1 DEF LossInv, Lost
<1>9. Lost \in SUBSET Entries /\ Lost' \in SUBSET Entries
  BY <1>2, <1>3, <1>4 DEF Lost
<1>10. Cardinality(Lost) \in Nat /\ Cardinality(Lost') \in Nat
  BY <1>2, <1>9, AtMostOneMore
<1>11. Cardinality(Lost') <= interrupts
  <2>1. CASE Last(file) = <<>>
    <3>1. Range(Loaded(file')) = Range(Settled(file)) \cup {issued'}
      BY <2>1, <1>2, <1>5, RangeOfOneMore
    <3>2. Lost' \subseteq Lost
      BY <3>1, <1>3, <1>6 DEF Lost
    <3> QED
      BY <2>1, <3>2, <1>2, <1>4, <1>8, <1>9, AtMostOneMore
  <2>2. CASE Last(file) # <<>>
    <3>1. Lost' \subseteq Lost \cup {issued'}
      BY <2>2, <1>3, <1>5, <1>6 DEF Lost
    <3>2. Cardinality(Lost') <= Cardinality(Lost) + 1
      BY <3>1, <1>2, <1>9, AtMostOneMore
    <3> QED
      BY <2>2, <3>2, <1>4, <1>8, <1>10
  <2> QED
    BY <2>1, <2>2
<1>12. ~Parses(Last(file'))
  BY <1>5, WhatParses
<1> QED
  BY <1>3, <1>4, <1>5, <1>7, <1>10, <1>11, <1>12 DEF LossInv, Lost

\* An append that is cut short loses nothing yet, but leaves a tail that may.
LEMMA LossOfCut ==
  ASSUME IInv, Fail \/ Die
  PROVE  LossInv'
<1>1. WritesNext /\ TypeOK /\ LoadsInOrder /\ LossInv
  BY Writes DEF IInv
<1>2. /\ file \in Files /\ issued \in Nat /\ issued' = issued + 1 /\ issued' \in Entries
  BY <1>1, WriteFacts
<1>3. /\ acked' = acked /\ interrupts' = interrupts + 1
      /\ file' \in Interrupted(file, issued')
  BY DEF Fail, Die
<1>4. acked \in SUBSET Entries /\ interrupts \in Nat
  BY <1>1 DEF TypeOK
<1>5. acked' \subseteq 1 .. issued' /\ issued' \notin acked
  BY <1>1, <1>2, <1>3 DEF LossInv
<1>6. acked \ Range(Settled(file)) = Lost
  BY <1>1, TailIsNobodys
<1>7. Lost \in SUBSET Entries /\ Lost' \in SUBSET Entries
  BY <1>3, <1>4 DEF Lost
<1>8. Cardinality(Lost) \in Nat /\ Cardinality(Lost') \in Nat
  BY <1>2, <1>7, AtMostOneMore
<1>9. Cardinality(Lost) + (IF Last(file) = <<>> THEN 0 ELSE 1) <= interrupts
  BY <1>1 DEF LossInv, Lost
<1>10. CASE file' = file
  <2>1. Lost' = Lost /\ Last(file') = Last(file) /\ Parses(Last(file'))  = Parses(Last(file))
    BY <1>3, <1>10 DEF Lost
  <2>2. Cardinality(Lost') + (IF Last(file') = <<>> THEN 0 ELSE 1) <= interrupts'
    BY <2>1, <1>3, <1>4, <1>8, <1>9
  <2>3. Parses(Last(file')) => Last(file')[1].entry \notin acked'
    BY <1>1, <1>3, <1>10 DEF LossInv
  <2> QED
    BY <2>2, <2>3, <1>5 DEF LossInv, Lost
<1>11. CASE \E w \in BOOLEAN : file' = Written(file, issued', w)
  <2>1. PICK w \in BOOLEAN : file' = Written(file, issued', w)
    BY <1>11
  <2>2. /\ Parses(Last(file')) => Last(file')[1].entry = issued'
        /\ Loaded(file') = IF Last(file) = <<>> /\ w THEN Append(Settled(file), issued')
                           ELSE Settled(file)
        /\ Settled(file) \in Seq(Entries)
    BY <2>1, <1>2, WrittenEffect, LoadedByTail
  <2>3. Range(Settled(file)) \subseteq Range(Loaded(file'))
    BY <2>2, <1>2, RangeOfOneMore
  <2>4. Lost' \subseteq Lost
    BY <2>3, <1>3, <1>6 DEF Lost
  <2>5. Cardinality(Lost') <= Cardinality(Lost)
    BY <2>4, <1>2, <1>7, AtMostOneMore
  <2>6. Cardinality(Lost') + (IF Last(file') = <<>> THEN 0 ELSE 1) <= interrupts'
    BY <2>5, <1>3, <1>4, <1>8, <1>9
  <2>7. Parses(Last(file')) => Last(file')[1].entry \notin acked'
    BY <2>2, <1>3, <1>5
  <2> QED
    BY <2>6, <2>7, <1>5 DEF LossInv, Lost
<1> QED
  BY <1>3, <1>10, <1>11 DEF Interrupted

\* The invariant is inductive.
LEMMA InductiveStep == IInv /\ [Next]_vars /\ TypeOK' => IInv'
<1> SUFFICES ASSUME IInv, [Next]_vars, TypeOK' PROVE IInv'
  OBVIOUS
<1>1. CacheCoversFile'
  BY CacheStep
<1>2. CASE AppendEntry \/ Fail \/ Die
  <2>1. LoadsInOrder'
    BY <1>2, Writes, WriteFacts DEF IInv
  <2>2. LossInv'
    BY <1>2, LossOfWhole, LossOfCut
  <2> QED
    BY <1>1, <2>1, <2>2 DEF IInv
<1>3. CASE Open \/ Close \/ UNCHANGED vars
  <2>1. UNCHANGED <<file, issued, acked, interrupts>>
    BY <1>3, FileStays
  <2>2. LoadsInOrder' /\ LossInv'
    BY <2>1 DEF IInv, LoadsInOrder, LossInv
  <2> QED
    BY <1>1, <2>2 DEF IInv
<1> QED
  BY <1>2, <1>3 DEF Next

\* The strengthening holds in every state of a run: entries load in order, the
\* cache covers the file, and every entry that is lost has its interruption.
THEOREM Invariant == Spec => []IInv
<1>1. Init /\ TypeOK => IInv
  BY InitIInv
<1>2. IInv /\ [Next]_vars /\ TypeOK' => IInv'
  BY InductiveStep
<1> QED
  BY <1>1, <1>2, TypeCorrect, PTL DEF Spec

-----------------------------------------------------------------------------
(***************************************************************************)
(* What follows                                                            *)
(***************************************************************************)

\* A re-opened ledger (ledger.py, __init__) shows entries that were appended, each
\* once and in order, whatever appends were cut short before.
THEOREM OrderKept == Spec => []LoadsInOrder
  BY Invariant, PTL DEF IInv

\* Each append of ledger.py that was cut short costs one acknowledged entry at most,
\* however the torn lines and the lines glued to them follow one another.
THEOREM LossesBounded == Spec => []LossBounded
<1>1. IInv => LossBounded
  <2> SUFFICES ASSUME IInv PROVE LossBounded
    OBVIOUS
  <2>1. /\ Cardinality(Lost) + (IF Last(file) = <<>> THEN 0 ELSE 1) <= interrupts
        /\ interrupts \in Nat /\ Lost \in SUBSET Entries /\ acked \in SUBSET Entries
    BY DEF IInv, LossInv, Lost, TypeOK
  <2>2. Cardinality(Lost) \in Nat
    <3>1. IsFiniteSet(Entries)
      BY BoundsAssumption, FS_Interval DEF Entries
    <3> QED
      BY <2>1, <3>1, FS_Subset, FS_CardinalityType
  <2> QED
    BY <2>1, <2>2 DEF LossBounded, Lost
<1> QED
  BY <1>1, Invariant, PTL

\* A live ledger object has every entry that the file would show to another one:
\* append caches before it writes.
THEOREM CacheAhead == Spec => []CacheCoversFile
  BY Invariant, PTL DEF IInv

-----------------------------------------------------------------------------
(***************************************************************************)
(* The lines implement LedgerFile                                          *)
(***************************************************************************)

\* What LedgerFile knows of a file.
View(f) == [readable |-> Range(Loaded(f)),
            open |-> IF Parses(Last(f)) THEN {Last(f)[1].entry} ELSE {},
            torn |-> Last(f) # <<>> /\ ~Parses(Last(f))]

\* Ledgers are equal that have the same fields.
LEMMA LedgerEqual ==
  ASSUME NEW a \in Compact!Ledger, NEW b \in Compact!Ledger,
         a.readable = b.readable, a.open = b.open, a.torn = b.torn
  PROVE  a = b
  BY DEF Compact!Ledger

\* The view of a file, field by field.
LEMMA ViewFields ==
  ASSUME NEW f \in Files
  PROVE  /\ View(f) \in Compact!Ledger
         /\ View(f).readable = Range(Loaded(f))
         /\ View(f).open = IF Parses(Last(f)) THEN {Last(f)[1].entry} ELSE {}
         /\ View(f).torn = (Last(f) # <<>> /\ ~Parses(Last(f)))
<1>1. Range(Loaded(f)) \subseteq Entries
  <2>1. Loaded(f) \in Seq(Entries)
    BY LoadedType DEF Files
  <2>2. \A s \in Seq(Entries) : \A i \in DOMAIN s : s[i] \in Entries
    OBVIOUS
  <2> QED
    BY <2>1, <2>2 DEF Range
<1>2. Parses(Last(f)) => Last(f)[1].entry \in Entries
  BY TailSplits, ParsedEntry
<1> QED
  BY <1>1, <1>2 DEF View, Compact!Ledger

\* A glued ledger, and a mended one, field by field.
LEMMA UpdatedFields ==
  ASSUME NEW l \in Compact!Ledger
  PROVE  /\ LET g == [l EXCEPT !.torn = FALSE]
            IN  /\ g \in Compact!Ledger
                /\ g.readable = l.readable /\ g.open = l.open /\ g.torn = FALSE
         /\ LET g == Compact!Glued(l)
            IN  /\ g \in Compact!Ledger
                /\ g.readable = l.readable \ l.open /\ g.open = {} /\ g.torn = TRUE
  BY DEF Compact!Ledger, Compact!Glued

\* A file ends clean when its tail is empty; what is readable and not open is settled.
LEMMA ViewOfTail ==
  ASSUME NEW f \in Files, NEW n \in Nat, Ordered(Loaded(f), n)
  PROVE  /\ Compact!EndsClean(View(f)) <=> Last(f) = <<>>
         /\ View(f).readable \ View(f).open = Range(Settled(f))
         /\ Last(f) = <<>> => /\ View(f).readable = Range(Settled(f))
                              /\ View(f).open = {} /\ View(f).torn = FALSE
<1>1. /\ Parses(Last(f)) => /\ Range(Loaded(f)) = Range(Settled(f)) \cup {Last(f)[1].entry}
                            /\ Last(f)[1].entry \notin Range(Settled(f))
      /\ ~Parses(Last(f)) => Loaded(f) = Settled(f)
      /\ ~Parses(<<>>)
  BY SettledOrdered, WhatParses
<1>2. Compact!EndsClean(View(f)) <=> Last(f) = <<>>
  BY <1>1, ViewFields DEF Compact!EndsClean
<1>3. View(f).readable \ View(f).open = Range(Settled(f))
  BY <1>1, ViewFields
<1> QED
  BY <1>1, <1>2, <1>3, ViewFields

\* An append of the next entry is one of LedgerFile.
LEMMA ViewOfAppend ==
  ASSUME NEW f \in Files, NEW n \in Nat, n + 1 \in Entries, Ordered(Loaded(f), n)
  PROVE  /\ n + 1 \in Entries \ View(f).readable
         /\ View(Line(f, n + 1)) = Compact!Appended(View(f), n + 1)
         /\ \A g \in Interrupted(f, n + 1) : View(g) \in Compact!CutShort(View(f), n + 1)
<1> DEFINE e == n + 1
           l == View(f)
<1>1. e \in Entries /\ e \notin Range(Loaded(f))
  BY DEF Ordered, Range, Entries
<1>2. /\ Compact!EndsClean(l) <=> Last(f) = <<>>
      /\ l.readable \ l.open = Range(Settled(f))
      /\ Last(f) = <<>> => l.readable = Range(Settled(f)) /\ l.open = {} /\ l.torn = FALSE
      /\ l \in Compact!Ledger
  BY ViewOfTail, ViewFields
<1>3. /\ Settled(f) \in Seq(Entries)
      /\ Range(Append(Settled(f), e)) = Range(Settled(f)) \cup {e}
  BY LoadedByTail, RangeOfOneMore
<1>4. e \in Entries \ l.readable
  BY <1>1, ViewFields
<1> HIDE DEF e, l
<1>5. View(Line(f, e)) = Compact!Appended(l, e)
  <2> DEFINE k == View(Line(f, e))
  <2>1. /\ k \in Compact!Ledger /\ k.open = {} /\ k.torn = FALSE
        /\ k.readable = IF Last(f) = <<>> THEN Range(Settled(f)) \cup {e} ELSE Range(Settled(f))
    BY <1>1, <1>3, LineEffect, WhatParses, ViewFields
  <2> HIDE DEF k
  <2>2. CASE Last(f) = <<>>
    <3> DEFINE u == [l EXCEPT !.readable = @ \cup {e}]
    <3>1. /\ u \in Compact!Ledger
          /\ u.readable = l.readable \cup {e} /\ u.open = l.open /\ u.torn = l.torn
      BY <1>1, <1>2 DEF Compact!Ledger
    <3>2. Compact!Appended(l, e) = u
      BY <2>2, <1>2 DEF Compact!Appended
    <3> HIDE DEF u
    <3>3. k = u
      BY <3>1, <2>1, <2>2, <1>2, LedgerEqual
    <3> QED
      BY <3>2, <3>3 DEF k
  <2>3. CASE Last(f) # <<>>
    <3> DEFINE m == Compact!Glued(l)
               u == [m EXCEPT !.torn = FALSE]
    <3>1. /\ m \in Compact!Ledger
          /\ m.readable = l.readable \ l.open /\ m.open = {} /\ m.torn = TRUE
      BY <1>1, <1>2, UpdatedFields
    <3>2. Compact!Appended(l, e) = u
      BY <2>3, <1>2 DEF Compact!Appended
    <3> HIDE DEF m
    <3>3. u \in Compact!Ledger /\ u.readable = m.readable /\ u.open = m.open /\ u.torn = FALSE
      BY <3>1, <1>1, UpdatedFields
    <3> HIDE DEF u
    <3>4. k = u
      BY <3>1, <3>3, <2>1, <2>3, <1>2, LedgerEqual
    <3> QED
      BY <3>2, <3>4 DEF k
  <2> QED
    BY <2>2, <2>3
<1>6. ASSUME NEW w \in BOOLEAN
      PROVE  View(Written(f, e, w)) \in Compact!CutShort(l, e)
  <2> DEFINE g == Written(f, e, w)
             k == View(g)
  <2>1. /\ g \in Files /\ Last(g) # <<>>
        /\ Parses(Last(g)) <=> Last(f) = <<>> /\ w
        /\ Parses(Last(g)) => Last(g)[1].entry = e
        /\ Loaded(g) = IF Last(f) = <<>> /\ w THEN Append(Settled(f), e) ELSE Settled(f)
    BY <1>1, WrittenEffect
  <2> HIDE DEF g
  <2>2. CASE Last(f) = <<>> /\ w
    <3>1. /\ k \in Compact!Ledger /\ k.open = {e} /\ k.torn = FALSE
          /\ k.readable = Range(Settled(f)) \cup {e}
      BY <2>1, <2>2, <1>3, ViewFields
    <3> HIDE DEF k
    <3>2. [l EXCEPT !.readable = @ \cup {e}, !.open = {e}] = k
      <4> DEFINE u == [l EXCEPT !.readable = @ \cup {e}, !.open = {e}]
      <4>1. /\ u \in Compact!Ledger
            /\ u.readable = l.readable \cup {e} /\ u.open = {e} /\ u.torn = l.torn
        BY <1>1, <1>2 DEF Compact!Ledger
      <4> HIDE DEF u
      <4>2. u = k
        BY <4>1, <3>1, <2>2, <1>2, LedgerEqual
      <4> QED
        BY <4>2 DEF u
    <3>3. k \in Compact!CutShort(l, e)
      BY <3>2, <2>2, <1>2 DEF Compact!CutShort
    <3> QED
      BY <3>3 DEF k, g
  <2>3. CASE ~(Last(f) = <<>> /\ w)
    <3>1. /\ k \in Compact!Ledger /\ k.open = {} /\ k.torn = TRUE
          /\ k.readable = Range(Settled(f))
      BY <2>1, <2>3, ViewFields
    <3> HIDE DEF k
    <3>2. Compact!Glued(l) = k
      <4> DEFINE m == Compact!Glued(l)
      <4>1. /\ m \in Compact!Ledger
            /\ m.readable = l.readable \ l.open /\ m.open = {} /\ m.torn = TRUE
        BY <1>1, <1>2, UpdatedFields
      <4> HIDE DEF m
      <4>2. m = k
        BY <4>1, <3>1, <1>2, LedgerEqual
      <4> QED
        BY <4>2 DEF m
    <3> QED
      BY <3>2 DEF Compact!CutShort, k, g
  <2> QED
    BY <2>2, <2>3
<1>7. \A g \in Interrupted(f, e) : View(g) \in Compact!CutShort(l, e)
  BY <1>6 DEF Interrupted, Compact!CutShort, l
<1> QED
  BY <1>4, <1>5, <1>7 DEF e, l

\* Line by line, the file of ledger.py behaves as the ledger that the model of the
\* hypothesis executor uses: what is readable, what is open, what is torn.
THEOREM LedgerFileImplemented == Spec => ImplementsLedgerFile
<1>1. Init => Compact!Init
  <2> SUFFICES ASSUME Init PROVE View(file) = Compact!Empty
    BY DEF Compact!Init, View
  <2>1. Loaded(file) = <<>> /\ Last(file) = <<>> /\ Range(<<>>) = {}
    BY FreshFile DEF Init, Range
  <2> QED
    BY <2>1, WhatParses DEF View, Compact!Empty
<1>2. IInv /\ [Next]_vars => [Compact!Next]_(View(file))
  <2> SUFFICES ASSUME IInv, [Next]_vars
               PROVE  Compact!Next \/ View(file') = View(file)
    BY DEF View
  <2>1. CASE AppendEntry \/ Fail \/ Die
    <3>1. /\ file \in Files /\ issued \in Nat /\ issued + 1 \in Entries
          /\ Ordered(Loaded(file), issued)
      BY <2>1, Writes, WriteFacts DEF IInv
    <3>2. file' \in Interrupted(file, issued + 1) \/ file' = Line(file, issued + 1)
      BY <2>1, Writes DEF WritesNext
    <3>3. /\ issued + 1 \in Entries \ View(file).readable
          /\ \/ View(file') = Compact!Appended(View(file), issued + 1)
             \/ View(file') \in Compact!CutShort(View(file), issued + 1)
      BY <3>1, <3>2, ViewOfAppend
    <3> QED
      BY <3>3 DEF Compact!Next, View
  <2>2. CASE Open \/ Close \/ UNCHANGED vars
    BY <2>2, FileStays
  <2> QED
    BY <2>1, <2>2 DEF Next
<1>3. Init /\ []IInv /\ [][Next]_vars => Compact!Spec
  BY <1>1, <1>2, PTL DEF Compact!Spec, View
<1> QED
  BY <1>3, Invariant, PTL DEF Spec, ImplementsLedgerFile
=============================================================================
