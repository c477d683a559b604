---------------------------- MODULE MultiReadAt -----------------------------
(***************************************************************************)
(* multiReadAtSeekCloser (stream/multi_read_at_closer.go): readers that    *)
(* are read as if they were one.                                           *)
(*                                                                         *)
(* Each reader comes with the size it is said to have; what it really      *)
(* holds may be shorter or longer.  A byte is identified by the reader and *)
(* the position it was read from.  ReadAt asks one reader after the other, *)
(* an iteration of its loop is a step.  One goroutine makes the calls:     *)
(* Read and Seek are not safe for more, and ReadAt, which is, touches      *)
(* neither idx nor off, so that its steps commute with everything.         *)
(*                                                                         *)
(* A definition marked as a fault is the one that follows it with a        *)
(* mistake in it, for README.md's table of what the properties notice.     *)
(***************************************************************************)
EXTENDS Integers, Sequences, FiniteSets, SequencesExt

CONSTANTS
    ReaderLists,    \* the readers NewMultiReadAtSeekCloser is called with
    Bufs,           \* lengths of the buffers passed to Read and ReadAt
    Offsets,        \* arguments of Seek and ReadAt
    Threshold,      \* searchThreshold
    MaxOff          \* bound: no Seek beyond this offset

ASSUME MultiReadAssumption ==
    /\ ReaderLists \subseteq Seq([size : Nat, len : Nat])
    /\ Bufs \subseteq Nat /\ Offsets \subseteq Int
    /\ Threshold \in Nat /\ MaxOff \in Nat

VARIABLES
    readers,    \* r, with headOff and, in len, what the reader really holds
    idx,        \* where Read starts to search
    off,        \* the offset of Read and Seek
    call        \* the last call of Read or ReadAt, under way or returned

vars == <<readers, idx, off, call>>

\* accum of NewMultiReadAtSeekCloser: the size of the first i readers together
Accum(list) ==
    LET accum[i \in 0..Len(list)] ==
          IF i = 0 THEN 0 ELSE accum[i - 1] + list[i].size
    IN  accum

\* NewMultiReadAtSeekCloser: each reader starts where the one before it ends
Translated(list) ==
    [i \in 1..Len(list) |->
        [size |-> list[i].size, len |-> list[i].len,
         headOff |-> Accum(list)[i - 1]]]

\* reader i, counted from 0
HeadOff(i) == readers[i + 1].headOff
Size(i) == readers[i + 1].size
Indices == 0..(Len(readers) - 1)
UpperLimit ==
    IF readers = <<>> THEN 0
    ELSE HeadOff(Len(readers) - 1) + Size(Len(readers) - 1)

-----------------------------------------------------------------------------
(***************************************************************************)
(* search in the readers from k on: an index counted from k, or -1.        *)
(***************************************************************************)
Holds(i, o) == HeadOff(i) <= o /\ o < HeadOff(i) + Size(i)

LinearSearch(o, k) ==
    LET found == {i \in Indices : i >= k /\ Holds(i, o)} IN
    IF found = {} THEN -1
    ELSE (CHOOSE i \in found : \A j \in found : i <= j) - k

\* fault: the first byte of a reader is taken to be before it
CompareStrict(i, o) ==
    IF o <= HeadOff(i) THEN 1 ELSE IF Holds(i, o) THEN 0 ELSE -1

\* the comparison passed to slices.BinarySearchFunc
Compare(i, o) == IF o < HeadOff(i) THEN 1 ELSE IF Holds(i, o) THEN 0 ELSE -1

\* the loop of slices.BinarySearchFunc: w[1] is its i and w[2] its j
Bisect(o, lo, hi) ==
    LET first[w \in (lo..hi) \X (lo..hi)] ==
          LET mid == (w[1] + w[2]) \div 2 IN
          IF w[1] >= w[2] THEN w[1]
          ELSE IF Compare(mid, o) < 0 THEN first[<<mid + 1, w[2]>>]
          ELSE first[<<w[1], mid>>]
    IN  first

\* the first reader in lo..hi-1 that is not before o, or hi
FirstNotBefore(o, lo, hi) == Bisect(o, lo, hi)[<<lo, hi>>]

BinarySearch(o, k) ==
    LET i == FirstNotBefore(o, k, Len(readers)) IN
    IF i < Len(readers) /\ Compare(i, o) = 0 THEN i - k ELSE -1

Search(o, k) ==
    IF Len(readers) - k > Threshold THEN BinarySearch(o, k)
    ELSE LinearSearch(o, k)

-----------------------------------------------------------------------------
(***************************************************************************)
(* R.ReadAt of reader i, by the contract of io.ReaderAt: all of the buffer *)
(* or an error; at the end of the input nil or EOF.  Any read may fail.    *)
(***************************************************************************)
ReaderReadAt(i, o, n) ==
    LET held == readers[i + 1].len
        avail == IF o < held THEN held - o ELSE 0
    IN  {[n |-> k, err |-> "EIO"] : k \in {j \in 0..n : j <= avail}}
        \cup (IF n <= avail THEN {[n |-> n, err |-> "nil"]} ELSE {})
        \cup (IF n >= avail THEN {[n |-> avail, err |-> "EOF"]} ELSE {})

\* fault: the size of a reader is trusted
ClassifyTrustsSize(i, rem, r) ==
    IF r.err \notin {"nil", "EOF"} THEN r.err
    ELSE IF r.err = "EOF" /\ r.n = 0 /\ rem > 0 THEN "ErrUnexpectedEOF"
    ELSE IF r.err = "EOF" /\ Len(readers) - 1 > i THEN "nil"
    ELSE r.err

\* fault: the EOF of a reader in the middle is passed on
ClassifyKeepsEOF(i, rem, r) ==
    IF r.err \notin {"nil", "EOF"} THEN r.err
    ELSE IF r.n > rem THEN "ErrInvalidSize"
    ELSE IF r.err = "EOF" /\ r.n = 0 /\ rem > 0 THEN "ErrUnexpectedEOF"
    ELSE r.err

\* fault: a reader that is at its end too early goes unnoticed
ClassifySkipsShort(i, rem, r) ==
    IF r.err \notin {"nil", "EOF"} THEN r.err
    ELSE IF r.n > rem THEN "ErrInvalidSize"
    ELSE IF r.err = "EOF" /\ Len(readers) - 1 > i THEN "nil"
    ELSE r.err

\* the switch both Read and readAt end with; rem is what reader i has left
Classify(i, rem, r) ==
    IF r.err \notin {"nil", "EOF"} THEN r.err
    ELSE IF r.n > rem THEN "ErrInvalidSize"
    ELSE IF r.err = "EOF" /\ r.n = 0 /\ rem > 0 THEN "ErrUnexpectedEOF"
    ELSE IF r.err = "EOF" /\ Len(readers) - 1 > i THEN "nil"
    ELSE r.err

Wrapped == {"EIO", "ErrInvalidSize", "ErrUnexpectedEOF"}

\* the n bytes from position o of reader i
BytesOf(i, o, n) == [k \in 1..n |-> <<i, o + k - 1>>]

-----------------------------------------------------------------------------
\* a call from offset o that returned err; index is the Index a MultiReadError
\* has and reader where the error came from, -1 for none; turn flips with every
\* iteration of ReadAt, so that one which gets nothing is a step like any other
Returned(o, bytes, err) ==
    [op |-> "Read", pc |-> "idle", start |-> o, bytes |-> bytes, err |-> err,
     left |-> 0, cut |-> FALSE, turn |-> FALSE, index |-> -1, reader |-> -1]

Read ==
    /\ call.pc = "idle"
    /\ UNCHANGED readers
    /\ \E n \in Bufs :
        LET i == Search(off, idx)
            cur == idx + i
            readerOff == off - HeadOff(cur)
        IN
        IF off >= UpperLimit
        THEN call' = Returned(off, <<>>, "EOF") /\ UNCHANGED <<idx, off>>
        ELSE IF i < 0
        THEN call' = Returned(off, <<>>, "panic") /\ UNCHANGED <<idx, off>>
        ELSE \E r \in ReaderReadAt(cur, readerOff, n) :
            /\ IF r.n > 0 \/ r.err = "EOF"
               THEN idx' = cur /\ off' = off + r.n
               ELSE UNCHANGED <<idx, off>>
            /\ call' = [Returned(off, BytesOf(cur, readerOff, r.n),
                                 Classify(cur, Size(cur) - readerOff, r))
                        EXCEPT !.index = idx' + i, !.reader = cur]

\* fault: idx is left behind
SeekKeepsIdx ==
    /\ call.pc = "idle"
    /\ UNCHANGED <<readers, call>>
    /\ \E o \in Offsets, from \in {0, off, UpperLimit} :
        /\ from + o \in 0..MaxOff
        /\ off' = from + o
        /\ idx' = IF off' >= UpperLimit THEN Len(readers) ELSE idx

Seek ==
    /\ call.pc = "idle"
    /\ UNCHANGED <<readers, call>>
    /\ \E o \in Offsets, from \in {0, off, UpperLimit} :
        /\ from + o \in 0..MaxOff
        /\ off' = from + o
        /\ idx' = IF off' >= UpperLimit THEN Len(readers) ELSE Search(off', 0)

-----------------------------------------------------------------------------
(***************************************************************************)
(* ReadAt: start is the offset of the call, left what of the buffer is not *)
(* filled, cut whether the buffer went beyond the upper limit.             *)
(***************************************************************************)
\* fault: one reader that gave some bytes is enough
LoopEndsEarly(n, left, err) == n > 0 \/ n = left \/ err # "nil"

LoopEnds(n, left, err) == n = left \/ err # "nil"

CallReadAt ==
    /\ call.pc = "idle"
    /\ UNCHANGED <<readers, idx, off>>
    /\ \E n \in Bufs, o \in Offsets :
        LET max == UpperLimit - o
            returned == [Returned(o, <<>>, "EOF") EXCEPT !.op = "ReadAt",
                                                         !.left = n]
        IN
        call' = IF o < 0 \/ o >= UpperLimit THEN returned
                ELSE [returned EXCEPT !.pc = "loop", !.err = "nil",
                                      !.left = IF n > max THEN max ELSE n,
                                      !.cut = n > max]

\* reader i answered r: the rest of an iteration
AfterReader(i, readerOff, r) ==
    LET err == Classify(i, Size(i) - readerOff, r) IN
    [call EXCEPT
        !.pc = IF LoopEnds(r.n, call.left, err) THEN "idle" ELSE "loop",
        !.left = @ - r.n,
        !.turn = ~@,
        !.bytes = @ \o BytesOf(i, readerOff, r.n),
        !.err = IF r.n = call.left /\ call.cut /\ err = "nil"
                THEN "EOF" ELSE err,
        !.index = i, !.reader = i]

ReadAtLoop ==
    /\ call.pc = "loop"
    /\ UNCHANGED <<readers, idx, off>>
    /\ LET o == call.start + Len(call.bytes)
           i == Search(o, 0)
           readerOff == o - HeadOff(i)
       IN
       IF o >= UpperLimit \/ i < 0
       THEN call' = [call EXCEPT !.pc = "idle", !.err = "EOF"]
       ELSE \E r \in ReaderReadAt(i, readerOff, call.left) :
                call' = AfterReader(i, readerOff, r)

Init ==
    /\ readers \in {Translated(list) : list \in ReaderLists}
    /\ idx = 0
    /\ off = 0
    /\ call = Returned(0, <<>>, "nil")

Next == Read \/ Seek \/ CallReadAt \/ ReadAtLoop
Spec == Init /\ [][Next]_vars

\* the goroutine in the loop of ReadAt keeps running, its readers return
FairSpec == Spec /\ WF_vars(ReadAtLoop)

-----------------------------------------------------------------------------
Errors == Wrapped \cup {"nil", "EOF", "panic"}

TypeOK ==
    /\ readers \in Seq([size : Nat, len : Nat, headOff : Nat])
    /\ idx \in 0..Len(readers)
    /\ off \in Nat
    /\ call \in [op : {"Read", "ReadAt"}, pc : {"idle", "loop"}, start : Int,
                 bytes : Seq((0..Len(readers)) \X Nat), err : Errors,
                 left : Nat,
                 cut : BOOLEAN, turn : BOOLEAN, index : Int,
                 reader : -1..Len(readers)]

\* Both searches find the same reader, empty readers before, between and after
\* the others included, and in every suffix Read may search.
SearchesAgree ==
    \A k \in 0..Len(readers), o \in 0..UpperLimit :
        BinarySearch(o, k) = LinearSearch(o, k)

\* Read searches from idx on, so idx must not have passed the reader of off,
\* whatever Read, Seek, failures and readers longer than said left it at.
ReaderFound == off < UpperLimit => Search(off, idx) >= 0

\* The byte a caller gets for an offset is the byte at that place of the
\* concatenation: none is skipped, given twice or taken from beyond the size of
\* its reader, unless the call says ErrInvalidSize or fails as the reader did.
BytesInPlace ==
    call.err \notin {"ErrInvalidSize", "EIO"} =>
        \A k \in DOMAIN call.bytes :
            LET i == call.bytes[k][1]
                o == call.start + k - 1
            IN  Holds(i, o) /\ call.bytes[k][2] = o - HeadOff(i)

AtEnd == call.start < 0 \/ call.start + Len(call.bytes) >= UpperLimit

LastIsShort == readers[Len(readers)].len < readers[Len(readers)].size

EOFAtEnd == call.err = "EOF" => AtEnd \/ LastIsShort

FullOrError ==
    call.op = "ReadAt" /\ call.pc = "idle" /\ call.err = "nil" => call.left = 0

IndexIsReader ==
    call.op = "ReadAt" /\ call.err \in Wrapped => call.index = call.reader

\* What an error, or none, tells the caller is so.  EOF comes only at the end
\* of the last reader: one in the middle that is shorter than said is an error
\* and not the end (a last one that is shorter ends with EOF).  ReadAt returns
\* less than it was asked for only with an error, and the Index of the error is
\* that of the reader that returned it (that of Read's may be a later one's).
ErrorTells == EOFAtEnd /\ FullOrError /\ IndexIsReader

\* ReadAt returns: every iteration gets bytes or an error.
ReadAtReturns == call.pc = "loop" ~> call.pc = "idle"
=============================================================================
