------------------------------ MODULE MemFile -------------------------------
(***************************************************************************)
(* memFile and memFileHandle (aferofs/synth/impl_inmem_file.go): a file    *)
(* kept in a Go slice, and the handles opened on it.                       *)
(*                                                                         *)
(* The slice has a length and a capacity.  grow reuses the capacity        *)
(* without clearing it, so that the bytes between the two become visible   *)
(* as they are; Truncate gives them up.  memFile.mu makes each method of   *)
(* memFile one step.  A Write in append mode is two: it asks for the       *)
(* length, then writes there, and holds only the mutex of its handle in    *)
(* between.  Numbers are Go's int64 and int, with their overflow.          *)
(*                                                                         *)
(* A definition marked as a fault is the one that follows it with a        *)
(* mistake in it, for README.md's table of what the properties notice.     *)
(***************************************************************************)
EXTENDS Integers, Sequences

CONSTANTS
    Handles,    \* handles opened on the file, each used by any goroutine
    Flag,       \* Flag[h], the flag the handle was opened with
    Byte,       \* values of a byte
    Payloads,   \* what is written
    Counts,     \* lengths of the buffers read into
    Offsets,    \* arguments of Seek, ReadAt, WriteAt and Truncate
    Int64Max,   \* math.MaxInt64
    IntMax,     \* math.MaxInt, smaller on a 32 bit platform
    MaxAlloc,   \* bound: the runtime refuses a larger slice with a panic
    Idle        \* no Write in append mode is between its two steps

ASSUME MemFileAssumption ==
    /\ Flag \in [Handles -> [acc : SUBSET {"r", "w"}, append : BOOLEAN]]
    /\ 0 \in Byte
    /\ Payloads \subseteq Seq(Byte)
    /\ Idle \notin Payloads
    /\ Counts \subseteq Nat
    /\ Int64Max \in Nat /\ IntMax \in Nat /\ MaxAlloc \in Nat
    /\ MaxAlloc <= IntMax /\ IntMax <= Int64Max
    /\ \A p \in Payloads : Len(p) <= MaxAlloc
    /\ \A n \in Counts : n <= MaxAlloc
    /\ Offsets \subseteq (-Int64Max - 1)..Int64Max

VARIABLES
    content,    \* memFile.content: length, capacity and the array behind it
    off,        \* memFileHandle.off
    pending,    \* what a Write in append mode is about to write, or Idle
    got,        \* the bytes the last read that was not refused returned
    err         \* how the last operation ended; makeslice and bounds are panics

vars == <<content, off, pending, got, err>>

Index == 0..(MaxAlloc - 1)

\* the value a sum has in a signed integer whose largest value is max
Wrap(n, max) == ((n + max + 1) % (2 * max + 2)) - (max + 1)

Readable(h) == "r" \in Flag[h].acc
Writable(h) == "w" \in Flag[h].acc

-----------------------------------------------------------------------------
(***************************************************************************)
(* memFile.                                                                *)
(***************************************************************************)
\* a slice of length n and capacity c that starts with the bytes of s
Slice(s, n, c) ==
    [len |-> n, cap |-> c,
     arr |-> [i \in Index |-> IF i < n /\ i < s.len THEN s.arr[i] ELSE 0]]

\* fault: the length is not taken off the capacity
GrowInPlace(s, growth) ==
    IF s.cap >= growth
    THEN {[s EXCEPT !.len = n] : n \in {s.len + growth} \cap Nat}
    ELSE {Slice(s, s.len + growth, c) : c \in (s.len + growth)..MaxAlloc}

\* memFile.grow: in place, or append, which leaves some capacity of its choice
Grow(s, growth) ==
    IF s.cap - s.len >= growth
    THEN {[s EXCEPT !.len = n] : n \in {s.len + growth} \cap Nat}
    ELSE {Slice(s, s.len + growth, c) : c \in (s.len + growth)..MaxAlloc}

GrowPanic(s, growth) == IF s.len + growth < 0 THEN "bounds" ELSE "makeslice"

\* fault: copy(content, p)
PutAtStart(s, o, p) ==
    [s EXCEPT !.arr = [i \in Index |-> IF i < Len(p) /\ i < s.len
                                       THEN p[i + 1] ELSE s.arr[i]]]

\* copy(content[off:], p)
Put(s, o, p) ==
    [s EXCEPT !.arr = [i \in Index |-> IF o <= i /\ i < o + Len(p) /\ i < s.len
                                       THEN p[i - o + 1] ELSE s.arr[i]]]

\* fault: content[:size]
CutKeepsCapacity(s, n) == [s EXCEPT !.len = n]

\* content[:size:size], what is beyond the capacity cannot be seen again
Cut(s, n) == Slice([s EXCEPT !.len = n], n, n)

\* fault: off + len(p) is not looked at
OffsetOnlyTooLarge(p, o) == o > IntMax

\* memFile.WriteAt: off overflows int, or off + len(p) overflows int64
TooLarge(p, o) == o > IntMax \/ Wrap(o + Len(p), Int64Max) < o

\* memFile.WriteAt: the file it leaves, what it returns
WriteAtResults(p, o) ==
    IF o < 0 \/ TooLarge(p, o)
    THEN {[file |-> content, n |-> 0, err |-> "EINVAL"]}
    ELSE IF p = <<>> THEN {[file |-> content, n |-> 0, err |-> "ok"]}
    ELSE LET growth == Wrap(Wrap(o + Len(p), IntMax) - content.len, IntMax)
             grown == IF growth > 0 THEN Grow(content, growth) ELSE {content}
         IN  IF grown = {}
             THEN {[file |-> content, n |-> 0, err |-> "makeslice"]}
             ELSE {IF o > s.len THEN [file |-> s, n |-> 0, err |-> "bounds"]
                   ELSE [file |-> Put(s, o, p), n |-> Len(p), err |-> "ok"]
                   : s \in grown}

\* memFile.Truncate
TruncateResults(n) ==
    IF n < 0 THEN {[file |-> content, err |-> "EINVAL"]}
    ELSE LET diff == n - content.len
             growth == Wrap(diff, IntMax)
             grown == IF diff > 0 THEN Grow(content, growth) ELSE {content}
         IN  IF grown = {}
             THEN {[file |-> content, err |-> GrowPanic(content, growth)]}
             ELSE {IF n > s.cap THEN [file |-> s, err |-> "bounds"]
                   ELSE [file |-> Cut(s, n), err |-> "ok"] : s \in grown}

\* memFile.ReadAt: how many bytes, and which
ReadCount(o, n) ==
    IF o >= content.len THEN 0
    ELSE IF n < content.len - o THEN n ELSE content.len - o

ReadErr(o, n) ==
    IF o < 0 THEN "negative offset"
    ELSE IF o >= content.len \/ ReadCount(o, n) < n THEN "EOF" ELSE "ok"

Bytes(o, n) == [i \in 1..ReadCount(o, n) |-> content.arr[o + i - 1]]

-----------------------------------------------------------------------------
(***************************************************************************)
(* memFileHandle.  Read, Write and Seek take the handle's mutex.           *)
(***************************************************************************)
Fail(e) == err' = e /\ UNCHANGED <<content, off, pending, got>>

Read(h) ==
    /\ pending[h] = Idle
    /\ Readable(h)
    /\ \E n \in Counts :
        /\ got' = Bytes(off[h], n)
        /\ off' = [off EXCEPT ![h] = @ + ReadCount(@, n)]
        /\ err' = ReadErr(off[h], n)
    /\ UNCHANGED <<content, pending>>

ReadAt(h) ==
    /\ Readable(h)
    /\ \E n \in Counts, o \in Offsets :
        /\ got' = IF o < 0 THEN got ELSE Bytes(o, n)
        /\ err' = ReadErr(o, n)
    /\ UNCHANGED <<content, off, pending>>

Seek(h) ==
    /\ pending[h] = Idle
    /\ \E o \in Offsets, from \in {0, off[h], content.len} :
        LET to == Wrap(o + from, Int64Max) IN
        IF to < 0 THEN Fail("EINVAL")
        ELSE /\ off' = [off EXCEPT ![h] = to]
             /\ err' = "ok"
             /\ UNCHANGED <<content, pending, got>>

Truncate(h) ==
    /\ Writable(h)
    /\ \E n \in Offsets : \E r \in TruncateResults(n) :
        content' = r.file /\ err' = r.err
    /\ UNCHANGED <<off, pending, got>>

Write(h) ==
    /\ pending[h] = Idle
    /\ Writable(h) /\ ~Flag[h].append
    /\ \E p \in Payloads : \E r \in WriteAtResults(p, off[h]) :
        /\ content' = r.file
        /\ off' = [off EXCEPT ![h] = @ + r.n]
        /\ err' = r.err
    /\ UNCHANGED <<pending, got>>

\* Write in append mode: the offset moves to the end of the file
AppendSeek(h) ==
    /\ pending[h] = Idle
    /\ Writable(h) /\ Flag[h].append
    /\ \E p \in Payloads : pending' = [pending EXCEPT ![h] = p]
    /\ off' = [off EXCEPT ![h] = content.len]
    /\ UNCHANGED <<content, got, err>>

\* and, with other handles' operations before it, the bytes go there
AppendWrite(h) ==
    /\ pending[h] # Idle
    /\ \E r \in WriteAtResults(pending[h], off[h]) :
        /\ content' = r.file
        /\ off' = [off EXCEPT ![h] = @ + r.n]
        /\ err' = r.err
    /\ pending' = [pending EXCEPT ![h] = Idle]
    /\ UNCHANGED got

WriteAt(h) ==
    /\ Writable(h) /\ ~Flag[h].append
    /\ \E p \in Payloads, o \in Offsets : \E r \in WriteAtResults(p, o) :
        content' = r.file /\ err' = r.err
    /\ UNCHANGED <<off, pending, got>>

\* flagReadable, flagWritable and O_APPEND turn an operation down at once
Refused(h) ==
    \/ ~(Readable(h) /\ Writable(h)) /\ Fail("EBADF")
    \/ Flag[h].append /\ Fail("errWriteAtInAppendMode")

Init ==
    /\ content = [len |-> 0, cap |-> 0, arr |-> [i \in Index |-> 0]]
    /\ off = [h \in Handles |-> 0]
    /\ pending = [h \in Handles |-> Idle]
    /\ got = <<>>
    /\ err = "ok"

Next == \E h \in Handles :
    \/ Read(h) \/ ReadAt(h) \/ Seek(h) \/ Truncate(h) \/ Write(h)
    \/ AppendSeek(h) \/ AppendWrite(h) \/ WriteAt(h) \/ Refused(h)

Spec == Init /\ [][Next]_vars

-----------------------------------------------------------------------------
Errors == {"ok", "EOF", "negative offset", "EINVAL", "EBADF",
           "errWriteAtInAppendMode", "makeslice", "bounds"}

SliceOK(s) ==
    /\ s \in [len : 0..MaxAlloc, cap : 0..MaxAlloc, arr : [Index -> Byte]]
    /\ s.len <= s.cap

TypeOK ==
    /\ SliceOK(content)
    /\ off \in [Handles -> 0..Int64Max]
    /\ pending \in [Handles -> Payloads \cup {Idle}]
    /\ got \in Seq(Byte)
    /\ err \in Errors

\* What grow would show of the capacity is zero: a byte cut off by Truncate,
\* whose comment is "release unused portion", never comes back.
ZeroFrom(s, n) == \A i \in Index : i >= n => s.arr[i] = 0
SlackZero == ZeroFrom(content, content.len)

\* The checks at the head of WriteAt and Truncate let no offset through that
\* the slice expressions panic on; only a file too large for the runtime panics.
\* This needs an int as wide as an int64.
NoBoundsPanic == err # "bounds"

(***************************************************************************)
(* The slice with its capacity implements the file that is zero from its   *)
(* size on, and the int64 arithmetic the arithmetic without bound.         *)
(***************************************************************************)
File == INSTANCE ByteFile WITH
    MaxSize <- MaxAlloc, data <- content.arr, size <- content.len, pos <- off

Implements == File!Spec
=============================================================================
