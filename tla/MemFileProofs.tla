---------------------------- MODULE MemFileProofs ----------------------------
(***************************************************************************)
(* Where an int is as wide as an int64, for any width, bytes, payloads,    *)
(* offsets and handles: a memFile never shows a byte that was cut off, no  *)
(* offset panics, and the slice with its capacity and its arithmetic that  *)
(* overflows implements ByteFile.                                          *)
(***************************************************************************)
EXTENDS MemFile, TLAPS

\* a 64 bit platform
Wide == IntMax = Int64Max

Int64s == (-Int64Max - 1) .. Int64Max

IInv == TypeOK /\ SlackZero /\ NoBoundsPanic

-----------------------------------------------------------------------------
(***************************************************************************)
(* Arithmetic.                                                             *)
(***************************************************************************)
\* what fits stays
LEMMA WrapFits ==
    ASSUME NEW max \in Nat, NEW n \in (-max - 1) .. max
    PROVE  Wrap(n, max) = n
  BY DEF Wrap

\* what does not, by less than one turn, is negative
LEMMA WrapOverflows ==
    ASSUME NEW max \in Nat, NEW n \in (max + 1) .. (2 * max + 1)
    PROVE  Wrap(n, max) = n - (2 * max + 2)
  BY DEF Wrap

-----------------------------------------------------------------------------
(***************************************************************************)
(* The slice.                                                              *)
(***************************************************************************)
Clean(s) == SliceOK(s) /\ ZeroFrom(s, s.len)

\* grow makes the slice longer by growth and no byte different
LEMMA GrowCorrect ==
    ASSUME NEW s, Clean(s), NEW growth \in Nat \ {0}, NEW g \in Grow(s, growth)
    PROVE  /\ Clean(g)
           /\ g.len = s.len + growth
           /\ g.arr = s.arr
  <1> USE MemFileAssumption
  <1>1. /\ s.len \in Nat /\ s.cap \in 0 .. MaxAlloc
        /\ s.arr \in [Index -> Byte]
        /\ \A i \in Index : i >= s.len => s.arr[i] = 0
    BY DEF Clean, SliceOK, ZeroFrom
  <1>2. ASSUME NEW c \in 0 .. MaxAlloc, s.len + growth <= c,
               g = [len |-> s.len + growth, cap |-> c, arr |-> s.arr]
        PROVE  Clean(g) /\ g.len = s.len + growth /\ g.arr = s.arr
    <2>1. g.len = s.len + growth /\ g.cap = c /\ g.arr = s.arr
      BY <1>2
    <2>2. s.len + growth \in 0 .. MaxAlloc
      BY <1>1, <1>2
    <2>3. g \in [len : 0 .. MaxAlloc, cap : 0 .. MaxAlloc,
                 arr : [Index -> Byte]]
      BY <1>1, <1>2, <2>2
    <2>4. \A i \in Index : i >= g.len => g.arr[i] = 0
      BY <1>1, <2>1 DEF Index
    <2> QED BY <1>2, <2>1, <2>3, <2>4 DEF Clean, SliceOK, ZeroFrom
  <1>3. CASE s.cap - s.len >= growth
    <2>1. g = [s EXCEPT !.len = s.len + growth]
      BY <1>3 DEF Grow
    <2>2. g = [len |-> s.len + growth, cap |-> s.cap, arr |-> s.arr]
      BY <2>1 DEF Clean, SliceOK
    <2> QED BY <1>1, <1>2, <1>3, <2>2
  <1>4. CASE ~ (s.cap - s.len >= growth)
    <2>1. PICK c \in (s.len + growth) .. MaxAlloc :
            g = Slice(s, s.len + growth, c)
      BY <1>4 DEF Grow
    <2>2. [i \in Index |-> IF i < s.len + growth /\ i < s.len
                           THEN s.arr[i] ELSE 0] = s.arr
      <3>1. \A i \in Index : (IF i < s.len + growth /\ i < s.len
                              THEN s.arr[i] ELSE 0) = s.arr[i]
        BY <1>1 DEF Index
      <3> QED BY <1>1, <3>1
    <2>3. g = [len |-> s.len + growth, cap |-> c, arr |-> s.arr]
      BY <2>1, <2>2 DEF Slice
    <2>4. c \in 0 .. MaxAlloc /\ s.len + growth <= c
      BY <1>1
    <2> QED BY <1>2, <2>3, <2>4
  <1> QED BY <1>3, <1>4

\* there is a slice to grow into if, and only if, it is not too large
LEMMA GrowPossible ==
    ASSUME NEW s, Clean(s), NEW growth \in Nat \ {0}
    PROVE  Grow(s, growth) = {} <=> s.len + growth > MaxAlloc
  <1> USE MemFileAssumption DEF Clean, SliceOK, Grow
  <1>1. CASE s.cap - s.len >= growth
    <2>1. [s EXCEPT !.len = s.len + growth] \in Grow(s, growth)
      <3>1. s.len + growth \in {s.len + growth} \cap Nat
        OBVIOUS
      <3> QED BY <1>1, <3>1
    <2> QED BY <1>1, <2>1
  <1>2. CASE ~ (s.cap - s.len >= growth)
    <2>1. s.len + growth <= MaxAlloc =>
            Slice(s, s.len + growth, s.len + growth) \in Grow(s, growth)
      BY <1>2
    <2>2. s.len + growth > MaxAlloc => (s.len + growth) .. MaxAlloc = {}
      OBVIOUS
    <2> QED BY <1>2, <2>1, <2>2
  <1> QED BY <1>1, <1>2

-----------------------------------------------------------------------------
(***************************************************************************)
(* The methods of memFile.                                                 *)
(***************************************************************************)
\* The file afterwards has p at o, or nothing has happened.
Written(r, p, o) ==
    /\ r.err \in {"ok", "EINVAL", "makeslice"}
    /\ \/ r.file = content /\ r.n = 0
       \/ /\ p # <<>> /\ o + Len(p) <= MaxAlloc /\ r.n = Len(p)
          /\ Clean(r.file)
          /\ r.file.len =
                IF o + Len(p) > content.len THEN o + Len(p) ELSE content.len
          /\ r.file.arr = [i \in Index |-> IF o <= i /\ i < o + Len(p)
                                           THEN p[i - o + 1]
                                           ELSE content.arr[i]]

LEMMA WriteAtCorrect ==
    ASSUME Wide, Clean(content), NEW p \in Payloads, NEW o \in Nat,
           o <= Int64Max, NEW r \in WriteAtResults(p, o)
    PROVE  Written(r, p, o)
  <1> USE MemFileAssumption
  <1>1. p \in Seq(Byte) /\ Len(p) \in Nat /\ Len(p) <= MaxAlloc
    OBVIOUS
  <1>2. content.len \in Nat /\ content.len <= MaxAlloc
    BY DEF Clean, SliceOK
  <1>3. CASE TooLarge(p, o)
    BY <1>3 DEF WriteAtResults, Written
  <1>4. CASE ~ TooLarge(p, o) /\ p = <<>>
    BY <1>4 DEF WriteAtResults, Written
  <1>5. CASE ~ TooLarge(p, o) /\ p # <<>>
    <2> DEFINE end == o + Len(p)
               growth == end - content.len
    <2>1. end \in Nat /\ end <= Int64Max
      <3> SUFFICES ASSUME end > Int64Max PROVE FALSE
        BY <1>1
      <3>1. Wrap(end, Int64Max) = end - (2 * Int64Max + 2)
        BY <1>1, WrapOverflows
      <3> QED BY <1>1, <1>5, <3>1 DEF TooLarge
    <2>2. Wrap(Wrap(end, IntMax) - content.len, IntMax) = growth
      <3>1. Wrap(end, IntMax) = end
        BY <2>1, WrapFits DEF Wide
      <3>2. Wrap(growth, IntMax) = growth
        BY <1>2, <2>1, WrapFits DEF Wide
      <3> QED BY <3>1, <3>2
    <2> DEFINE grown == IF growth > 0 THEN Grow(content, growth) ELSE {content}
    <2>3. r \in IF grown = {}
                THEN {[file |-> content, n |-> 0, err |-> "makeslice"]}
                ELSE {IF o > s.len THEN [file |-> s, n |-> 0, err |-> "bounds"]
                      ELSE [file |-> Put(s, o, p), n |-> Len(p), err |-> "ok"]
                      : s \in grown}
      BY <1>5, <2>2 DEF WriteAtResults
    <2>4. ASSUME NEW s \in grown
          PROVE  /\ Clean(s) /\ s.arr = content.arr
                 /\ s.len = IF end > content.len THEN end ELSE content.len
                 /\ end <= s.len
      BY <1>2, <2>1, GrowCorrect
    <2>5. CASE grown = {}
      <3>1. r = [file |-> content, n |-> 0, err |-> "makeslice"]
        BY <2>3, <2>5
      <3> QED BY <3>1 DEF Written
    <2>6. CASE grown # {}
      <3>1. PICK s \in grown :
              r = IF o > s.len THEN [file |-> s, n |-> 0, err |-> "bounds"]
                  ELSE [file |-> Put(s, o, p), n |-> Len(p), err |-> "ok"]
        BY <2>3, <2>6
      <3>2. /\ Clean(s) /\ s.arr = content.arr /\ end <= s.len
            /\ s.len = IF end > content.len THEN end ELSE content.len
        BY <2>4
      <3>3. r = [file |-> Put(s, o, p), n |-> Len(p), err |-> "ok"]
        BY <1>1, <3>1, <3>2 DEF Clean, SliceOK
      <3> DEFINE arr == [i \in Index |-> IF o <= i /\ i < end
                                         THEN p[i - o + 1] ELSE s.arr[i]]
      <3>4. Put(s, o, p) = [len |-> s.len, cap |-> s.cap, arr |-> arr]
        <4>1. arr = [i \in Index |-> IF o <= i /\ i < end /\ i < s.len
                                     THEN p[i - o + 1] ELSE s.arr[i]]
          BY <1>1, <2>1, <3>2 DEF Index, Clean, SliceOK
        <4> QED BY <3>2, <4>1 DEF Put, Clean, SliceOK
      <3>5. arr \in [Index -> Byte]
        <4>1. ASSUME NEW i \in Index, o <= i, i < end
              PROVE  p[i - o + 1] \in Byte
          <5>1. i - o + 1 \in 1 .. Len(p)
            BY <1>1, <4>1 DEF Index
          <5> QED BY <1>1, <5>1
        <4> QED BY <3>2, <4>1 DEF Clean, SliceOK
      <3>6. \A i \in Index : i >= s.len => arr[i] = 0
        BY <1>1, <2>1, <3>2 DEF Index, Clean, SliceOK, ZeroFrom
      <3> HIDE DEF arr
      <3>7. Clean(Put(s, o, p)) /\ Put(s, o, p).arr = arr
            /\ Put(s, o, p).len = s.len
        BY <3>2, <3>4, <3>5, <3>6 DEF Clean, SliceOK, ZeroFrom
      <3>8. end <= MaxAlloc
        BY <1>1, <3>2 DEF Clean, SliceOK
      <3>9. arr = [i \in Index |-> IF o <= i /\ i < end THEN p[i - o + 1]
                                   ELSE content.arr[i]]
        BY <3>2 DEF arr
      <3> QED BY <1>5, <3>2, <3>3, <3>7, <3>8, <3>9 DEF Written
    <2> QED BY <2>5, <2>6
  <1> QED BY <1>3, <1>4, <1>5

\* The file afterwards has size n, or nothing has happened.
Resized(r, n) ==
    /\ r.err \in {"ok", "EINVAL", "makeslice"}
    /\ \/ r.file = content
       \/ /\ n \in 0 .. MaxAlloc
          /\ Clean(r.file)
          /\ r.file.len = n
          /\ r.file.arr = [i \in Index |-> IF i < n THEN content.arr[i] ELSE 0]

LEMMA TruncateCorrect ==
    ASSUME Wide, Clean(content), NEW n \in Int64s, NEW r \in TruncateResults(n)
    PROVE  Resized(r, n)
  <1> USE MemFileAssumption
  <1>1. content.len \in Nat /\ content.len <= MaxAlloc /\ n \in Int
    BY DEF Clean, SliceOK, Int64s
  <1>2. CASE n < 0
    BY <1>2 DEF TruncateResults, Resized
  <1>3. CASE n >= 0
    <2> DEFINE diff == n - content.len
               grown == IF diff > 0 THEN Grow(content, diff) ELSE {content}
    <2>1. Wrap(diff, IntMax) = diff
      BY <1>1, <1>3, WrapFits DEF Wide, Int64s
    <2>2. r \in IF grown = {}
                THEN {[file |-> content, err |-> GrowPanic(content, diff)]}
                ELSE {IF n > s.cap THEN [file |-> s, err |-> "bounds"]
                      ELSE [file |-> Cut(s, n), err |-> "ok"] : s \in grown}
      <3>1. ~ (n < 0)
        BY <1>1, <1>3
      <3> HIDE DEF diff
      <3>2. TruncateResults(n) =
              LET growth == Wrap(diff, IntMax)
                  new == IF diff > 0 THEN Grow(content, growth) ELSE {content}
              IN  IF new = {}
                  THEN {[file |-> content, err |-> GrowPanic(content, growth)]}
                  ELSE {IF n > s.cap THEN [file |-> s, err |-> "bounds"]
                        ELSE [file |-> Cut(s, n), err |-> "ok"] : s \in new}
        BY <3>1 DEF TruncateResults, diff
      <3> QED BY <2>1, <3>2
    <2>3. CASE grown = {}
      <3>1. r = [file |-> content, err |-> "makeslice"]
        BY <1>1, <1>3, <2>2, <2>3 DEF GrowPanic
      <3> QED BY <3>1 DEF Resized
    <2>4. CASE grown # {}
      <3>1. PICK s \in grown :
              r = IF n > s.cap THEN [file |-> s, err |-> "bounds"]
                  ELSE [file |-> Cut(s, n), err |-> "ok"]
        BY <2>2, <2>4
      <3>2. Clean(s) /\ s.arr = content.arr /\ n <= s.len
        BY <1>1, <1>3, GrowCorrect
      <3>3. r = [file |-> Cut(s, n), err |-> "ok"] /\ n \in 0 .. MaxAlloc
        BY <1>1, <1>3, <3>1, <3>2 DEF Clean, SliceOK
      <3> DEFINE arr == [i \in Index |-> IF i < n THEN s.arr[i] ELSE 0]
      <3>4. Cut(s, n) = [len |-> n, cap |-> n, arr |-> arr]
        <4>1. [s EXCEPT !.len = n] = [len |-> n, cap |-> s.cap, arr |-> s.arr]
          BY <3>2 DEF Clean, SliceOK
        <4> QED BY <4>1 DEF Cut, Slice
      <3>5. arr \in [Index -> Byte]
        BY <3>2 DEF Clean, SliceOK
      <3>6. \A i \in Index : i >= n => arr[i] = 0
        BY <1>1 DEF Index
      <3>7. arr = [i \in Index |-> IF i < n THEN content.arr[i] ELSE 0]
        BY <3>2
      <3> HIDE DEF arr
      <3>8. Clean(Cut(s, n)) /\ Cut(s, n).len = n /\ Cut(s, n).arr = arr
        BY <3>3, <3>4, <3>5, <3>6 DEF Clean, SliceOK, ZeroFrom
      <3> QED BY <3>3, <3>7, <3>8 DEF Resized
    <2> QED BY <2>3, <2>4
  <1> QED BY <1>1, <1>2, <1>3

-----------------------------------------------------------------------------
(***************************************************************************)
(* The handles.                                                            *)
(***************************************************************************)
\* what the variables hold, as the steps below use it
LEMMA Typed ==
    IInv => /\ Clean(content) /\ content.len \in 0 .. MaxAlloc
            /\ content.arr \in [Index -> Byte]
            /\ \A h \in Handles : off[h] \in 0 .. Int64Max
            /\ \A h \in Handles : pending[h] \in Payloads \cup {Idle}
            /\ Offsets \subseteq Int64s
  BY MemFileAssumption
     DEF IInv, TypeOK, SlackZero, Clean, SliceOK, Int64s

\* a read gets what the abstract one gets, all of it bytes
LEMMA ReadCorrect ==
    ASSUME IInv, NEW o \in Nat, NEW n \in Counts
    PROVE  /\ Bytes(o, n) = File!Slice(o, n) /\ Bytes(o, n) \in Seq(Byte)
           /\ ReadCount(o, n) = File!Available(o, n)
           /\ ReadCount(o, n) \in Nat
           /\ ReadCount(o, n) = 0 \/ o + ReadCount(o, n) <= content.len
  <1>1. content.len \in 0 .. MaxAlloc /\ content.arr \in [Index -> Byte]
        /\ n \in Nat
    BY Typed, MemFileAssumption
  <1>2. /\ ReadCount(o, n) = File!Available(o, n) /\ ReadCount(o, n) \in Nat
        /\ ReadCount(o, n) = 0 \/ o + ReadCount(o, n) <= content.len
    BY <1>1 DEF ReadCount, File!Available
  <1>3. \A i \in 1 .. ReadCount(o, n) : content.arr[o + i - 1] \in Byte
    <2> SUFFICES ASSUME NEW i \in 1 .. ReadCount(o, n)
                 PROVE  content.arr[o + i - 1] \in Byte
      OBVIOUS
    <2>1. o + i - 1 \in Index
      BY <1>1, <1>2, MemFileAssumption DEF Index
    <2> QED BY <1>1, <2>1
  <1>4. Bytes(o, n) \in Seq(Byte)
    BY <1>2, <1>3 DEF Bytes
  <1> QED BY <1>2, <1>4 DEF Bytes, File!Slice

\* where the offset of Seek ends up, or the error
LEMMA SeekCorrect ==
    ASSUME MemFileAssumption, NEW o \in Int64s, NEW from \in 0 .. Int64Max
    PROVE  LET to == Wrap(o + from, Int64Max) IN
            to < 0 \/ (to = o + from /\ to \in 0 .. Int64Max)
  <1> USE MemFileAssumption DEF Int64s
  <1>1. CASE o + from <= Int64Max
    BY <1>1, WrapFits
  <1>2. CASE o + from > Int64Max
    BY <1>2, WrapOverflows
  <1> QED BY <1>1, <1>2

\* A step of MemFile keeps the invariant, and is one of ByteFile or changes
\* nothing there.
Good == IInv' /\ [File!Next]_(File!fileVars)

\* the file is what it was or as Patch has it, and the offset follows
LEMMA WrittenIsPatch ==
    ASSUME IInv, NEW p \in Payloads, NEW o \in 0 .. Int64Max, NEW r,
           Written(r, p, o), content' = r.file, err' = r.err
    PROVE  /\ Clean(content') /\ err' \in Errors /\ NoBoundsPanic'
           /\ \/ content' = content /\ r.n = 0
              \/ File!Patch(o, p) /\ r.n = Len(p) /\ o + Len(p) <= MaxAlloc
  <1>1. Clean(content)
    BY Typed
  <1> QED BY <1>1 DEF Written, NoBoundsPanic, Errors, File!Patch, File!Index,
                      Index

\* a write at the offset of a handle
LEMMA WriteGood ==
    ASSUME Wide, IInv, NEW h \in Handles, NEW p \in Payloads,
           NEW r \in WriteAtResults(p, off[h]),
           content' = r.file, off' = [off EXCEPT ![h] = @ + r.n], err' = r.err,
           pending' \in [Handles -> Payloads \cup {Idle}], got' = got
    PROVE  Good
  <1>1. /\ off[h] \in 0 .. Int64Max /\ Clean(content)
        /\ off \in [Handles -> 0 .. Int64Max]
        /\ got \in Seq(Byte) /\ Len(p) \in Nat
    BY Typed, MemFileAssumption DEF IInv, TypeOK
  <1>2. Written(r, p, off[h])
    BY <1>1, WriteAtCorrect
  <1>3. /\ Clean(content') /\ err' \in Errors /\ NoBoundsPanic'
        /\ \/ content' = content /\ r.n = 0
           \/ /\ File!Patch(off[h], p) /\ r.n = Len(p)
              /\ off[h] + Len(p) <= MaxAlloc
    BY <1>1, <1>2, WrittenIsPatch
  <1>4. off[h] + r.n \in 0 .. Int64Max
    BY <1>1, <1>3, MemFileAssumption
  <1>5. off' \in [Handles -> 0 .. Int64Max]
    BY <1>1, <1>4
  <1>6. IInv'
    BY <1>1, <1>3, <1>5 DEF IInv, TypeOK, SlackZero, NoBoundsPanic, Clean
  <1>7. UNCHANGED File!fileVars \/ File!Write(h)
    <2>1. CASE content' = content /\ r.n = 0
      <3>1. off' = off
        BY <1>1, <2>1
      <3> QED BY <2>1, <3>1 DEF File!fileVars
    <2>2. CASE File!Patch(off[h], p) /\ r.n = Len(p)
      BY <2>2 DEF File!Write
    <2> QED BY <1>3, <2>1, <2>2
  <1> QED BY <1>6, <1>7 DEF Good, File!Next

LEMMA InitGood == Init => IInv /\ File!Init
  <1> SUFFICES ASSUME Init PROVE IInv /\ File!Init
    OBVIOUS
  <1> USE MemFileAssumption
  <1>1. Clean(content) /\ content.arr = [i \in Index |-> 0] /\ content.len = 0
    BY DEF Init, Clean, SliceOK, ZeroFrom
  <1>2. off \in [Handles -> 0 .. Int64Max] /\ got \in Seq(Byte)
        /\ pending \in [Handles -> Payloads \cup {Idle}] /\ err = "ok"
    BY DEF Init
  <1>3. IInv
    BY <1>1, <1>2 DEF IInv, TypeOK, SlackZero, NoBoundsPanic, Clean, Errors
  <1>4. File!Init
    BY <1>1 DEF Init, File!Init, File!Index, Index
  <1> QED BY <1>3, <1>4

LEMMA NextGood == Wide /\ IInv /\ [Next]_vars => Good
  <1> SUFFICES ASSUME Wide, IInv, [Next]_vars PROVE Good
    OBVIOUS
  <1> USE MemFileAssumption
  <1>0. /\ Clean(content) /\ content.len \in 0 .. MaxAlloc
        /\ \A h \in Handles : off[h] \in 0 .. Int64Max
        /\ \A h \in Handles : pending[h] \in Payloads \cup {Idle}
        /\ Offsets \subseteq Int64s
        /\ off \in [Handles -> 0 .. Int64Max]
        /\ pending \in [Handles -> Payloads \cup {Idle}]
        /\ got \in Seq(Byte) /\ err \in Errors
    BY Typed DEF IInv, TypeOK
  <1> DEFINE Kept == /\ Clean(content') /\ off' \in [Handles -> 0 .. Int64Max]
                     /\ pending' \in [Handles -> Payloads \cup {Idle}]
                     /\ got' \in Seq(Byte) /\ err' \in Errors
                     /\ NoBoundsPanic'
  <1>1. Kept => IInv'
    BY DEF IInv, TypeOK, SlackZero, NoBoundsPanic, Clean
  <1>2. ASSUME UNCHANGED <<content, off, got>> PROVE UNCHANGED File!fileVars
    BY <1>2 DEF File!fileVars
  <1>3. ASSUME NEW h \in Handles, Read(h) PROVE Good
    <2>1. PICK n \in Counts :
            /\ got' = Bytes(off[h], n)
            /\ off' = [off EXCEPT ![h] = @ + ReadCount(@, n)]
            /\ err' = ReadErr(off[h], n)
      BY <1>3 DEF Read
    <2>2. UNCHANGED <<content, pending>>
      BY <1>3 DEF Read
    <2>3. /\ Bytes(off[h], n) = File!Slice(off[h], n) /\ got' \in Seq(Byte)
          /\ ReadCount(off[h], n) = File!Available(off[h], n)
          /\ off[h] + ReadCount(off[h], n) \in 0 .. Int64Max
      <3>1. off[h] \in Nat /\ off[h] <= Int64Max
        BY <1>0
      <3>2. /\ Bytes(off[h], n) = File!Slice(off[h], n)
            /\ Bytes(off[h], n) \in Seq(Byte)
            /\ ReadCount(off[h], n) = File!Available(off[h], n)
            /\ ReadCount(off[h], n) \in Nat
            /\ \/ ReadCount(off[h], n) = 0
               \/ off[h] + ReadCount(off[h], n) <= content.len
        BY <3>1, ReadCorrect
      <3> QED BY <1>0, <2>1, <3>1, <3>2
    <2>4. Kept
      BY <1>0, <2>1, <2>2, <2>3 DEF ReadErr, Errors, NoBoundsPanic, IInv
    <2>5. File!Read(h)
      BY <1>0, <2>1, <2>2, <2>3 DEF File!Read
    <2> QED BY <1>1, <1>3, <2>4, <2>5 DEF Good, File!Next
  <1>4. ASSUME NEW h \in Handles, ReadAt(h) PROVE Good
    <2>1. PICK n \in Counts, o \in Offsets :
            /\ got' = IF o < 0 THEN got ELSE Bytes(o, n)
            /\ err' = ReadErr(o, n)
      BY <1>4 DEF ReadAt
    <2>2. UNCHANGED <<content, off, pending>>
      BY <1>4 DEF ReadAt
    <2>3. o \in Int /\ err' \in Errors /\ NoBoundsPanic'
      <3>1. o \in Int
        BY <1>0 DEF Int64s
      <3>2. err' \in {"negative offset", "EOF", "ok"}
        BY <2>1 DEF ReadErr
      <3> QED BY <3>1, <3>2 DEF Errors, NoBoundsPanic
    <2>4. CASE o < 0
      BY <1>0, <1>1, <1>2, <2>1, <2>2, <2>3, <2>4 DEF Good
    <2>5. CASE o >= 0
      <3>1. Bytes(o, n) = File!Slice(o, n) /\ got' \in Seq(Byte)
        BY <2>1, <2>3, <2>5, ReadCorrect
      <3>2. File!ReadAt
        BY <2>1, <2>2, <2>3, <2>5, <3>1 DEF File!ReadAt
      <3> QED BY <1>0, <1>1, <2>2, <2>3, <3>1, <3>2 DEF Good, File!Next
    <2> QED BY <2>3, <2>4, <2>5
  <1>5. ASSUME NEW h \in Handles, Seek(h) PROVE Good
    <2>1. PICK o \in Offsets, from \in {0, off[h], content.len} :
            LET to == Wrap(o + from, Int64Max) IN
            IF to < 0 THEN Fail("EINVAL")
            ELSE /\ off' = [off EXCEPT ![h] = to]
                 /\ err' = "ok"
                 /\ UNCHANGED <<content, pending, got>>
      BY <1>5 DEF Seek
    <2>2. o \in Int64s /\ from \in 0 .. Int64Max
      BY <1>0
    <2> DEFINE to == Wrap(o + from, Int64Max)
    <2>3. to < 0 \/ (to = o + from /\ to \in 0 .. Int64Max)
      BY <2>2, SeekCorrect
    <2>4. CASE Fail("EINVAL")
      BY <1>0, <1>1, <1>2, <2>4 DEF Good, Fail, Errors, NoBoundsPanic
    <2>5. CASE /\ off' = [off EXCEPT ![h] = o + from]
               /\ o + from \in 0 .. Int64Max /\ err' = "ok"
               /\ UNCHANGED <<content, pending, got>>
      <3>1. Kept
        BY <1>0, <2>5 DEF Errors, NoBoundsPanic
      <3>2. from + o = o + from /\ from + o >= 0 /\ o \in Offsets
        BY <2>2, <2>5 DEF Int64s
      <3>3. File!Seek(h)
        BY <2>5, <3>2 DEF File!Seek
      <3> QED BY <1>1, <1>5, <3>1, <3>3 DEF Good, File!Next
    <2> QED BY <2>1, <2>3, <2>4, <2>5
  <1>6. ASSUME NEW h \in Handles, Truncate(h) PROVE Good
    <2>0. PICK n \in Offsets : \E r \in TruncateResults(n) :
            content' = r.file /\ err' = r.err
      BY <1>6 DEF Truncate
    <2>1. PICK r \in TruncateResults(n) : content' = r.file /\ err' = r.err
      BY <2>0
    <2>2. UNCHANGED <<off, pending, got>>
      BY <1>6 DEF Truncate
    <2>3. Resized(r, n)
      BY <1>0, TruncateCorrect
    <2>4. Kept
      BY <1>0, <2>1, <2>2, <2>3 DEF Resized, Errors, NoBoundsPanic
    <2>5. UNCHANGED File!fileVars \/ File!Truncate
      <3>1. CASE content' = content
        BY <2>2, <3>1 DEF File!fileVars
      <3>2. CASE content' # content
        <4>1. /\ n >= 0 /\ n <= MaxAlloc /\ content'.len = n
              /\ content'.arr =
                    [i \in Index |-> IF i < n THEN content.arr[i] ELSE 0]
          BY <2>1, <2>3, <3>2 DEF Resized
        <4> QED BY <2>2, <4>1 DEF File!Truncate, File!Index, Index
      <3> QED BY <3>1, <3>2
    <2> QED BY <1>1, <2>4, <2>5 DEF Good, File!Next
  <1>7. ASSUME NEW h \in Handles, Write(h) PROVE Good
    <2>1. PICK p \in Payloads : \E r \in WriteAtResults(p, off[h]) :
            /\ content' = r.file
            /\ off' = [off EXCEPT ![h] = @ + r.n]
            /\ err' = r.err
      BY <1>7 DEF Write
    <2>2. PICK r \in WriteAtResults(p, off[h]) :
            /\ content' = r.file
            /\ off' = [off EXCEPT ![h] = @ + r.n]
            /\ err' = r.err
      BY <2>1
    <2>3. pending' \in [Handles -> Payloads \cup {Idle}] /\ got' = got
      BY <1>0, <1>7 DEF Write
    <2> QED BY <2>2, <2>3, WriteGood
  <1>8. ASSUME NEW h \in Handles, AppendSeek(h) PROVE Good
    <2>1. /\ off' = [off EXCEPT ![h] = content.len]
          /\ pending' \in [Handles -> Payloads \cup {Idle}]
          /\ UNCHANGED <<content, got, err>>
      BY <1>0, <1>8 DEF AppendSeek
    <2>2. Kept
      BY <1>0, <2>1 DEF NoBoundsPanic, IInv
    <2>3. File!Seek(h)
      <3>1. 0 \in Offsets \cup {0} /\ content.len \in {0, off[h], content.len}
            /\ content.len + 0 >= 0 /\ content.len + 0 = content.len
        BY <1>0
      <3> QED BY <2>1, <3>1 DEF File!Seek
    <2> QED BY <1>1, <1>8, <2>2, <2>3 DEF Good, File!Next
  <1>9. ASSUME NEW h \in Handles, AppendWrite(h) PROVE Good
    <2>1. PICK r \in WriteAtResults(pending[h], off[h]) :
            /\ content' = r.file
            /\ off' = [off EXCEPT ![h] = @ + r.n]
            /\ err' = r.err
      BY <1>9 DEF AppendWrite
    <2>2. pending[h] \in Payloads
          /\ pending' \in [Handles -> Payloads \cup {Idle}] /\ got' = got
      BY <1>0, <1>9 DEF AppendWrite
    <2> QED BY <2>1, <2>2, WriteGood
  <1>10. ASSUME NEW h \in Handles, WriteAt(h) PROVE Good
    <2>1. PICK p \in Payloads, o \in Offsets : \E r \in WriteAtResults(p, o) :
            content' = r.file /\ err' = r.err
      BY <1>10 DEF WriteAt
    <2>2. PICK r \in WriteAtResults(p, o) : content' = r.file /\ err' = r.err
      BY <2>1
    <2>3. UNCHANGED <<off, pending, got>>
      BY <1>10 DEF WriteAt
    <2>4. CASE o < 0
      <3>1. content' = content /\ err' = "EINVAL"
        BY <2>2, <2>4 DEF WriteAtResults
      <3> QED BY <1>0, <1>1, <1>2, <2>3, <3>1
              DEF Good, Errors, NoBoundsPanic
    <2>5. CASE o >= 0
      <3>1. o \in 0 .. Int64Max
        BY <1>0, <2>5 DEF Int64s
      <3>2. Written(r, p, o)
        BY <1>0, <3>1, WriteAtCorrect
      <3>3. /\ Clean(content') /\ err' \in Errors /\ NoBoundsPanic'
            /\ content' = content \/ File!Patch(o, p)
        BY <2>2, <3>1, <3>2, WrittenIsPatch
      <3>4. Kept
        BY <1>0, <2>3, <3>3
      <3>5. UNCHANGED File!fileVars \/ File!WriteAt
        BY <2>3, <2>5, <3>3 DEF File!fileVars, File!WriteAt
      <3> QED BY <1>1, <3>4, <3>5 DEF Good, File!Next
    <2> QED BY <1>0, <2>4, <2>5 DEF Int64s
  <1>11. ASSUME NEW h \in Handles, Refused(h) PROVE Good
    BY <1>0, <1>1, <1>2, <1>11
       DEF Good, Refused, Fail, Errors, NoBoundsPanic
  <1>12. CASE UNCHANGED vars
    BY <1>0, <1>1, <1>2, <1>12 DEF Good, vars, NoBoundsPanic, IInv
  <1> QED BY <1>3, <1>4, <1>5, <1>6, <1>7, <1>8, <1>9, <1>10, <1>11, <1>12
          DEF Next

-----------------------------------------------------------------------------
(***************************************************************************)
(* Every file keeps its type, whatever is written where: length and        *)
(* capacity stay within what can be allocated, offsets within an int64     *)
(* (impl_inmem_file.go).                                                   *)
(***************************************************************************)
THEOREM TypeCorrect ==
    ASSUME Wide
    PROVE  Spec => []TypeOK
  <1>1. IInv /\ [Next]_vars => IInv'
    BY NextGood DEF Good
  <1>2. Init => IInv
    BY InitGood
  <1> QED BY <1>1, <1>2, PTL DEF Spec, IInv

(***************************************************************************)
(* The bytes between length and capacity are zero, so that grow shows none *)
(* that a Truncate cut off (impl_inmem_file.go).                           *)
(***************************************************************************)
THEOREM CutStaysCut ==
    ASSUME Wide
    PROVE  Spec => []SlackZero
  <1>1. IInv /\ [Next]_vars => IInv'
    BY NextGood DEF Good
  <1>2. Init => IInv
    BY InitGood
  <1> QED BY <1>1, <1>2, PTL DEF Spec, IInv

(***************************************************************************)
(* Where an int is as wide as an int64 (Wide), no offset and no length, at *)
(* whatever boundary, makes a slice expression panic (impl_inmem_file.go). *)
(* With a narrower int it is false: a sum may overflow int after the       *)
(* checks.                                                                 *)
(***************************************************************************)
THEOREM BoundsHold ==
    ASSUME Wide
    PROVE  Spec => []NoBoundsPanic
  <1>1. IInv /\ [Next]_vars => IInv'
    BY NextGood DEF Good
  <1>2. Init => IInv
    BY InitGood
  <1> QED BY <1>1, <1>2, PTL DEF Spec, IInv

(***************************************************************************)
(* The slice of a memFile and its handles implement the file of ByteFile:  *)
(* every step is one of ByteFile or changes nothing that it has            *)
(* (impl_inmem_file.go).                                                   *)
(***************************************************************************)
THEOREM MemFileImplements ==
    ASSUME Wide
    PROVE  Spec => Implements
  <1>1. IInv /\ [Next]_vars => IInv' /\ [File!Next]_(File!fileVars)
    BY NextGood DEF Good
  <1>2. Init => IInv /\ File!Init
    BY InitGood
  <1> QED BY <1>1, <1>2, PTL DEF Spec, Implements, File!Spec
=============================================================================
