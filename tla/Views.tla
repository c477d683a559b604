------------------------------- MODULE Views --------------------------------
(***************************************************************************)
(* Views of a file of another fs.FS (synth/impl_fslink.go) and of ranges   *)
(* of it, with the FsFile (iofs.go, operation.go) a view opens.            *)
(*                                                                         *)
(* The file belongs to somebody else who may change its length.  A byte is *)
(* its position in the file.  A view is the list of its ranges, innermost  *)
(* first: <<>> is an fsFileView, any other a rangedFileView around the     *)
(* view without the last.  A handle that was closed is not used any more:  *)
(* the Closable of Handles sees to that.                                   *)
(*                                                                         *)
(* A definition marked as a fault is the one that follows it with a        *)
(* mistake in it, for README.md's table of what the properties notice.     *)
(***************************************************************************)
EXTENDS Integers, Sequences, FiniteSets, SequencesExt

CONSTANTS
    Handles,    \* handles that can be opened, one after the other
    Kinds,      \* types of file the path may name
    Lens,       \* lengths the file may have
    RangeOffs,  \* argument off of NewRangedFileView
    RangeLens,  \* and n
    MaxRanges,  \* bound: ranges in a view
    MaxFds,     \* bound: fs.File handles open at a time
    Bufs,       \* lengths of the buffers passed to Read and ReadAt
    Offsets,    \* arguments of Seek and ReadAt
    MaxOff,     \* bound: no Seek beyond this offset
    Int64Max,   \* math.MaxInt64
    Nil         \* no view yet

ASSUME ViewsAssumption ==
    /\ Int64Max \in Nat
    /\ Lens \subseteq 0..Int64Max /\ Bufs \subseteq Nat
    /\ RangeOffs \subseteq Int /\ RangeLens \subseteq Int /\ Offsets \subseteq Int
    /\ \A x \in RangeOffs \cup RangeLens : x <= Int64Max
    /\ MaxRanges \in Nat /\ MaxFds \in Nat /\ MaxOff \in Nat
    /\ Nil \notin Seq([off : Nat, n : Nat])

VARIABLES
    file,       \* the file in the fs.FS: its kind, length, and what it supports
    ranges,     \* the view, Nil before NewFsFileView
    handle,     \* open, and the offset: of the fs.File or of the SectionReader
    fds,        \* how many fs.File handles are open
    last        \* what the last operation returned

vars == <<file, ranges, handle, fds, last>>

Opened == {h \in Handles : handle[h].open}

Ranged == ranges # Nil /\ ranges # <<>>

\* an operation that got no bytes
Result(op, err) == [op |-> op, err |-> err, bytes |-> <<>>]

Leave(op, err) ==
    last' = Result(op, err) /\ UNCHANGED <<file, ranges, handle, fds>>

-----------------------------------------------------------------------------
(***************************************************************************)
(* Reading.  A read of the fs.File is given by the contract of io.ReaderAt *)
(* and io.Reader; bytes are the positions it got.                          *)
(***************************************************************************)
Get(o, n, err) == [bytes |-> [i \in 1..n |-> o + i - 1], err |-> err]

FileReadAt(o, n) ==
    LET avail == IF o < file.len THEN file.len - o ELSE 0 IN
    {Get(o, k, "EIO") : k \in {j \in 0..n : j <= avail}}
    \cup (IF n <= avail THEN {Get(o, n, "nil")} ELSE {})
    \cup (IF n >= avail THEN {Get(o, avail, "EOF")} ELSE {})

\* ReadAt of operation.go
FsReadAt(o, n) ==
    IF "ReadAt" \notin file.does THEN {Get(0, 0, "ErrOpNotSupported")}
    ELSE IF o < 0 THEN {Get(0, 0, "EINVAL")}
    ELSE FileReadAt(o, n)

\* a SectionReader: where it ends in what is below it, and its Size
Limit(r) == IF r.off <= Int64Max - r.n THEN r.off + r.n ELSE Int64Max
SectionSize(r) == Limit(r) - r.off

\* fault: a buffer that reaches beyond the range is not cut
SectionReadAtUncut(r, below) ==
    [x \in Int \X Nat |->
        IF x[1] < 0 \/ x[1] >= SectionSize(r) THEN {Get(0, 0, "EOF")}
        ELSE below[<<x[1] + r.off, x[2]>>]]

\* ReadAt of a SectionReader of the range r: ReadAt of what is below, not beyond
\* the limit; a buffer that had to be cut for it comes with io.EOF
SectionReadAt(r, below) ==
    [x \in Int \X Nat |->
        LET max == SectionSize(r) - x[1] IN
        IF x[1] < 0 \/ x[1] >= SectionSize(r) THEN {Get(0, 0, "EOF")}
        ELSE IF x[2] > max
        THEN {[g EXCEPT !.err = IF @ = "nil" THEN "EOF" ELSE @] :
              g \in below[<<x[1] + r.off, max>>]}
        ELSE below[<<x[1] + r.off, x[2]>>]]

\* ReadAt of what is open in a handle of the view: of the fs.File, and of the
\* SectionReader of each range
ReadAtOf(rs) ==
    LET at[k \in 0..Len(rs)] ==
          IF k = 0 THEN [x \in Int \X Nat |-> FsReadAt(x[1], x[2])]
          ELSE SectionReadAt(rs[k], at[k - 1])
    IN at

ViewReadAt(o, n) == ReadAtOf(ranges)[Len(ranges)][<<o, n>>]

\* Read of a SectionReader: ReadAt of what is below, not beyond the limit
SectionRead(o, n) ==
    LET r == Last(ranges)
        max == Limit(r) - o IN
    IF max <= 0 THEN {Get(0, 0, "EOF")}
    ELSE ReadAtOf(ranges)[Len(ranges) - 1][<<o, IF n > max THEN max ELSE n>>]

\* Read of an fs.File may get less than n
FileRead(o, n) ==
    FileReadAt(o, n)
    \cup {Get(o, k, "nil") : k \in {j \in 1..n : o + j <= file.len}}

ViewRead(o, n) == IF ranges = <<>> THEN FileRead(o, n) ELSE SectionRead(o, n)
-----------------------------------------------------------------------------
(***************************************************************************)
(* Making a view, before any handle is opened.                             *)
(***************************************************************************)
Unused == Opened = {} /\ \A h \in Handles : ~handle[h].used

NewFsFileView ==
    /\ ranges = Nil
    /\ \/ /\ file.kind = "regular"
          /\ ranges' = <<>>
          /\ last' = Result("NewFsFileView", "nil")
          /\ UNCHANGED <<file, handle, fds>>
       \/ file.kind = "dir" /\ Leave("NewFsFileView", "EISDIR")
       \/ file.kind = "other" /\ Leave("NewFsFileView", "EBADF")
       \/ Leave("NewFsFileView", "EIO")

\* what an open view leaves open when it is closed: sectionFile.Close closes
\* nothing, FsFile.Close the fs.File
LeftOpen == IF ranges = <<>> THEN 0 ELSE 1

\* fault: the file opened for it is closed only when the byte cannot be read
ProbeResultsLeak ==
    {[err |-> g.err, fds |-> IF g.err = "nil" THEN fds + 1 ELSE fds + LeftOpen] :
        g \in ViewReadAt(0, 1)}
    \cup {[err |-> "EIO", fds |-> n] : n \in {fds, fds + LeftOpen}}

\* fault: whether the byte could be read is not looked at
ProbeResultsIgnored ==
    {[err |-> "nil", fds |-> fds + LeftOpen] : g \in ViewReadAt(0, 1)}
    \cup {[err |-> "EIO", fds |-> n] : n \in {fds, fds + LeftOpen}}

\* the results of opening the view to read a byte of it
ProbeResults ==
    {[err |-> g.err, fds |-> fds + LeftOpen] : g \in ViewReadAt(0, 1)}
    \cup {[err |-> "EIO", fds |-> n] : n \in {fds, fds + LeftOpen}}

\* fault: a range of no bytes is let through
BadRangeNegative(off, n) == off < 0 \/ n < 0

BadRange(off, n) == off < 0 \/ n <= 0

\* NewRangedFileView: opens the view and reads a byte before it takes the range
NewRanged ==
    /\ ranges # Nil /\ Unused /\ Len(ranges) < MaxRanges /\ fds < MaxFds
    /\ \E off \in RangeOffs, n \in RangeLens :
        IF BadRange(off, n) THEN Leave("NewRanged", "EINVAL")
        ELSE \E p \in ProbeResults :
            /\ last' = Result("NewRanged", p.err)
            /\ ranges' = IF p.err = "nil"
                         THEN Append(ranges, [off |-> off, n |-> n]) ELSE ranges
            /\ fds' = p.fds
            /\ UNCHANGED <<file, handle>>

-----------------------------------------------------------------------------
(***************************************************************************)
(* Handles of the view.                                                    *)
(***************************************************************************)
\* a flag that writes, or a failure
OpenErr == Leave("Open", "EROFS") \/ Leave("Open", "EIO")

OpenAt(h, off) ==
    /\ fds' = fds + 1
    /\ last' = Result("Open", "nil")
    /\ handle' = [handle EXCEPT ![h] = [open |-> TRUE, used |-> TRUE, off |-> off]]
    /\ UNCHANGED <<file, ranges>>

\* Open of fsFileView
OpenFsFile(h) ==
    /\ ranges = <<>> /\ ~handle[h].used /\ fds < MaxFds
    /\ OpenErr \/ OpenAt(h, 0)

\* Open of rangedFileView: the offset of a SectionReader starts at its base;
\* a Stat that fails loses the file that was opened for it
OpenRanged(h) ==
    /\ Ranged /\ ~handle[h].used /\ fds < MaxFds
    /\ \/ OpenErr
       \/ /\ fds' = fds + 1
          /\ last' = Result("Open", "EIO")
          /\ UNCHANGED <<file, ranges, handle>>
       \/ OpenAt(h, Last(ranges).off)

Got(op, g) == last' = [op |-> op, err |-> g.err, bytes |-> g.bytes]

Read(h) ==
    /\ handle[h].open
    /\ \E n \in Bufs : \E g \in ViewRead(handle[h].off, n) :
        /\ Got("Read", g)
        /\ handle' = [handle EXCEPT ![h].off = @ + Len(g.bytes)]
    /\ UNCHANGED <<file, ranges, fds>>

ReadAt(h) ==
    /\ handle[h].open
    /\ \E n \in Bufs, o \in Offsets :
        \E g \in ViewReadAt(o, n) : Got("ReadAt", g)
    /\ UNCHANGED <<file, ranges, handle, fds>>

\* fault: what Seek is relative to forgets the start of the range
SeekFromZero(h) ==
    {0, handle[h].off,
     IF ranges = <<>> THEN file.len ELSE Limit(Last(ranges))}

\* io.SeekStart, io.SeekCurrent and io.SeekEnd
SeekFrom(h) ==
    IF ranges = <<>> THEN {0, handle[h].off, file.len}
    ELSE {Last(ranges).off, handle[h].off, Limit(Last(ranges))}

\* a sum beyond Int64Max wraps around to one before the start
Seek(h) ==
    LET base == IF ranges = <<>> THEN 0 ELSE Last(ranges).off
        can == ranges # <<>> \/ "Seek" \in file.does
    IN
    /\ handle[h].open
    /\ \/ ~can /\ Leave("Seek", "ErrOpNotSupported")
       \/ /\ can
          /\ \E d \in Offsets, from \in SeekFrom(h) :
              IF from + d < base \/ from + d > Int64Max THEN Leave("Seek", "EINVAL")
              ELSE /\ from + d <= base + MaxOff
                   /\ handle' = [handle EXCEPT ![h].off = from + d]
                   /\ last' = Result("Seek", "nil")
                   /\ UNCHANGED <<file, ranges, fds>>

\* Write, WriteAt, WriteString and Truncate of a FsFile that is read only ...
WriteFsFile(h) == handle[h].open /\ ranges = <<>> /\ Leave("Write", "EROFS")

\* ... and of a sectionFile
WriteRanged(h) == handle[h].open /\ ranges # <<>> /\ Leave("Write", "EROFS")

\* FsFile.Close closes the fs.File, sectionFile.Close nothing
Close(h) ==
    /\ handle[h].open
    /\ handle' = [handle EXCEPT ![h].open = FALSE]
    /\ fds' = fds - 1 + LeftOpen
    /\ last' = Result("Close", "nil")
    /\ UNCHANGED <<file, ranges>>

-----------------------------------------------------------------------------
(***************************************************************************)
(* Sizes, as Stat of a view and Stat of a handle of it report them.        *)
(***************************************************************************)
HandleSize == IF ranges = <<>> THEN file.len ELSE SectionSize(Last(ranges))
ViewSize == IF ranges = <<>> THEN file.len
            ELSE Last(ranges).n - Last(ranges).off

\* whoever owns the file writes to it or cuts it
Resize ==
    /\ \E l \in Lens : file' = [file EXCEPT !.len = l]
    /\ last' = Result("Resize", "nil")
    /\ UNCHANGED <<ranges, handle, fds>>

Init ==
    /\ file \in [kind : Kinds, len : Lens, does : SUBSET {"ReadAt", "Seek"}]
    /\ ranges = Nil
    /\ handle = [h \in Handles |-> [open |-> FALSE, used |-> FALSE, off |-> 0]]
    /\ fds = 0
    /\ last = Result("none", "nil")

Next ==
    \/ NewFsFileView \/ NewRanged \/ Resize
    \/ \E h \in Handles :
        \/ OpenFsFile(h) \/ OpenRanged(h) \/ Read(h) \/ ReadAt(h) \/ Seek(h)
        \/ WriteFsFile(h) \/ WriteRanged(h) \/ Close(h)

Spec == Init /\ [][Next]_vars

-----------------------------------------------------------------------------
TypeOK ==
    /\ file \in [kind : Kinds, len : Lens, does : SUBSET {"ReadAt", "Seek"}]
    /\ ranges = Nil \/ ranges \in Seq([off : Nat, n : Nat \ {0}])
    /\ handle \in [Handles -> [open : BOOLEAN, used : BOOLEAN, off : Nat]]
    /\ fds \in Nat
    /\ last.bytes \in Seq(Nat)

\* The refinement: the bytes of a range are those of the file that lie in it
\* and in all the ranges around it, wherever in them they start.
Starts ==
    LET at[k \in 0..Len(ranges)] ==
          IF k = 0 THEN 0 ELSE at[k - 1] + ranges[k].off
    IN at

InEvery == {p \in 0..(file.len - 1) : \A k \in DOMAIN ranges :
                Starts[k] <= p /\ p < Starts[k] + ranges[k].n}

Contents == IF ranges = Nil THEN <<>>
            ELSE LET start == Starts[Len(ranges)] IN
                 [i \in 1..Cardinality(InEvery) |-> start + i - 1]

Position(h) == IF ~handle[h].used \/ ranges = <<>> THEN handle[h].off
               ELSE handle[h].off - Last(ranges).off

Positions == [h \in Handles |-> Position(h)]

Said == IF ranges = Nil THEN 0 ELSE HandleSize

Heard == IF last.op \in {"Read", "ReadAt"} /\ last.err \in {"nil", "EOF", "EIO"}
         THEN [bytes |-> last.bytes, err |-> last.err]
         ELSE [bytes |-> <<>>, err |-> "nil"]

File == INSTANCE ReadOnlyFile WITH
    bytes <- Contents, said <- Said, pos <- Positions, got <- Heard

\* Reads and seeks of a view, of a range of it, and of a range of that, are
\* those of the bytes that lie in every range, whatever the length of the file.
Implements == File!Spec

\* Files of the fs.FS that are open, though in no handle that is.
Strays == fds - Cardinality(Opened)

\* A file opened through a view that is not ranged is closed with its handle,
\* and what NewRangedFileView opens to read a byte of such a view is closed
\* whether it then gives a range or not.  A step of a view that has a range
\* may leave one file behind, no step more, and none closes a file it has not
\* opened.
PlainCloses ==
    /\ Strays = 0
    /\ [][Strays' = Strays \/ (Ranged /\ Strays' = Strays + 1)]_vars

\* The byte NewRangedFileView reads is check enough: a handle of a ranged view
\* never finds out that the file cannot be read at an offset.
ProbeIsEnough == Ranged => last.err # "ErrOpNotSupported"

\* Of FileView: "Stat is a short hand for Open then Stat."
StatIsOpenThenStat == ranges # Nil => ViewSize = HandleSize
=============================================================================
