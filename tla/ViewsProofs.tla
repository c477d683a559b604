---------------------------- MODULE ViewsProofs -----------------------------
(***************************************************************************)
(* For any file, ranges one around the other, buffers and offsets: types,  *)
(* what a view closes, that the byte NewRangedFileView reads is check      *)
(* enough, and that a view reads the bytes which lie in all its ranges.    *)
(***************************************************************************)
EXTENDS Views, SequenceTheorems, FiniteSetTheorems, WellFoundedInduction, TLAPS

-----------------------------------------------------------------------------
(***************************************************************************)
(* Going up the ranges of a view.                                          *)
(***************************************************************************)
\* the order of Nat as a set of pairs
Less == {p \in Nat \X Nat : p[1] < p[2]}

\* Induction: what holds of 0 and of the next number up to n holds up to n.
LEMMA InductTo ==
    ASSUME NEW n \in Nat, NEW S, 0 \in S,
           \A k \in 1 .. n : k - 1 \in S => k \in S
    PROVE  0 .. n \subseteq S
  <1> DEFINE T == {k \in Nat : k <= n /\ k \notin S}
  <1>1. SUFFICES ASSUME T # {} PROVE FALSE
    OBVIOUS
  <1>2. IsWellFoundedOn(Less, Nat)
    BY NatLessThanWellFounded DEF OpToRel, Less
  <1>3. PICK x \in T : \A y \in T : ~(<<y, x>> \in Less)
    <2> HIDE DEF Less
    <2> QED BY <1>1, <1>2, WFMin
  <1>4. x \in 1 .. n /\ x - 1 \in Nat /\ x - 1 <= n
    OBVIOUS
  <1>5. <<x - 1, x>> \in Less
    BY <1>4 DEF Less
  <1> HIDE DEF Less
  <1>6. x - 1 \notin T
    BY <1>3, <1>5
  <1> QED BY <1>4, <1>6

\* f has v at first, and at k what g makes of what it has before
Follows(f, g, v, n) ==
    f = [k \in 0 .. n |-> IF k = 0 THEN v ELSE g[<<f[k - 1], k>>]]

\* There is a function that does.
LEMMA FollowsExists ==
    ASSUME NEW n \in Nat, NEW V, NEW v \in V, NEW g \in [V \X (1 .. n) -> V]
    PROVE  \E f \in [0 .. n -> V] : Follows(f, g, v, n)
  <1> DEFINE F == [0 .. n -> V]
             UpTo(f, m) ==
                \A k \in 0 .. m : f[k] = IF k = 0 THEN v ELSE g[<<f[k - 1], k>>]
             S == {m \in Nat : \E f \in F : UpTo(f, m)}
  <1>1. 0 \in S
    <2>1. [k \in 0 .. n |-> v] \in F
      OBVIOUS
    <2>2. UpTo([k \in 0 .. n |-> v], 0)
      OBVIOUS
    <2> HIDE DEF F, UpTo
    <2> QED BY <2>1, <2>2
  <1>2. ASSUME NEW m \in 1 .. n, m - 1 \in S PROVE m \in S
    <2>1. PICK f \in F : UpTo(f, m - 1)
      BY <1>2
    <2> DEFINE next == g[<<f[m - 1], m>>]
               h == [k \in 0 .. n |-> IF k = m THEN next ELSE f[k]]
    <2>2. next \in V
      <3>1. f[m - 1] \in V
        OBVIOUS
      <3> QED BY <3>1
    <2> HIDE DEF next
    <2>3. h \in F
      <3>1. \A k \in 0 .. n : f[k] \in V
        BY <2>1
      <3> QED BY <2>2, <3>1
    <2>4. UpTo(h, m)
      <3> SUFFICES ASSUME NEW k \in 0 .. m
                   PROVE  h[k] = IF k = 0 THEN v ELSE g[<<h[k - 1], k>>]
        OBVIOUS
      <3>1. k \in 0 .. n /\ (k # 0 => k - 1 \in 0 .. n /\ k - 1 # m)
        OBVIOUS
      <3>2. k # 0 => h[k - 1] = f[k - 1]
        BY <3>1
      <3>3. CASE k = m
        <4>1. k # 0 /\ h[k] = next
          BY <3>1, <3>3
        <4>2. next = g[<<f[k - 1], k>>]
          BY <3>3 DEF next
        <4> QED BY <3>2, <4>1, <4>2
      <3>4. CASE k # m
        <4>1. k \in 0 .. m - 1 /\ h[k] = f[k]
          BY <3>1, <3>4
        <4>2. f[k] = IF k = 0 THEN v ELSE g[<<f[k - 1], k>>]
          BY <2>1, <4>1
        <4> QED BY <3>2, <4>1, <4>2
      <3> QED BY <3>3, <3>4
    <2> HIDE DEF h, F, UpTo
    <2> QED BY <2>3, <2>4
  <1>3. n \in S
    <2> HIDE DEF S
    <2>1. 0 .. n \subseteq S
      BY <1>1, <1>2, InductTo
    <2> QED BY <2>1
  <1>4. PICK f \in F : UpTo(f, n)
    BY <1>3
  <1>5. f = [k \in 0 .. n |-> f[k]]
    OBVIOUS
  <1>6. Follows(f, g, v, n)
    BY <1>4, <1>5 DEF Follows
  <1> QED BY <1>6

-----------------------------------------------------------------------------
(***************************************************************************)
(* What a read can get, at every level of a view.                          *)
(***************************************************************************)
Errs == {"nil", "EOF", "EIO", "EINVAL", "ErrOpNotSupported"}
Gots(errs) == [bytes : Seq(Nat), err : errs]
Reads(errs) == [Int \X Nat -> SUBSET Gots(errs)]

Files == [kind : Kinds, len : Lens, does : SUBSET {"ReadAt", "Seek"}]
Ranges == [off : 0 .. Int64Max, n : 1 .. Int64Max]

LEMMA GetType ==
    ASSUME NEW o \in Nat, NEW n \in Nat, NEW errs, NEW err \in errs
    PROVE  Get(o, n, err) \in Gots(errs)
  <1>1. [i \in 1 .. n |-> o + i - 1] \in Seq(Nat)
    <2>1. \A i \in 1 .. n : o + i - 1 \in Nat
      OBVIOUS
    <2> QED BY <2>1, IsASeq
  <1> QED BY <1>1 DEF Get, Gots

LEMMA FileReadAtType ==
    ASSUME NEW o \in Nat, NEW n \in Nat, file \in Files,
           NEW errs, {"nil", "EOF", "EIO"} \subseteq errs
    PROVE  FileReadAt(o, n) \in SUBSET Gots(errs)
  <1> DEFINE avail == IF o < file.len THEN file.len - o ELSE 0
  <1>1. file.len \in Nat /\ avail \in Nat
    <2>1. file.len \in Lens
      BY DEF Files
    <2>2. Lens \subseteq Nat
      BY ViewsAssumption
    <2>3. file.len \in Nat
      BY <2>1, <2>2
    <2> QED BY <2>3
  <1>2. \A k \in Nat : \A err \in {"nil", "EOF", "EIO"} :
            Get(o, k, err) \in Gots(errs)
    BY GetType
  <1>3. FileReadAt(o, n) =
            {Get(o, k, "EIO") : k \in {j \in 0 .. n : j <= avail}}
            \cup (IF n <= avail THEN {Get(o, n, "nil")} ELSE {})
            \cup (IF n >= avail THEN {Get(o, avail, "EOF")} ELSE {})
    BY DEF FileReadAt
  <1> HIDE DEF avail
  <1> QED BY <1>1, <1>2, <1>3

LEMMA FsReadAtType ==
    ASSUME file \in Files, NEW errs, {"nil", "EOF", "EIO", "EINVAL"} \subseteq errs,
           "ReadAt" \in file.does \/ "ErrOpNotSupported" \in errs
    PROVE  [x \in Int \X Nat |-> FsReadAt(x[1], x[2])] \in Reads(errs)
  <1> SUFFICES ASSUME NEW o \in Int, NEW n \in Nat
               PROVE  FsReadAt(o, n) \in SUBSET Gots(errs)
    BY DEF Reads
  <1>1. CASE "ReadAt" \notin file.does
    <2>1. FsReadAt(o, n) = {Get(0, 0, "ErrOpNotSupported")}
      BY <1>1 DEF FsReadAt
    <2> QED BY <1>1, <2>1, GetType
  <1>2. CASE "ReadAt" \in file.does /\ o < 0
    <2>1. FsReadAt(o, n) = {Get(0, 0, "EINVAL")}
      BY <1>2 DEF FsReadAt
    <2> QED BY <2>1, GetType
  <1>3. CASE "ReadAt" \in file.does /\ ~(o < 0)
    BY <1>3, FileReadAtType DEF FsReadAt
  <1> QED BY <1>1, <1>2, <1>3

LEMMA SectionSizeType ==
    ASSUME NEW r \in Ranges
    PROVE  /\ Limit(r) \in Nat /\ SectionSize(r) \in Nat
           /\ r.off \in Nat /\ r.n \in Nat \ {0}
           /\ r.off + SectionSize(r) = Limit(r) /\ r.off <= Int64Max
           /\ SectionSize(r) <= r.n
           /\ SectionSize(r) = r.n \/ r.off + SectionSize(r) = Int64Max
  BY ViewsAssumption DEF Ranges, Limit, SectionSize

LEMMA SectionReadAtType ==
    ASSUME NEW errs, {"nil", "EOF", "EIO", "EINVAL"} \subseteq errs,
           NEW r \in Ranges, NEW below \in Reads(errs)
    PROVE  SectionReadAt(r, below) \in Reads(errs)
  <1>1. \A o \in Int, n \in Nat : below[<<o, n>>] \in SUBSET Gots(errs)
    BY DEF Reads
  <1>2. ASSUME NEW g \in Gots(errs)
        PROVE  [g EXCEPT !.err = IF @ = "nil" THEN "EOF" ELSE @] \in Gots(errs)
    BY DEF Gots
  <1>3. Get(0, 0, "EOF") \in Gots(errs)
    BY GetType
  <1> SUFFICES ASSUME NEW o \in Int, NEW n \in Nat
               PROVE  SectionReadAt(r, below)[<<o, n>>] \in SUBSET Gots(errs)
    BY DEF Reads, SectionReadAt
  <1> DEFINE max == SectionSize(r) - o
  <1>4. /\ max \in Int /\ o + r.off \in Int
        /\ ~(o < 0 \/ o >= SectionSize(r)) => max \in Nat
    BY SectionSizeType
  <1>5. SectionReadAt(r, below)[<<o, n>>] =
            IF o < 0 \/ o >= SectionSize(r) THEN {Get(0, 0, "EOF")}
            ELSE IF n > max
            THEN {[g EXCEPT !.err = IF @ = "nil" THEN "EOF" ELSE @] :
                  g \in below[<<o + r.off, max>>]}
            ELSE below[<<o + r.off, n>>]
    BY DEF SectionReadAt
  <1> HIDE DEF max
  <1> QED BY <1>1, <1>2, <1>3, <1>4, <1>5

\* The reads of the ranges, from the innermost.
FsReads == [x \in Int \X Nat |-> FsReadAt(x[1], x[2])]

LEMMA ReadAtOfFollows ==
    ASSUME NEW rs \in Seq(Ranges), file \in Files,
           NEW errs, {"nil", "EOF", "EIO", "EINVAL"} \subseteq errs,
           "ReadAt" \in file.does \/ "ErrOpNotSupported" \in errs
    PROVE  /\ ReadAtOf(rs) \in [0 .. Len(rs) -> Reads(errs)]
           /\ ReadAtOf(rs)[0] = FsReads
           /\ \A k \in 1 .. Len(rs) :
                ReadAtOf(rs)[k] = SectionReadAt(rs[k], ReadAtOf(rs)[k - 1])
  <1> DEFINE n == Len(rs)
             V == Reads(errs)
             g == [x \in V \X (1 .. n) |-> SectionReadAt(rs[x[2]], x[1])]
             At(f) == f = [k \in 0 .. n |->
                            IF k = 0 THEN FsReads
                            ELSE SectionReadAt(rs[k], f[k - 1])]
             c == CHOOSE f : At(f)
  <1>0. n \in Nat /\ \A k \in 1 .. n : rs[k] \in Ranges
    BY ElementOfSeq, LenProperties
  <1>1. FsReads \in V
    BY FsReadAtType DEF FsReads
  <1>2. \A k \in 1 .. n : \A below \in V : SectionReadAt(rs[k], below) \in V
    BY <1>0, SectionReadAtType
  <1> HIDE DEF V, n
  <1>3. g \in [V \X (1 .. n) -> V]
    BY <1>2
  <1>4. PICK at \in [0 .. n -> V] : Follows(at, g, FsReads, n)
    <2> HIDE DEF g
    <2> QED BY <1>0, <1>1, <1>3, FollowsExists
  <1>5. At(at)
    <2>1. \A k \in 1 .. n : g[<<at[k - 1], k>>] = SectionReadAt(rs[k], at[k - 1])
      <3> SUFFICES ASSUME NEW k \in 1 .. n
                   PROVE  g[<<at[k - 1], k>>] = SectionReadAt(rs[k], at[k - 1])
        OBVIOUS
      <3>1. at[k - 1] \in V
        BY <1>0
      <3> QED BY <3>1
    <2> HIDE DEF g
    <2>2. at = [k \in 0 .. n |-> IF k = 0 THEN FsReads ELSE g[<<at[k - 1], k>>]]
      BY <1>4 DEF Follows
    <2>3. [k \in 0 .. n |-> IF k = 0 THEN FsReads ELSE g[<<at[k - 1], k>>]]
            = [k \in 0 .. n |-> IF k = 0 THEN FsReads
                                ELSE SectionReadAt(rs[k], at[k - 1])]
      <3> SUFFICES ASSUME NEW k \in 0 .. n, k # 0
                   PROVE  g[<<at[k - 1], k>>] = SectionReadAt(rs[k], at[k - 1])
        OBVIOUS
      <3>1. k \in 1 .. n
        BY <1>0
      <3> QED BY <2>1, <3>1
    <2> QED BY <2>2, <2>3
  <1>6. At(c)
    <2> HIDE DEF At
    <2> QED BY <1>5
  <1>7. ReadAtOf(rs) = c
    BY DEF ReadAtOf, FsReads, n
  <1> HIDE DEF c, g
  <1>8. /\ c[0] = FsReads
        /\ \A k \in 1 .. n : c[k] = SectionReadAt(rs[k], c[k - 1])
    <2>1. \A k \in 0 .. n : c[k] = IF k = 0 THEN FsReads
                                   ELSE SectionReadAt(rs[k], c[k - 1])
      BY <1>6
    <2>2. 0 \in 0 .. n /\ \A k \in 1 .. n : k \in 0 .. n /\ k # 0
      BY <1>0
    <2> QED BY <2>1, <2>2
  <1>9. \A k \in 0 .. n : c[k] \in V
    <2> DEFINE S == {k \in Nat : c[k] \in V}
    <2>1. 0 \in S
      BY <1>1, <1>8
    <2>2. ASSUME NEW k \in 1 .. n, k - 1 \in S PROVE k \in S
      BY <1>0, <1>2, <1>8, <2>2
    <2>3. 0 .. n \subseteq S
      <3> HIDE DEF S
      <3> QED BY <1>0, <2>1, <2>2, InductTo
    <2> QED BY <2>3
  <1>10. c = [k \in 0 .. n |-> c[k]]
    BY <1>6
  <1> HIDE DEF At
  <1> QED BY <1>7, <1>8, <1>9, <1>10 DEF V, n

\* So every read of a view gets bytes and an error.
LEMMA ViewReadTypes ==
    ASSUME ranges \in Seq(Ranges), file \in Files,
           NEW errs, {"nil", "EOF", "EIO", "EINVAL"} \subseteq errs,
           "ReadAt" \in file.does \/ "ErrOpNotSupported" \in errs,
           NEW o \in Int, NEW n \in Nat
    PROVE  /\ ViewReadAt(o, n) \subseteq Gots(errs)
           /\ ranges # <<>> /\ o >= 0 => ViewRead(o, n) \subseteq Gots(errs)
  <1> DEFINE at == ReadAtOf(ranges)
             m == Len(ranges)
  <1>1. m \in Nat /\ (ranges # <<>> => m - 1 \in Nat)
    BY EmptySeq, LenProperties
  <1>2. at \in [0 .. m -> Reads(errs)]
    BY ReadAtOfFollows
  <1> HIDE DEF at
  <1>3. \A k \in 0 .. m : \A i \in Int, j \in Nat :
            at[k][<<i, j>>] \in SUBSET Gots(errs)
    BY <1>2 DEF Reads
  <1>4. ViewReadAt(o, n) \subseteq Gots(errs)
    BY <1>1, <1>3 DEF ViewReadAt, at
  <1>5. ASSUME ranges # <<>>, o >= 0 PROVE ViewRead(o, n) \subseteq Gots(errs)
    <2> DEFINE r == Last(ranges)
               max == Limit(r) - o
               cut == IF n > max THEN max ELSE n
    <2>1. r \in Ranges
      BY <1>1, <1>5, ElementOfSeq DEF Last
    <2>2. ViewRead(o, n) = IF max <= 0 THEN {Get(0, 0, "EOF")}
                           ELSE at[m - 1][<<o, cut>>]
      BY <1>5 DEF ViewRead, SectionRead, at
    <2>3. max \in Int /\ (~(max <= 0) => cut \in Nat)
      BY <2>1, SectionSizeType
    <2>4. Get(0, 0, "EOF") \in Gots(errs)
      BY GetType
    <2> HIDE DEF max, cut
    <2>5. m - 1 \in 0 .. m
      BY <1>1, <1>5
    <2> QED BY <1>3, <2>2, <2>3, <2>4, <2>5
  <1> QED BY <1>4, <1>5

-----------------------------------------------------------------------------
(***************************************************************************)
(* The inductive invariant.                                                *)
(***************************************************************************)
Types ==
    /\ file \in Files
    /\ ranges = Nil \/ ranges \in Seq(Ranges)
    /\ handle \in [Handles -> [open : BOOLEAN, used : BOOLEAN, off : Nat]]
    /\ fds \in Nat
    /\ last.bytes \in Seq(Nat)

\* a handle that was opened is of the view, and not before its range
Placed ==
    \A h \in Handles :
        /\ handle[h].open => handle[h].used
        /\ ~ handle[h].used => handle[h].off = 0
        /\ handle[h].used =>
            /\ ranges # Nil
            /\ ranges # <<>> => Last(ranges).off <= handle[h].off

\* before there is a range every file that is open is open in a handle
Counted == IsFiniteSet(Opened) /\ (~ Ranged => fds = Cardinality(Opened))

\* a file that has a range can be read at an offset
Probed ==
    Ranged => "ReadAt" \in file.does /\ last.err # "ErrOpNotSupported"

VInv == Types /\ Placed /\ Counted /\ Probed

LEMMA NilIsNoView == Nil \notin Seq(Ranges) /\ Nil # <<>>
  <1>1. Seq(Ranges) \subseteq Seq([off : Nat, n : Nat])
    <2> SUFFICES ASSUME NEW s \in Seq(Ranges) PROVE s \in Seq([off : Nat, n : Nat])
      OBVIOUS
    <2>1. Ranges \subseteq [off : Nat, n : Nat]
      BY ViewsAssumption DEF Ranges
    <2> QED BY <2>1, SeqMonotonic
  <1>2. <<>> \in Seq(Ranges)
    OBVIOUS
  <1>3. Nil \notin Seq([off : Nat, n : Nat])
    BY ViewsAssumption
  <1> QED BY <1>1, <1>2, <1>3

LEMMA LastOfRanges ==
    ASSUME Types, Ranged
    PROVE  Last(ranges) \in Ranges /\ ranges \in Seq(Ranges) /\ Len(ranges) \in Nat \ {0}
  <1>1. ranges \in Seq(Ranges) /\ ranges # <<>>
    BY DEF Types, Ranged
  <1>2. Len(ranges) \in Nat /\ Len(ranges) # 0
    BY <1>1, EmptySeq, LenProperties
  <1> QED BY <1>1, <1>2, ElementOfSeq DEF Last

\* A refusal, or an answer with some bytes.
LEMMA AnswerKeeps ==
    ASSUME VInv, UNCHANGED <<file, ranges, handle, fds>>,
           last'.bytes \in Seq(Nat),
           Ranged => last'.err # "ErrOpNotSupported"
    PROVE  VInv'
  <1>1. /\ file' = file /\ ranges' = ranges /\ handle' = handle /\ fds' = fds
    OBVIOUS
  <1>2. Opened' = Opened
    BY <1>1 DEF Opened
  <1> QED BY <1>1, <1>2 DEF VInv, Types, Placed, Counted, Probed, Ranged

LEMMA LeaveKeeps ==
    ASSUME VInv, NEW op, NEW err, Leave(op, err),
           Ranged => err # "ErrOpNotSupported"
    PROVE  VInv'
  <1>1. last'.bytes = <<>> /\ last'.err = err
    BY DEF Leave, Result
  <1> QED BY <1>1, AnswerKeeps, EmptySeq DEF Leave

(***************************************************************************)
(* The operations.                                                         *)
(***************************************************************************)
LEMMA NewFsFileViewKeeps ==
    ASSUME VInv, NewFsFileView
    PROVE  VInv'
  <1>1. CASE Leave("NewFsFileView", "EISDIR") \/ Leave("NewFsFileView", "EBADF")
             \/ Leave("NewFsFileView", "EIO")
    BY <1>1, LeaveKeeps
  <1>2. CASE /\ ranges = Nil /\ ranges' = <<>>
             /\ last' = Result("NewFsFileView", "nil")
             /\ UNCHANGED <<file, handle, fds>>
    <2>1. /\ file' = file /\ handle' = handle /\ fds' = fds /\ Opened' = Opened
          /\ last'.bytes = <<>>
      BY <1>2 DEF Opened, Result
    <2>2. \A h \in Handles : ~ handle[h].used
      BY <1>2 DEF VInv, Placed
    <2>3. ~ Ranged /\ ~ Ranged'
      BY <1>2 DEF Ranged
    <2>4. Types'
      BY <1>2, <2>1, EmptySeq DEF VInv, Types
    <2>5. Placed'
      BY <2>1, <2>2 DEF VInv, Placed
    <2>6. Counted' /\ Probed'
      BY <2>1, <2>3 DEF VInv, Counted, Probed
    <2> QED BY <2>4, <2>5, <2>6 DEF VInv
  <1> QED BY <1>1, <1>2 DEF NewFsFileView

\* the byte is read, and the file closed unless it is in a range
LEMMA ProbeTypes ==
    ASSUME VInv, ranges # Nil, NEW p \in ProbeResults
    PROVE  /\ p.fds \in {fds, fds + 1}
           /\ ~ Ranged => p.fds = fds
           /\ p.err = "nil" => "ReadAt" \in file.does
           /\ Ranged => p.err # "ErrOpNotSupported"
  <1>1. Types /\ ranges \in Seq(Ranges) /\ fds \in Nat /\ file \in Files
    BY DEF VInv, Types
  <1>2. LeftOpen \in {0, 1} /\ (~ Ranged => LeftOpen = 0)
    BY DEF LeftOpen, Ranged
  <1>3. p.fds \in {fds, fds + LeftOpen}
        /\ (p.err = "EIO" \/ \E g \in ViewReadAt(0, 1) : p.err = g.err)
    BY DEF ProbeResults
  <1>4. Ranged => "ReadAt" \in file.does
    BY DEF VInv, Probed
  <1>5. Ranged => p.err # "ErrOpNotSupported"
    <2>1. Ranged => ViewReadAt(0, 1) \subseteq Gots(Errs \ {"ErrOpNotSupported"})
      BY <1>1, <1>4, ViewReadTypes DEF Errs
    <2> QED BY <1>3, <2>1 DEF Gots
  <1>6. ASSUME ~ Ranged, "ReadAt" \notin file.does PROVE p.err # "nil"
    <2>1. ranges = <<>> /\ Len(ranges) = 0
      BY <1>6 DEF Ranged
    <2>2. ReadAtOf(ranges)[0] = FsReads
      <3>1. /\ {"nil", "EOF", "EIO", "EINVAL"} \subseteq Errs
            /\ "ErrOpNotSupported" \in Errs
        BY DEF Errs
      <3> QED BY <1>1, <3>1, ReadAtOfFollows
    <2>3. ViewReadAt(0, 1) = FsReadAt(0, 1)
      BY <2>1, <2>2 DEF ViewReadAt, FsReads
    <2>4. FsReadAt(0, 1) = {Get(0, 0, "ErrOpNotSupported")}
      BY <1>6 DEF FsReadAt
    <2> QED BY <1>3, <2>3, <2>4 DEF Get
  <1> QED BY <1>1, <1>2, <1>3, <1>4, <1>5, <1>6

LEMMA NewRangedKeeps ==
    ASSUME VInv, NewRanged
    PROVE  VInv'
  <1>1. /\ ranges # Nil /\ Opened = {}
        /\ \A h \in Handles : ~ handle[h].used
    BY DEF NewRanged, Unused
  <1>2. PICK off \in RangeOffs, n \in RangeLens :
            IF BadRange(off, n) THEN Leave("NewRanged", "EINVAL")
            ELSE \E p \in ProbeResults :
                /\ last' = Result("NewRanged", p.err)
                /\ ranges' = IF p.err = "nil"
                             THEN Append(ranges, [off |-> off, n |-> n])
                             ELSE ranges
                /\ fds' = p.fds
                /\ UNCHANGED <<file, handle>>
    BY DEF NewRanged
  <1>3. CASE BadRange(off, n)
    BY <1>2, <1>3, LeaveKeeps
  <1>4. CASE ~ BadRange(off, n)
    <2>1. PICK p \in ProbeResults :
                /\ last' = Result("NewRanged", p.err)
                /\ ranges' = IF p.err = "nil"
                             THEN Append(ranges, [off |-> off, n |-> n])
                             ELSE ranges
                /\ fds' = p.fds
                /\ UNCHANGED <<file, handle>>
      BY <1>2, <1>4
    <2>2. /\ p.fds \in Nat
          /\ ~ Ranged => p.fds = fds
          /\ p.err = "nil" => "ReadAt" \in file.does
          /\ Ranged => p.err # "ErrOpNotSupported"
      BY <1>1, ProbeTypes DEF VInv, Types
    <2>3. [off |-> off, n |-> n] \in Ranges
      BY <1>4, ViewsAssumption DEF BadRange, Ranges
    <2>4. ranges \in Seq(Ranges)
      BY <1>1 DEF VInv, Types
    <2>5. Append(ranges, [off |-> off, n |-> n]) \in Seq(Ranges) \ {<<>>}
      BY <2>3, <2>4, AppendProperties, EmptySeq
    <2>6. ranges' \in Seq(Ranges) /\ ranges' # Nil
      BY <2>1, <2>4, <2>5, NilIsNoView
    <2>7. last'.bytes = <<>> /\ last'.err = p.err
      BY <2>1 DEF Result
    <2>8. Types'
      <3>1. /\ file' = file /\ handle' = handle /\ fds' = p.fds
            /\ last'.bytes \in Seq(Nat)
        BY <2>1, <2>7, EmptySeq
      <3> QED BY <2>2, <2>6, <3>1 DEF VInv, Types
    <2>9. Placed'
      BY <1>1, <2>1 DEF VInv, Placed
    <2>10. Ranged' => p.err = "nil" \/ Ranged
      BY <2>1 DEF Ranged
    <2>11. Ranged => Ranged'
      BY <2>1, <2>5, <2>6 DEF Ranged
    <2>12. Counted'
      <3>1. Opened' = Opened /\ fds' = p.fds
        BY <2>1 DEF Opened
      <3> QED BY <2>2, <2>11, <3>1 DEF VInv, Counted
    <2>13. Probed'
      BY <2>1, <2>2, <2>7, <2>10 DEF VInv, Probed
    <2> QED BY <2>8, <2>9, <2>12, <2>13 DEF VInv
  <1> QED BY <1>3, <1>4

LEMMA OpenAtKeeps ==
    ASSUME VInv, NEW h \in Handles, NEW off \in Nat, OpenAt(h, off),
           ~ handle[h].used, ranges # Nil,
           Ranged => off = Last(ranges).off
    PROVE  VInv'
  <1>1. /\ Types /\ fds' = fds + 1 /\ file' = file /\ ranges' = ranges
        /\ last'.bytes = <<>> /\ last'.err = "nil"
        /\ handle' = [handle EXCEPT ![h] =
                        [open |-> TRUE, used |-> TRUE, off |-> off]]
    BY DEF OpenAt, Result, VInv
  <1>2. handle \in [Handles -> [open : BOOLEAN, used : BOOLEAN, off : Nat]]
    BY <1>1 DEF Types
  <1>3. /\ handle'[h] = [open |-> TRUE, used |-> TRUE, off |-> off]
        /\ \A i \in Handles : i # h => handle'[i] = handle[i]
    BY <1>1, <1>2
  <1>4. Types'
    <2>1. handle' \in [Handles -> [open : BOOLEAN, used : BOOLEAN, off : Nat]]
      BY <1>1, <1>2
    <2> QED BY <1>1, <2>1, EmptySeq DEF Types
  <1>5. Ranged' <=> Ranged
    BY <1>1 DEF Ranged
  <1>6. Placed'
    <2>1. Ranged => off = Last(ranges).off /\ Last(ranges).off \in Nat
      BY <1>1, LastOfRanges DEF Ranges
    <2>2. ranges # <<>> => Last(ranges).off <= off
      BY <2>1 DEF Ranged
    <2> QED BY <1>1, <1>3, <2>2 DEF VInv, Placed
  <1>7. Counted'
    <2>1. Opened' = Opened \cup {h} /\ h \notin Opened
      BY <1>3 DEF Opened, VInv, Placed
    <2>2. IsFiniteSet(Opened) /\ (~ Ranged => fds = Cardinality(Opened))
      BY DEF VInv, Counted
    <2>3. /\ IsFiniteSet(Opened')
          /\ Cardinality(Opened') = Cardinality(Opened) + 1
      BY <2>1, <2>2, FS_AddElement
    <2> QED BY <1>1, <1>5, <2>2, <2>3 DEF Counted
  <1>8. Probed'
    BY <1>1, <1>5 DEF VInv, Probed
  <1> QED BY <1>4, <1>6, <1>7, <1>8 DEF VInv

LEMMA OpenKeeps ==
    ASSUME VInv, NEW h \in Handles, OpenFsFile(h) \/ OpenRanged(h)
    PROVE  VInv'
  <1>1. CASE OpenErr
    BY <1>1, LeaveKeeps DEF OpenErr
  <1>2. CASE OpenFsFile(h) /\ OpenAt(h, 0)
    BY <1>2, OpenAtKeeps, NilIsNoView DEF OpenFsFile, Ranged
  <1>3. CASE OpenRanged(h) /\ OpenAt(h, Last(ranges).off)
    <2>1. Ranged /\ ~ handle[h].used /\ ranges # Nil
      BY <1>3 DEF OpenRanged, Ranged
    <2>2. Last(ranges).off \in Nat
      BY <2>1, LastOfRanges DEF VInv, Ranges
    <2> QED BY <1>3, <2>1, <2>2, OpenAtKeeps
  <1>4. CASE /\ OpenRanged(h)
             /\ fds' = fds + 1 /\ last' = Result("Open", "EIO")
             /\ UNCHANGED <<file, ranges, handle>>
    <2>1. /\ fds' \in Nat /\ file' = file /\ ranges' = ranges /\ handle' = handle
          /\ last'.bytes = <<>> /\ last'.err = "EIO" /\ Ranged
      BY <1>4 DEF Result, Ranged, OpenRanged, VInv, Types
    <2>2. Types'
      BY <2>1, EmptySeq DEF VInv, Types
    <2>3. Placed' /\ Counted' /\ Probed'
      BY <2>1 DEF VInv, Placed, Counted, Probed, Ranged, Opened
    <2> QED BY <2>2, <2>3 DEF VInv
  <1> QED BY <1>1, <1>2, <1>3, <1>4 DEF OpenFsFile, OpenRanged

\* A handle moves its offset, from the start of its range on.
LEMMA OffsetKeeps ==
    ASSUME VInv, NEW h \in Handles, NEW off \in Nat, handle[h].open,
           handle' = [handle EXCEPT ![h].off = off],
           UNCHANGED <<file, ranges, fds>>,
           Ranged => Last(ranges).off <= off,
           last'.bytes \in Seq(Nat),
           Ranged => last'.err # "ErrOpNotSupported"
    PROVE  VInv'
  <1>1. Types /\ file' = file /\ ranges' = ranges /\ fds' = fds
    BY DEF VInv
  <1>2. handle \in [Handles -> [open : BOOLEAN, used : BOOLEAN, off : Nat]]
    BY <1>1 DEF Types
  <1>3. /\ \A i \in Handles : /\ handle'[i].open = handle[i].open
                              /\ handle'[i].used = handle[i].used
        /\ \A i \in Handles : i # h => handle'[i].off = handle[i].off
        /\ handle'[h].off = off
        /\ handle' \in [Handles -> [open : BOOLEAN, used : BOOLEAN, off : Nat]]
    BY <1>2
  <1>4. Types'
    BY <1>1, <1>3 DEF Types
  <1>5. Placed'
    <2>1. handle[h].used
      BY DEF VInv, Placed
    <2>2. ranges # Nil /\ ranges # <<>> => Last(ranges).off <= off
      BY DEF Ranged
    <2> QED BY <1>1, <1>3, <2>1, <2>2 DEF VInv, Placed
  <1>6. Opened' = Opened
    BY <1>3 DEF Opened
  <1>7. Counted' /\ Probed'
    BY <1>1, <1>6 DEF VInv, Counted, Probed, Ranged
  <1> QED BY <1>4, <1>5, <1>7 DEF VInv

\* What a handle of an open view reads.
LEMMA ReadsOfView ==
    ASSUME VInv, ranges # Nil, NEW o \in Int, NEW n \in Nat
    PROVE  /\ \A g \in ViewReadAt(o, n) :
                /\ g.bytes \in Seq(Nat)
                /\ Ranged => g.err # "ErrOpNotSupported"
           /\ o >= 0 => \A g \in ViewRead(o, n) :
                /\ g.bytes \in Seq(Nat)
                /\ Ranged => g.err # "ErrOpNotSupported"
  <1>1. ranges \in Seq(Ranges) /\ file \in Files
    BY DEF VInv, Types
  <1>2. CASE Ranged
    <2> DEFINE errs == Errs \ {"ErrOpNotSupported"}
    <2>1. /\ {"nil", "EOF", "EIO", "EINVAL"} \subseteq errs
          /\ "ReadAt" \in file.does
      BY <1>2 DEF Errs, VInv, Probed
    <2>2. ranges # <<>>
      BY <1>2 DEF Ranged
    <2>3. "ErrOpNotSupported" \notin errs
      OBVIOUS
    <2> HIDE DEF errs
    <2>4. /\ ViewReadAt(o, n) \subseteq Gots(errs)
          /\ o >= 0 => ViewRead(o, n) \subseteq Gots(errs)
      BY <1>1, <2>1, <2>2, ViewReadTypes
    <2> QED BY <2>3, <2>4 DEF Gots
  <1>3. CASE ~ Ranged
    <2>1. /\ {"nil", "EOF", "EIO", "EINVAL"} \subseteq Errs
          /\ "ErrOpNotSupported" \in Errs /\ ranges = <<>>
      BY <1>3 DEF Errs, Ranged
    <2> HIDE DEF Errs
    <2>2. ViewReadAt(o, n) \subseteq Gots(Errs)
      BY <1>1, <2>1, ViewReadTypes
    <2>3. ASSUME o >= 0 PROVE ViewRead(o, n) \subseteq Gots(Errs)
      <3>1. ViewRead(o, n) = FileReadAt(o, n)
                \cup {Get(o, k, "nil") : k \in {j \in 1 .. n : o + j <= file.len}}
        BY <2>1 DEF ViewRead, FileRead
      <3>2. \A k \in Nat : Get(o, k, "nil") \in Gots(Errs)
        BY <2>1, <2>3, GetType
      <3>3. FileReadAt(o, n) \subseteq Gots(Errs)
        BY <1>1, <2>1, <2>3, FileReadAtType
      <3> QED BY <3>1, <3>2, <3>3
    <2> QED BY <1>3, <2>2, <2>3 DEF Gots
  <1> QED BY <1>2, <1>3

\* a handle that is open is of a view, and not before its range
LEMMA OpenHandle ==
    ASSUME VInv, NEW h \in Handles, handle[h].open
    PROVE  /\ ranges # Nil /\ handle[h].off \in Nat
           /\ Ranged => Last(ranges).off <= handle[h].off
  <1>1. handle[h].off \in Nat
    BY DEF VInv, Types
  <1>2. handle[h].used
    BY DEF VInv, Placed
  <1> QED BY <1>1, <1>2 DEF VInv, Placed, Ranged

LEMMA ReadKeeps ==
    ASSUME VInv, NEW h \in Handles, Read(h)
    PROVE  VInv'
  <1>1. PICK n \in Bufs : \E g \in ViewRead(handle[h].off, n) :
            /\ Got("Read", g)
            /\ handle' = [handle EXCEPT ![h].off = @ + Len(g.bytes)]
    BY DEF Read
  <1>2. PICK g \in ViewRead(handle[h].off, n) :
            /\ Got("Read", g)
            /\ handle' = [handle EXCEPT ![h].off = @ + Len(g.bytes)]
    BY <1>1
  <1>3. handle[h].open /\ UNCHANGED <<file, ranges, fds>>
    BY DEF Read
  <1>4. PICK o \in Nat : o = handle[h].off
    BY <1>3, OpenHandle
  <1>5. n \in Nat
    BY ViewsAssumption
  <1>6. g.bytes \in Seq(Nat) /\ (Ranged => g.err # "ErrOpNotSupported")
    BY <1>2, <1>3, <1>4, <1>5, OpenHandle, ReadsOfView
  <1>7. last'.bytes = g.bytes /\ last'.err = g.err
    BY <1>2 DEF Got
  <1>8. PICK off \in Nat : off = o + Len(g.bytes) /\ o <= off
    BY <1>6, LenProperties
  <1>9. handle' = [handle EXCEPT ![h].off = off]
    BY <1>2, <1>4, <1>8
  <1>10. Ranged => Last(ranges).off <= off
    <2>1. Ranged => Last(ranges).off \in Nat /\ Last(ranges).off <= o
      BY <1>3, <1>4, OpenHandle, LastOfRanges DEF VInv, Ranges
    <2> QED BY <1>4, <1>8, <2>1
  <1> QED BY <1>3, <1>6, <1>7, <1>9, <1>10, OffsetKeeps

LEMMA ReadAtKeeps ==
    ASSUME VInv, NEW h \in Handles, ReadAt(h)
    PROVE  VInv'
  <1>1. PICK n \in Bufs, o \in Offsets :
            \E g \in ViewReadAt(o, n) : Got("ReadAt", g)
    BY DEF ReadAt
  <1>2. PICK g \in ViewReadAt(o, n) : Got("ReadAt", g)
    BY <1>1
  <1>3. handle[h].open /\ UNCHANGED <<file, ranges, handle, fds>>
    BY DEF ReadAt
  <1>4. n \in Nat /\ o \in Int
    BY ViewsAssumption
  <1>5. g.bytes \in Seq(Nat) /\ (Ranged => g.err # "ErrOpNotSupported")
    BY <1>2, <1>3, <1>4, OpenHandle, ReadsOfView
  <1>6. last'.bytes = g.bytes /\ last'.err = g.err
    BY <1>2 DEF Got
  <1> QED BY <1>3, <1>5, <1>6, AnswerKeeps

LEMMA SeekKeeps ==
    ASSUME VInv, NEW h \in Handles, Seek(h)
    PROVE  VInv'
  <1> DEFINE base == IF ranges = <<>> THEN 0 ELSE Last(ranges).off
  <1>1. handle[h].open /\ ranges # Nil
    BY OpenHandle DEF Seek
  <1>2. CASE ~ (ranges # <<>> \/ "Seek" \in file.does)
             /\ Leave("Seek", "ErrOpNotSupported")
    BY <1>2, LeaveKeeps DEF Ranged
  <1>3. ASSUME NEW d \in Offsets, NEW from \in SeekFrom(h),
               IF from + d < base \/ from + d > Int64Max THEN Leave("Seek", "EINVAL")
               ELSE /\ from + d <= base + MaxOff
                    /\ handle' = [handle EXCEPT ![h].off = from + d]
                    /\ last' = Result("Seek", "nil")
                    /\ UNCHANGED <<file, ranges, fds>>
        PROVE  VInv'
    <2>1. CASE from + d < base \/ from + d > Int64Max
      BY <1>3, <2>1, LeaveKeeps
    <2>2. CASE ~(from + d < base \/ from + d > Int64Max)
      <3>1. base \in Nat /\ (Ranged => base = Last(ranges).off)
        <4>1. CASE ranges = <<>>
          BY <4>1 DEF Ranged
        <4>2. CASE ranges # <<>>
          <5>1. Last(ranges).off \in Nat
            BY <1>1, <4>2, LastOfRanges DEF VInv, Ranges, Ranged
          <5> QED BY <4>2, <5>1
        <4> QED BY <4>1, <4>2
      <3>2. from \in Int /\ d \in Int
        <4>1. handle[h].off \in Nat /\ file.len \in Nat
          <5>1. file.len \in Lens /\ Lens \subseteq Nat
            BY ViewsAssumption DEF VInv, Types, Files
          <5> QED BY <1>1, <5>1, OpenHandle
        <4>2. ranges # <<>> => Last(ranges).off \in Nat /\ Limit(Last(ranges)) \in Nat
          BY <1>1, LastOfRanges, SectionSizeType DEF VInv, Ranged
        <4> QED BY <4>1, <4>2, ViewsAssumption DEF SeekFrom
      <3> HIDE DEF base
      <3>3. PICK off \in Nat : off = from + d
        BY <2>2, <3>1, <3>2
      <3>4. /\ handle' = [handle EXCEPT ![h].off = off]
            /\ last'.bytes = <<>> /\ last'.err = "nil"
            /\ UNCHANGED <<file, ranges, fds>>
        BY <1>3, <2>2, <3>3 DEF Result
      <3>5. Ranged => Last(ranges).off <= off
        BY <2>2, <3>1, <3>2, <3>3
      <3> QED BY <1>1, <3>4, <3>5, EmptySeq, OffsetKeeps
    <2> QED BY <2>1, <2>2
  <1> QED BY <1>2, <1>3 DEF Seek

LEMMA CloseKeeps ==
    ASSUME VInv, NEW h \in Handles, Close(h)
    PROVE  VInv'
  <1>1. /\ Types /\ fds' = fds - 1 + LeftOpen /\ file' = file
        /\ ranges' = ranges /\ last'.bytes = <<>> /\ last'.err = "nil"
        /\ handle' = [handle EXCEPT ![h].open = FALSE]
        /\ handle[h].open /\ ranges # Nil
    BY OpenHandle DEF Close, Result, VInv
  <1>2. handle \in [Handles -> [open : BOOLEAN, used : BOOLEAN, off : Nat]]
        /\ fds \in Nat
    BY <1>1 DEF Types
  <1>3. /\ \A i \in Handles : /\ handle'[i].off = handle[i].off
                              /\ handle'[i].used = handle[i].used
        /\ \A i \in Handles : i # h => handle'[i].open = handle[i].open
        /\ ~ handle'[h].open
        /\ handle' \in [Handles -> [open : BOOLEAN, used : BOOLEAN, off : Nat]]
    BY <1>1, <1>2
  <1>4. Opened' = Opened \ {h} /\ h \in Opened
    BY <1>1, <1>3 DEF Opened
  <1>5. Ranged' <=> Ranged
    BY <1>1 DEF Ranged
  <1>6. Ranged => LeftOpen = 1
    BY DEF LeftOpen, Ranged
  <1>7. /\ IsFiniteSet(Opened')
        /\ ~ Ranged => fds' \in Nat /\ fds' = Cardinality(Opened')
    <2>1. ~ Ranged => LeftOpen = 0
      BY <1>1 DEF LeftOpen, Ranged
    <2>2. IsFiniteSet(Opened) /\ (~ Ranged => fds = Cardinality(Opened))
      BY DEF VInv, Counted
    <2>3. /\ IsFiniteSet(Opened \ {h})
          /\ Cardinality(Opened \ {h}) = Cardinality(Opened) - 1
          /\ Cardinality(Opened \ {h}) \in Nat
      BY <1>4, <2>2, FS_RemoveElement, FS_CardinalityType
    <2> QED BY <1>1, <1>2, <1>4, <2>1, <2>2, <2>3
  <1>8. Types'
    <2>1. fds' \in Nat
      BY <1>1, <1>2, <1>6, <1>7
    <2> QED BY <1>1, <1>3, <2>1, EmptySeq DEF Types
  <1>9. Placed'
    BY <1>1, <1>3 DEF VInv, Placed
  <1>10. Counted' /\ Probed'
    BY <1>1, <1>5, <1>7 DEF VInv, Counted, Probed
  <1> QED BY <1>8, <1>9, <1>10 DEF VInv

LEMMA ResizeKeeps ==
    ASSUME VInv, Resize
    PROVE  VInv'
  <1>1. /\ Types /\ ranges' = ranges /\ handle' = handle /\ fds' = fds
        /\ last'.bytes = <<>> /\ last'.err = "nil"
    BY DEF Resize, Result, VInv
  <1>2. file' \in Files /\ file'.does = file.does
    <2>1. PICK l \in Lens : file' = [file EXCEPT !.len = l]
      BY DEF Resize
    <2>2. file \in Files
      BY <1>1 DEF Types
    <2> QED BY <2>1, <2>2 DEF Files
  <1>3. Types'
    BY <1>1, <1>2, EmptySeq DEF Types
  <1>4. Placed' /\ Counted' /\ Probed'
    BY <1>1, <1>2 DEF VInv, Placed, Counted, Probed, Ranged, Opened
  <1> QED BY <1>3, <1>4 DEF VInv

LEMMA InitVInv == Init => VInv
  <1> SUFFICES ASSUME Init PROVE VInv
    OBVIOUS
  <1>1. /\ file \in Files /\ ranges = Nil /\ fds = 0 /\ last.bytes = <<>>
        /\ handle = [h \in Handles |-> [open |-> FALSE, used |-> FALSE, off |-> 0]]
    BY DEF Init, Files, Result
  <1>2. Opened = {}
    BY <1>1 DEF Opened
  <1>3. Types
    BY <1>1, EmptySeq DEF Types
  <1>4. Placed /\ Counted /\ Probed
    BY <1>1, <1>2, FS_EmptySet DEF Placed, Counted, Probed, Ranged
  <1> QED BY <1>3, <1>4 DEF VInv

LEMMA StepVInv == VInv /\ [Next]_vars => VInv'
  <1> SUFFICES ASSUME VInv, [Next]_vars PROVE VInv'
    OBVIOUS
  <1>1. CASE NewFsFileView \/ NewRanged \/ Resize
    BY <1>1, NewFsFileViewKeeps, NewRangedKeeps, ResizeKeeps
  <1>2. ASSUME NEW h \in Handles,
               \/ OpenFsFile(h) \/ OpenRanged(h) \/ Read(h) \/ ReadAt(h)
               \/ Seek(h) \/ Close(h)
        PROVE  VInv'
    BY <1>2, OpenKeeps, ReadKeeps, ReadAtKeeps, SeekKeeps, CloseKeeps
  <1>3. ASSUME NEW h \in Handles, WriteFsFile(h) \/ WriteRanged(h)
        PROVE  VInv'
    BY <1>3, LeaveKeeps DEF WriteFsFile, WriteRanged
  <1>4. CASE UNCHANGED vars
    <2>1. /\ file' = file /\ ranges' = ranges /\ handle' = handle /\ fds' = fds
          /\ last' = last
      BY <1>4 DEF vars
    <2> QED BY <2>1 DEF VInv, Types, Placed, Counted, Probed, Ranged, Opened
  <1> QED BY <1>1, <1>2, <1>3, <1>4 DEF Next

THEOREM Inductive == Spec => []VInv
  BY InitVInv, StepVInv, PTL DEF Spec

(***************************************************************************)
(* Types, for any ranges one around the other (impl_fslink.go).            *)
(***************************************************************************)
THEOREM TypeCorrect == Spec => []TypeOK
  <1>1. VInv => TypeOK
    <2> SUFFICES ASSUME VInv PROVE TypeOK
      OBVIOUS
    <2>1. Types
      BY DEF VInv
    <2>2. ranges = Nil \/ ranges \in Seq([off : Nat, n : Nat \ {0}])
      <3>1. Ranges \subseteq [off : Nat, n : Nat \ {0}]
        BY ViewsAssumption DEF Ranges
      <3> QED BY <2>1, <3>1, SeqMonotonic DEF Types
    <2> QED BY <2>1, <2>2 DEF Types, TypeOK, Files
  <1> QED BY <1>1, Inductive, PTL

-----------------------------------------------------------------------------
(***************************************************************************)
(* Which files stay open.                                                  *)
(***************************************************************************)
\* what one step does to the files that no handle has
OneAtMost == Strays' = Strays \/ (Ranged /\ Strays' = Strays + 1)

\* what opens and closes no handle accounts for every file it opens
LEMMA SameHandlesStay ==
    ASSUME VInv, Opened' = Opened, fds' \in {fds, fds + 1}, ~ Ranged => fds' = fds
    PROVE  OneAtMost
  <1>1. PICK n \in Nat, c \in Nat : n = fds /\ c = Cardinality(Opened)
    BY FS_CardinalityType DEF VInv, Types, Counted
  <1>2. Strays = n - c /\ Strays' = fds' - c
    BY <1>1 DEF Strays
  <1> QED BY <1>1, <1>2 DEF OneAtMost

LEMMA LeaveStays == ASSUME VInv, NEW op, NEW err, Leave(op, err) PROVE OneAtMost
  <1>1. Opened' = Opened /\ fds' = fds
    BY DEF Leave, Opened
  <1> QED BY <1>1, SameHandlesStay

LEMMA NewRangedStays == ASSUME VInv, NewRanged PROVE OneAtMost
  <1>1. CASE Leave("NewRanged", "EINVAL")
    BY <1>1, LeaveStays
  <1>2. ASSUME NEW p \in ProbeResults, fds' = p.fds, handle' = handle
        PROVE  OneAtMost
    <2>1. fds' \in {fds, fds + 1} /\ (~ Ranged => fds' = fds)
      BY <1>2, ProbeTypes DEF NewRanged
    <2>2. Opened' = Opened
      BY <1>2 DEF Opened
    <2> QED BY <2>1, <2>2, SameHandlesStay
  <1> QED BY <1>1, <1>2 DEF NewRanged

LEMMA OpenAtStays ==
    ASSUME VInv, NEW h \in Handles, NEW off, OpenAt(h, off), ~ handle[h].used
    PROVE  OneAtMost
  <1>1. /\ fds' = fds + 1
        /\ handle' = [handle EXCEPT ![h] =
                        [open |-> TRUE, used |-> TRUE, off |-> off]]
    BY DEF OpenAt
  <1>2. handle \in [Handles -> [open : BOOLEAN, used : BOOLEAN, off : Nat]]
    BY DEF VInv, Types
  <1>3. Opened' = Opened \cup {h} /\ h \notin Opened
    BY <1>1, <1>2 DEF Opened, VInv, Placed
  <1>4. PICK n \in Nat, c \in Nat : n = fds /\ c = Cardinality(Opened)
    BY FS_CardinalityType DEF VInv, Types, Counted
  <1>5. Cardinality(Opened') = c + 1
    BY <1>3, <1>4, FS_AddElement DEF VInv, Counted
  <1>6. Strays = n - c /\ Strays' = (n + 1) - (c + 1)
    BY <1>1, <1>4, <1>5 DEF Strays
  <1> QED BY <1>4, <1>6 DEF OneAtMost

LEMMA OpenStays ==
    ASSUME VInv, NEW h \in Handles, OpenFsFile(h) \/ OpenRanged(h)
    PROVE  OneAtMost
  <1>1. CASE OpenErr
    BY <1>1, LeaveStays DEF OpenErr
  <1>2. CASE Ranged /\ fds' = fds + 1 /\ handle' = handle
    <2>1. Opened' = Opened
      BY <1>2 DEF Opened
    <2> QED BY <1>2, <2>1, SameHandlesStay
  <1>3. ASSUME NEW off, OpenAt(h, off), ~ handle[h].used
        PROVE  OneAtMost
    BY <1>3, OpenAtStays
  <1>4. CASE OpenFsFile(h)
    <2>1. ~ handle[h].used /\ (OpenErr \/ OpenAt(h, 0))
      BY <1>4 DEF OpenFsFile
    <2> QED BY <1>1, <1>3, <2>1
  <1>5. CASE OpenRanged(h)
    <2>1. /\ ~ handle[h].used
          /\ \/ OpenErr
             \/ Ranged /\ fds' = fds + 1 /\ handle' = handle
             \/ OpenAt(h, Last(ranges).off)
      BY <1>5 DEF OpenRanged
    <2> QED BY <1>1, <1>2, <1>3, <2>1
  <1> QED BY <1>4, <1>5

LEMMA OffsetStays ==
    ASSUME VInv, NEW h \in Handles, NEW off, fds' = fds,
           handle' = [handle EXCEPT ![h].off = off]
    PROVE  OneAtMost
  <1>1. handle \in [Handles -> [open : BOOLEAN, used : BOOLEAN, off : Nat]]
    BY DEF VInv, Types
  <1>2. \A i \in Handles : handle'[i].open = handle[i].open
    BY <1>1
  <1>3. Opened' = Opened
    BY <1>2 DEF Opened
  <1> QED BY <1>3, SameHandlesStay

LEMMA ReadOrSeekStays ==
    ASSUME VInv, NEW h \in Handles, Read(h) \/ ReadAt(h) \/ Seek(h)
    PROVE  OneAtMost
  <1>1. CASE Read(h)
    <2>1. fds' = fds /\ \E off : handle' = [handle EXCEPT ![h].off = off]
      BY <1>1 DEF Read
    <2> QED BY <2>1, OffsetStays
  <1>2. CASE ReadAt(h)
    <2>1. fds' = fds /\ Opened' = Opened
      BY <1>2 DEF ReadAt, Opened
    <2> QED BY <2>1, SameHandlesStay
  <1>3. CASE Seek(h)
    <2>1. \/ \E err : Leave("Seek", err)
          \/ fds' = fds /\ \E off : handle' = [handle EXCEPT ![h].off = off]
      BY <1>3 DEF Seek
    <2> QED BY <2>1, LeaveStays, OffsetStays
  <1> QED BY <1>1, <1>2, <1>3

LEMMA CloseStays == ASSUME VInv, NEW h \in Handles, Close(h) PROVE OneAtMost
  <1>1. /\ fds' = fds - 1 + LeftOpen /\ handle[h].open /\ ranges # Nil
        /\ handle' = [handle EXCEPT ![h].open = FALSE]
    BY OpenHandle DEF Close
  <1>2. handle \in [Handles -> [open : BOOLEAN, used : BOOLEAN, off : Nat]]
    BY DEF VInv, Types
  <1>3. Opened' = Opened \ {h} /\ h \in Opened
    BY <1>1, <1>2 DEF Opened
  <1>4. PICK n \in Nat, c \in Nat : n = fds /\ c = Cardinality(Opened)
    BY FS_CardinalityType DEF VInv, Types, Counted
  <1>5. Cardinality(Opened') = c - 1
    BY <1>3, <1>4, FS_RemoveElement DEF VInv, Counted
  <1>6. LeftOpen = IF Ranged THEN 1 ELSE 0
    BY <1>1 DEF LeftOpen, Ranged
  <1>7. Strays = n - c /\ Strays' = (n - 1 + LeftOpen) - (c - 1)
    BY <1>1, <1>4, <1>5 DEF Strays
  <1> QED BY <1>4, <1>6, <1>7 DEF OneAtMost

LEMMA StepStays == VInv /\ [Next]_vars => OneAtMost \/ UNCHANGED vars
  <1> SUFFICES ASSUME VInv, Next PROVE OneAtMost
    OBVIOUS
  <1>1. CASE NewFsFileView
    <2>1. Opened' = Opened /\ fds' = fds
      BY <1>1 DEF NewFsFileView, Leave, Opened
    <2> QED BY <2>1, SameHandlesStay
  <1>2. CASE NewRanged
    BY <1>2, NewRangedStays
  <1>3. CASE Resize
    <2>1. Opened' = Opened /\ fds' = fds
      BY <1>3 DEF Resize, Opened
    <2> QED BY <2>1, SameHandlesStay
  <1>4. ASSUME NEW h \in Handles, OpenFsFile(h) \/ OpenRanged(h)
        PROVE  OneAtMost
    BY <1>4, OpenStays
  <1>5. ASSUME NEW h \in Handles, Read(h) \/ ReadAt(h) \/ Seek(h)
        PROVE  OneAtMost
    BY <1>5, ReadOrSeekStays
  <1>6. ASSUME NEW h \in Handles, WriteFsFile(h) \/ WriteRanged(h)
        PROVE  OneAtMost
    BY <1>6, LeaveStays DEF WriteFsFile, WriteRanged
  <1>7. ASSUME NEW h \in Handles, Close(h)
        PROVE  OneAtMost
    BY <1>7, CloseStays
  <1> QED BY <1>1, <1>2, <1>3, <1>4, <1>5, <1>6, <1>7 DEF Next

(***************************************************************************)
(* A file opened through a view without a range is closed with its handle, *)
(* and the one opened to read a byte of such a view is closed whether the  *)
(* byte could be read or not, so whether or not a range is made of it.     *)
(* Later, when the view has a range, a step leaves at most one file open   *)
(* that no handle has, and closes none such (impl_fslink.go                *)
(* NewRangedFileView, rangedFileView.Open, iofs.go FsFile.Close).          *)
(***************************************************************************)
THEOREM NothingStaysOpen == Spec => PlainCloses
  <1>1. Init => Strays = 0
    <2> SUFFICES ASSUME Init PROVE Strays = 0
      OBVIOUS
    <2>1. fds = 0 /\ Opened = {}
      BY DEF Init, Opened
    <2> QED BY <2>1, FS_EmptySet DEF Strays
  <1>2. VInv /\ [Next]_vars =>
            [Strays' = Strays \/ (Ranged /\ Strays' = Strays + 1)]_vars
    BY StepStays DEF OneAtMost
  <1> QED BY <1>1, <1>2, Inductive, PTL DEF Spec, PlainCloses

(***************************************************************************)
(* The byte NewRangedFileView reads is check enough, for ranges inside of  *)
(* ranges: no read of a handle of the view is refused for the file not     *)
(* being one that can be read at an offset (impl_fslink.go).               *)
(***************************************************************************)
THEOREM ProbeSuffices == Spec => []ProbeIsEnough
  <1>1. VInv => ProbeIsEnough
    BY DEF VInv, Probed, Ranged, ProbeIsEnough
  <1> QED BY <1>1, Inductive, PTL

-----------------------------------------------------------------------------
(***************************************************************************)
(* The bytes of a view.  They begin where all its ranges have begun, and   *)
(* end where the first of them ends, or the file.                          *)
(***************************************************************************)
LEMMA StartsFollow ==
    ASSUME ranges \in Seq(Ranges)
    PROVE  /\ Starts \in [0 .. Len(ranges) -> Nat]
           /\ Starts[0] = 0
           /\ \A k \in 1 .. Len(ranges) :
                Starts[k] = Starts[k - 1] + ranges[k].off
  <1> DEFINE n == Len(ranges)
             g == [x \in Nat \X (1 .. n) |-> x[1] + ranges[x[2]].off]
             At(f) == f = [k \in 0 .. n |-> IF k = 0 THEN 0
                                            ELSE f[k - 1] + ranges[k].off]
             c == CHOOSE f : At(f)
  <1>0. n \in Nat /\ \A k \in 1 .. n : ranges[k].off \in Nat
    <2>1. n \in Nat /\ \A k \in 1 .. n : ranges[k] \in Ranges
      BY ElementOfSeq, LenProperties
    <2> QED BY <2>1, SectionSizeType
  <1> HIDE DEF n
  <1>1. g \in [Nat \X (1 .. n) -> Nat]
    BY <1>0
  <1>2. PICK at \in [0 .. n -> Nat] : Follows(at, g, 0, n)
    <2> HIDE DEF g
    <2> QED BY <1>0, <1>1, FollowsExists
  <1>3. At(at)
    <2>1. at = [k \in 0 .. n |-> IF k = 0 THEN 0 ELSE g[<<at[k - 1], k>>]]
      <3> HIDE DEF g
      <3> QED BY <1>2 DEF Follows
    <2>2. [k \in 0 .. n |-> IF k = 0 THEN 0 ELSE g[<<at[k - 1], k>>]]
            = [k \in 0 .. n |-> IF k = 0 THEN 0 ELSE at[k - 1] + ranges[k].off]
      <3> SUFFICES ASSUME NEW k \in 0 .. n, k # 0
                   PROVE  g[<<at[k - 1], k>>] = at[k - 1] + ranges[k].off
        OBVIOUS
      <3>1. k \in 1 .. n /\ at[k - 1] \in Nat
        BY <1>0, <1>2
      <3> QED BY <3>1
    <2> QED BY <2>1, <2>2
  <1>4. At(c)
    <2> HIDE DEF At
    <2> QED BY <1>3
  <1>5. Starts = c
    BY DEF Starts, n
  <1> HIDE DEF c, g
  <1>6. /\ c[0] = 0
        /\ \A k \in 1 .. n : c[k] = c[k - 1] + ranges[k].off
    <2>1. \A k \in 0 .. n : c[k] = IF k = 0 THEN 0 ELSE c[k - 1] + ranges[k].off
      BY <1>4
    <2>2. 0 \in 0 .. n /\ \A k \in 1 .. n : k \in 0 .. n /\ k # 0
      BY <1>0
    <2> QED BY <2>1, <2>2
  <1>7. \A k \in 0 .. n : c[k] \in Nat
    <2> DEFINE S == {k \in Nat : c[k] \in Nat}
    <2>1. 0 \in S
      BY <1>6
    <2>2. ASSUME NEW k \in 1 .. n, k - 1 \in S PROVE k \in S
      <3>1. PICK x \in Nat, y \in Nat : x = c[k - 1] /\ y = ranges[k].off
        BY <1>0, <2>2
      <3>2. c[k] = x + y
        BY <1>6, <3>1
      <3> QED BY <3>2
    <2>3. 0 .. n \subseteq S
      <3> HIDE DEF S
      <3> QED BY <1>0, <2>1, <2>2, InductTo
    <2> QED BY <2>3
  <1>8. c = [k \in 0 .. n |-> c[k]]
    BY <1>4
  <1> HIDE DEF At
  <1> QED BY <1>5, <1>6, <1>7, <1>8 DEF n

Least(a, b) == IF a < b THEN a ELSE b

\* up[k] is the end of the bytes that lie in the first k ranges
Ends(up) ==
    /\ up \in [0 .. Len(ranges) -> Nat]
    /\ up[0] = file.len
    /\ \A k \in 1 .. Len(ranges) :
        up[k] = Least(up[k - 1], Starts[k] + ranges[k].n)

LEMMA LenOfFile ==
    ASSUME file \in Files
    PROVE  file.len \in Nat /\ file.len <= Int64Max
  <1>1. file.len \in Lens
    BY DEF Files
  <1>2. Lens \subseteq 0 .. Int64Max /\ Int64Max \in Nat
    BY ViewsAssumption
  <1>3. file.len \in 0 .. Int64Max
    BY <1>1, <1>2
  <1> QED BY <1>2, <1>3

LEMMA EndsExist ==
    ASSUME ranges \in Seq(Ranges), file \in Files
    PROVE  \E up : Ends(up)
  <1> DEFINE n == Len(ranges)
             end(k) == Starts[k] + ranges[k].n
             g == [x \in Nat \X (1 .. n) |-> Least(x[1], end(x[2]))]
  <1>0. n \in Nat /\ \A k \in 1 .. n : end(k) \in Nat
    <2>1. n \in Nat /\ \A k \in 1 .. n : ranges[k] \in Ranges /\ k \in 0 .. n
      BY ElementOfSeq, LenProperties
    <2>2. \A k \in 0 .. n : Starts[k] \in Nat
      BY StartsFollow
    <2> QED BY <2>1, <2>2, SectionSizeType
  <1> HIDE DEF n, end
  <1>1. g \in [Nat \X (1 .. n) -> Nat]
    BY <1>0 DEF Least
  <1>2. PICK up \in [0 .. n -> Nat] : Follows(up, g, file.len, n)
    <2> HIDE DEF g
    <2> QED BY <1>0, <1>1, FollowsExists, LenOfFile
  <1>3. \A k \in 0 .. n : up[k] = IF k = 0 THEN file.len ELSE g[<<up[k - 1], k>>]
    <2>1. up = [k \in 0 .. n |-> IF k = 0 THEN file.len ELSE g[<<up[k - 1], k>>]]
      <3> HIDE DEF g
      <3> QED BY <1>2 DEF Follows
    <2> HIDE DEF g
    <2>2. \A f : f = [k \in 0 .. n |-> IF k = 0 THEN file.len
                                       ELSE g[<<up[k - 1], k>>]]
            => \A k \in 0 .. n : f[k] = IF k = 0 THEN file.len
                                        ELSE g[<<up[k - 1], k>>]
      OBVIOUS
    <2> QED BY <2>1, <2>2
  <1> HIDE DEF g
  <1>4. up[0] = file.len
    <2>1. 0 \in 0 .. n
      BY <1>0
    <2> QED BY <1>3, <2>1
  <1>5. ASSUME NEW k \in 1 .. n PROVE up[k] = Least(up[k - 1], end(k))
    <2>1. k \in 0 .. n /\ k # 0 /\ up[k - 1] \in Nat
      BY <1>0, <1>2
    <2>2. up[k] = g[<<up[k - 1], k>>]
      BY <1>3, <2>1
    <2> QED BY <2>1, <2>2 DEF g
  <1> QED BY <1>2, <1>4, <1>5 DEF Ends, n, end

InFirst(k) ==
    {p \in 0 .. (file.len - 1) : \A j \in 1 .. k :
        Starts[j] <= p /\ p < Starts[j] + ranges[j].n}

LEMMA InFirstIs ==
    ASSUME ranges \in Seq(Ranges), file \in Files, NEW up, Ends(up)
    PROVE  \A k \in 0 .. Len(ranges) :
            /\ up[k] <= file.len
            /\ InFirst(k) = Starts[k] .. (up[k] - 1)
  <1> DEFINE n == Len(ranges)
             S == {k \in Nat : /\ up[k] <= file.len
                               /\ InFirst(k) = Starts[k] .. (up[k] - 1)}
  <1>0. n \in Nat /\ \A k \in 1 .. n : ranges[k] \in Ranges
    BY ElementOfSeq, LenProperties
  <1>1. file.len \in Nat /\ up \in [0 .. n -> Nat] /\ Starts \in [0 .. n -> Nat]
    BY LenOfFile, StartsFollow DEF Ends
  <1>2. 0 \in S
    <2>1. InFirst(0) = 0 .. (file.len - 1)
      BY <1>1 DEF InFirst
    <2> QED BY <1>1, <2>1, StartsFollow DEF Ends
  <1>3. ASSUME NEW k \in 1 .. n, k - 1 \in S PROVE k \in S
    <2>1. PICK s \in Nat, t \in Nat, u \in Nat, v \in Nat, m \in Nat :
            /\ s = Starts[k - 1] /\ t = Starts[k] /\ u = up[k - 1] /\ v = up[k]
            /\ m = ranges[k].n
      <3>1. k \in 0 .. n /\ k - 1 \in 0 .. n /\ ranges[k] \in Ranges
        BY <1>0
      <3> QED BY <1>1, <3>1, SectionSizeType
    <2>2. s <= t /\ v = Least(u, t + m)
      <3>1. t = s + ranges[k].off /\ ranges[k].off \in Nat
        BY <1>0, <2>1, StartsFollow, SectionSizeType
      <3>2. v = Least(u, t + m)
        BY <2>1 DEF Ends
      <3> QED BY <3>1, <3>2
    <2>3. u <= file.len /\ InFirst(k - 1) = s .. (u - 1)
      BY <1>3, <2>1
    <2>4. InFirst(k) = {p \in InFirst(k - 1) : t <= p /\ p < t + m}
      <3>1. \A j : j \in 1 .. k <=> j \in 1 .. k - 1 \/ j = k
        BY <1>0
      <3> QED BY <2>1, <3>1 DEF InFirst
    <2>5. InFirst(k) = t .. (v - 1)
      BY <2>2, <2>3, <2>4 DEF Least
    <2>6. v <= file.len
      BY <1>1, <2>2, <2>3 DEF Least
    <2> QED BY <1>0, <2>1, <2>5, <2>6
  <1>4. 0 .. n \subseteq S
    <2> HIDE DEF S
    <2> QED BY <1>0, <1>2, <1>3, InductTo
  <1> QED BY <1>4

\* The bytes of the file from p on, how many there are before u, and what a
\* read of n of them may answer when there are room.
Window(p, n) == [i \in 1 .. n |-> p + i - 1]
Room(p, u) == IF p < u THEN u - p ELSE 0

Answers(g, p, n, room) ==
    \/ g.err = "nil" /\ n <= room /\ g.bytes = Window(p, n)
    \/ g.err = "EOF" /\ n >= room /\ g.bytes = Window(p, room)
    \/ g.err = "EIO" /\ \E j \in 0 .. n : j <= room /\ g.bytes = Window(p, j)
    \/ g.err = "ErrOpNotSupported"

LEMMA NoWindow ==
    ASSUME NEW p, NEW q
    PROVE  Window(p, 0) = Window(q, 0) /\ Window(p, 0) = <<>>
  <1>1. 1 .. 0 = {}
    OBVIOUS
  <1>2. Window(p, 0) = [i \in {} |-> i] /\ Window(q, 0) = [i \in {} |-> i]
    BY <1>1 DEF Window
  <1>3. <<>> = [i \in {} |-> i]
    BY <1>1
  <1> QED BY <1>2, <1>3

LEMMA FileAnswers ==
    ASSUME file \in Files, NEW o \in Nat, NEW n \in Nat, NEW g \in FileReadAt(o, n)
    PROVE  Answers(g, o, n, Room(o, file.len))
  <1> DEFINE avail == IF o < file.len THEN file.len - o ELSE 0
  <1>1. avail = Room(o, file.len) /\ avail \in Nat
    BY LenOfFile DEF Room
  <1>2. FileReadAt(o, n) =
            {Get(o, k, "EIO") : k \in {j \in 0 .. n : j <= avail}}
            \cup (IF n <= avail THEN {Get(o, n, "nil")} ELSE {})
            \cup (IF n >= avail THEN {Get(o, avail, "EOF")} ELSE {})
    BY DEF FileReadAt
  <1> HIDE DEF avail
  <1>3. \A k, err : Get(o, k, err).bytes = Window(o, k) /\ Get(o, k, err).err = err
    BY DEF Get, Window
  <1>4. CASE \E k \in {j \in 0 .. n : j <= avail} : g = Get(o, k, "EIO")
    BY <1>1, <1>3, <1>4 DEF Answers
  <1>5. CASE n <= avail /\ g = Get(o, n, "nil")
    BY <1>1, <1>3, <1>5 DEF Answers
  <1>6. CASE n >= avail /\ g = Get(o, avail, "EOF")
    BY <1>1, <1>3, <1>6 DEF Answers
  <1> QED BY <1>2, <1>4, <1>5, <1>6

\* A range leaves as much room as there is in it.
\* what a range of size bytes, the k-th, leaves at offset o of it
Narrows(up, k, o, p, size) ==
    /\ p \in Nat /\ p = Starts[k - 1] + (o + ranges[k].off)
    /\ o >= size => Room(p, up[k]) = 0
    /\ o < size => Room(p, up[k]) = Least(Room(p, up[k - 1]), size - o)

LEMMA RoomInRange ==
    ASSUME ranges \in Seq(Ranges), file \in Files, NEW up, Ends(up),
           NEW k \in 1 .. Len(ranges), NEW o \in Nat,
           NEW p, p = Starts[k] + o,
           NEW size, size = SectionSize(ranges[k])
    PROVE  Narrows(up, k, o, p, size)
  <1>1. PICK s \in Nat, t \in Nat, u \in Nat, v \in Nat :
            s = Starts[k - 1] /\ t = Starts[k] /\ u = up[k - 1] /\ v = up[k]
    <2>1. k \in 0 .. Len(ranges) /\ k - 1 \in 0 .. Len(ranges)
      BY LenProperties
    <2> QED BY <2>1, StartsFollow DEF Ends
  <1>2. PICK r \in Ranges : r = ranges[k]
    BY ElementOfSeq
  <1>3. PICK off \in Nat, n \in Nat : off = r.off /\ n = r.n
    BY SectionSizeType
  <1>4. size \in Nat /\ size <= n /\ (size = n \/ off + size = Int64Max)
    BY <1>2, <1>3, SectionSizeType
  <1>5. v = Least(u, t + n)
    BY <1>1, <1>2, <1>3 DEF Ends
  <1>6. t = s + off
    BY <1>1, <1>2, <1>3, StartsFollow
  <1>7. u <= Int64Max /\ Int64Max \in Nat
    <2>1. k - 1 \in 0 .. Len(ranges)
      BY LenProperties
    <2>2. u <= file.len
      BY <1>1, <2>1, InFirstIs
    <2>3. Int64Max \in Nat
      BY ViewsAssumption
    <2> QED BY <2>2, <2>3, LenOfFile
  <1>8. p = t + o
    BY <1>1, Zenon
  <1>9. /\ v \in Nat /\ p \in Nat /\ p = s + (o + off)
        /\ u <= t + n => v = u
        /\ ~(u <= t + n) => v = t + n
    BY <1>5, <1>6, <1>8 DEF Least
  <1>10. ASSUME o >= size PROVE Room(p, v) = 0
    <2>1. v <= t + o
      BY <1>4, <1>6, <1>7, <1>9, <1>10
    <2> QED BY <1>8, <1>9, <2>1 DEF Room
  <1>11. ASSUME o < size PROVE Room(p, v) = Least(Room(p, u), size - o)
    <2>1. size = n \/ u <= t + size
      BY <1>4, <1>6, <1>7
    <2>2. (u <= t + size => v = u) /\ (~(u <= t + size) => v = t + size)
      BY <1>4, <1>9, <2>1
    <2>3. PICK end \in Nat : end = t + size
      BY <1>4
    <2>4. size - o = end - p /\ p < end
      BY <1>4, <1>8, <1>11, <2>3
    <2> QED BY <1>9, <2>2, <2>3, <2>4 DEF Room, Least
  <1>12. p = Starts[k - 1] + (o + ranges[k].off)
    BY <1>1, <1>2, <1>3, <1>9, Zenon
  <1> QED BY <1>1, <1>9, <1>10, <1>11, <1>12 DEF Narrows

\* An answer that had to be cut.
Cut(g) == [g EXCEPT !.err = IF @ = "nil" THEN "EOF" ELSE @]

\* what a range of size bytes from off on makes of the reads below it
InSection(below, off, size, o, n) ==
    IF o >= size THEN {Get(0, 0, "EOF")}
    ELSE IF n > size - o THEN {Cut(g) : g \in below[<<o + off, size - o>>]}
    ELSE below[<<o + off, n>>]

LEMMA SectionReadAtIs ==
    ASSUME NEW r \in Ranges, NEW below \in Reads(Errs), NEW o \in Nat, NEW n \in Nat
    PROVE  SectionReadAt(r, below)[<<o, n>>] =
            InSection(below, r.off, SectionSize(r), o, n)
  <1> DEFINE max == SectionSize(r) - o
  <1>1. SectionReadAt(r, below)[<<o, n>>] =
            IF o < 0 \/ o >= SectionSize(r) THEN {Get(0, 0, "EOF")}
            ELSE IF n > max
            THEN {[g EXCEPT !.err = IF @ = "nil" THEN "EOF" ELSE @] :
                  g \in below[<<o + r.off, max>>]}
            ELSE below[<<o + r.off, n>>]
    <2>1. o \in Int
      OBVIOUS
    <2> QED BY <2>1 DEF SectionReadAt
  <1>2. ~(o < 0) /\ max = SectionSize(r) - o
    OBVIOUS
  <1> HIDE DEF max
  <1>3. {[g EXCEPT !.err = IF @ = "nil" THEN "EOF" ELSE @] :
            g \in below[<<o + r.off, max>>]}
        = {Cut(g) : g \in below[<<o + r.off, max>>]}
    BY DEF Cut
  <1> QED BY <1>1, <1>2, <1>3, Zenon DEF InSection

\* An answer from below is one of the range, if there was room in it.
LEMMA AnswersInRange ==
    ASSUME NEW p, NEW n \in Nat, NEW below \in Nat, NEW max \in Nat, n <= max,
           NEW room, room = Least(below, max), NEW g, Answers(g, p, n, below)
    PROVE  Answers(g, p, n, room)
  <1>1. CASE g.err = "nil" /\ n <= below /\ g.bytes = Window(p, n)
    <2>1. n <= room
      BY <1>1 DEF Least
    <2> QED BY <1>1, <2>1 DEF Answers
  <1>2. CASE g.err = "EOF" /\ n >= below /\ g.bytes = Window(p, below)
    <2>1. room = below
      BY <1>2 DEF Least
    <2> QED BY <1>2, <2>1 DEF Answers
  <1>3. CASE g.err = "EIO" /\ \E j \in 0 .. n : j <= below /\ g.bytes = Window(p, j)
    <2>1. \A j \in 0 .. n : j <= below => j <= room
      BY DEF Least
    <2> QED BY <1>3, <2>1 DEF Answers
  <1>4. CASE g.err = "ErrOpNotSupported"
    BY <1>4 DEF Answers
  <1> QED BY <1>1, <1>2, <1>3, <1>4 DEF Answers

(***************************************************************************)
(* What ReadAt answers at every level is right for the bytes that lie in   *)
(* the ranges up to there.                                                 *)
(***************************************************************************)
LEMMA LevelAnswers ==
    ASSUME ranges \in Seq(Ranges), file \in Files, NEW up, Ends(up)
    PROVE  \A k \in 0 .. Len(ranges) : \A o \in Nat, n \in Nat :
            \A g \in ReadAtOf(ranges)[k][<<o, n>>] :
                IF k = 0 /\ "ReadAt" \notin file.does
                THEN g.err = "ErrOpNotSupported"
                ELSE Answers(g, Starts[k] + o, n, Room(Starts[k] + o, up[k]))
  <1> DEFINE at == ReadAtOf(ranges)
             m == Len(ranges)
             Right(k, o, n, g) ==
                Answers(g, Starts[k] + o, n, Room(Starts[k] + o, up[k]))
             S == {k \in Nat : \A o \in Nat, n \in Nat : \A g \in at[k][<<o, n>>] :
                        Right(k, o, n, g)}
  <1>0. m \in Nat
    BY LenProperties
  <1>1. /\ at[0] = FsReads
        /\ \A k \in 1 .. m : at[k] = SectionReadAt(ranges[k], at[k - 1])
        /\ at \in [0 .. m -> Reads(Errs)]
    <2>1. /\ {"nil", "EOF", "EIO", "EINVAL"} \subseteq Errs
          /\ "ErrOpNotSupported" \in Errs
      BY DEF Errs
    <2> QED BY <2>1, ReadAtOfFollows
  <1> HIDE DEF at, m
  <1>2. ASSUME NEW o \in Nat, NEW n \in Nat, NEW g \in at[0][<<o, n>>]
        PROVE  /\ "ReadAt" \notin file.does => g.err = "ErrOpNotSupported"
               /\ Right(0, o, n, g)
    <2>1. g \in FsReadAt(o, n)
      BY <1>1, <1>2 DEF FsReads
    <2>2. Starts[0] + o = o /\ up[0] = file.len
      BY StartsFollow DEF Ends
    <2>3. CASE "ReadAt" \in file.does
      <3>1. g \in FileReadAt(o, n)
        BY <2>1, <2>3 DEF FsReadAt
      <3> QED BY <2>2, <2>3, <3>1, FileAnswers
    <2>4. CASE "ReadAt" \notin file.does
      <3>1. g = Get(0, 0, "ErrOpNotSupported")
        BY <2>1, <2>4 DEF FsReadAt
      <3>2. g.err = "ErrOpNotSupported"
        BY <3>1 DEF Get
      <3> QED BY <3>2 DEF Answers
    <2> QED BY <2>3, <2>4
  <1>3. ASSUME NEW k \in 1 .. m, k - 1 \in S PROVE k \in S
    <2> SUFFICES ASSUME NEW o \in Nat, NEW n \in Nat, NEW g \in at[k][<<o, n>>]
                 PROVE  Right(k, o, n, g)
      OBVIOUS
    <2>1. PICK r \in Ranges : r = ranges[k]
      BY ElementOfSeq DEF m
    <2>2. PICK off \in Nat, size \in Nat : off = r.off /\ size = SectionSize(r)
      BY SectionSizeType
    <2> DEFINE p == Starts[k] + o
               room == Room(p, up[k])
               below == Room(p, up[k - 1])
    <2>3. /\ p \in Nat /\ p = Starts[k - 1] + (o + off)
          /\ o >= size => room = 0
          /\ o < size => room = Least(below, size - o)
      <3>1. k \in 1 .. Len(ranges) /\ size = SectionSize(ranges[k])
        BY <2>1, <2>2 DEF m
      <3>2. p = Starts[k] + o
        OBVIOUS
      <3> HIDE DEF p
      <3>3. Narrows(up, k, o, p, size)
        BY <3>1, <3>2, RoomInRange
      <3> QED BY <2>1, <2>2, <3>3 DEF Narrows
    <2>4. at[k][<<o, n>>] =
            IF o >= size THEN {Get(0, 0, "EOF")}
            ELSE IF n > size - o
            THEN {Cut(h) : h \in at[k - 1][<<o + off, size - o>>]}
            ELSE at[k - 1][<<o + off, n>>]
      <3>1. at[k] = SectionReadAt(r, at[k - 1])
        BY <1>1, <2>1
      <3>2. SectionReadAt(r, at[k - 1])[<<o, n>>] =
            IF o >= size THEN {Get(0, 0, "EOF")}
            ELSE IF n > size - o
            THEN {Cut(h) : h \in at[k - 1][<<o + r.off, size - o>>]}
            ELSE at[k - 1][<<o + r.off, n>>]
        <4>1. PICK lower \in Reads(Errs) : lower = at[k - 1]
          BY <1>0, <1>1
        <4>2. SectionReadAt(r, lower)[<<o, n>>] =
                InSection(lower, r.off, SectionSize(r), o, n)
          BY SectionReadAtIs
        <4>3. SectionReadAt(r, at[k - 1])[<<o, n>>] =
                InSection(at[k - 1], r.off, size, o, n)
          BY <2>2, <4>1, <4>2
        <4> QED BY <4>3 DEF InSection
      <3> QED BY <2>2, <3>1, <3>2, Zenon
    <2>5. below \in Nat
      <3>1. up[k - 1] \in Nat
        BY <1>0 DEF Ends, m
      <3> QED BY <2>3, <3>1 DEF Room
    <2>6. \A j \in Nat : \A h \in at[k - 1][<<o + off, j>>] :
            Answers(h, p, j, below)
      BY <1>3, <2>3
    <2> HIDE DEF p, room, below
    <2>7. CASE o >= size
      <3>1. g = Get(0, 0, "EOF") /\ room = 0
        BY <2>3, <2>4, <2>7
      <3>2. g.err = "EOF" /\ g.bytes = Window(p, 0)
        BY <3>1, NoWindow DEF Get, Window
      <3> QED BY <3>1, <3>2 DEF Answers, p, room
    <2>8. CASE o < size /\ n > size - o
      <3>1. PICK max \in Nat : /\ max = size - o /\ max > 0 /\ max < n
                               /\ room = Least(below, max)
        BY <2>3, <2>8
      <3>2. PICK h \in at[k - 1][<<o + off, max>>] : g = Cut(h)
        <4>1. ~(o >= size) /\ n > size - o /\ size - o = max
          BY <2>8, <3>1
        <4>2. at[k][<<o, n>>] = {Cut(h) : h \in at[k - 1][<<o + off, max>>]}
          BY <2>4, <4>1, Zenon
        <4> QED BY <4>2
      <3>3. Answers(h, p, max, below)
        BY <2>6
      <3>4. h \in Gots(Errs)
        <4>1. at[k - 1] \in Reads(Errs)
          BY <1>0, <1>1
        <4>2. o + off \in Int
          OBVIOUS
        <4> QED BY <4>1, <4>2 DEF Reads
      <3>5. /\ g.bytes = h.bytes
            /\ g.err = IF h.err = "nil" THEN "EOF" ELSE h.err
        BY <3>2, <3>4 DEF Gots, Cut
      <3>6. Answers(g, p, n, room)
        <4>1. Answers(h, p, max, room)
          BY <2>5, <3>1, <3>3, AnswersInRange
        <4>2. room <= max /\ room \in Nat
          BY <2>5, <3>1 DEF Least
        <4>3. CASE h.err = "nil" /\ max <= room /\ h.bytes = Window(p, max)
          <5>1. g.err = "EOF" /\ room = max /\ g.bytes = Window(p, room)
            BY <3>5, <4>2, <4>3
          <5> QED BY <3>1, <5>1 DEF Answers
        <4>4. CASE h.err = "EOF" /\ max >= room /\ h.bytes = Window(p, room)
          <5>1. g.err = "EOF" /\ g.bytes = Window(p, room)
            BY <3>5, <4>4
          <5> QED BY <3>1, <4>2, <5>1 DEF Answers
        <4>5. CASE /\ h.err = "EIO"
                   /\ \E j \in 0 .. max : j <= room /\ h.bytes = Window(p, j)
          <5>1. PICK j \in 0 .. max : j <= room /\ h.bytes = Window(p, j)
            BY <4>5
          <5>2. g.err = "EIO" /\ j \in 0 .. n /\ g.bytes = Window(p, j)
            BY <3>1, <3>5, <4>5, <5>1
          <5> QED BY <5>1, <5>2 DEF Answers
        <4>6. CASE h.err = "ErrOpNotSupported"
          BY <3>5, <4>6 DEF Answers
        <4> QED BY <4>1, <4>3, <4>4, <4>5, <4>6 DEF Answers
      <3> QED BY <3>6 DEF p, room
    <2>9. CASE o < size /\ ~(n > size - o)
      <3>1. PICK max \in Nat : /\ max = size - o /\ n <= max
                               /\ room = Least(below, max)
        BY <2>3, <2>9
      <3>2. Answers(g, p, n, below)
        BY <2>4, <2>6, <2>9
      <3>3. Answers(g, p, n, room)
        BY <2>5, <3>1, <3>2, AnswersInRange
      <3> QED BY <3>3 DEF p, room
    <2> QED BY <2>7, <2>8, <2>9
  <1>4. 0 .. m \subseteq S
    <2>1. 0 \in S
      BY <1>2
    <2> HIDE DEF S
    <2> QED BY <1>0, <1>3, <2>1, InductTo
  <1> QED BY <1>2, <1>4 DEF at, m

-----------------------------------------------------------------------------
(***************************************************************************)
(* The file of ReadOnlyFile that a view is.                                *)
(***************************************************************************)
\* It is the window between the start and the end of the ranges ...
LEMMA ContentsIs ==
    ASSUME ranges \in Seq(Ranges), file \in Files, NEW up, Ends(up),
           NEW start, start = Starts[Len(ranges)]
    PROVE  /\ start \in Nat /\ up[Len(ranges)] \in Nat
           /\ Contents = Window(start, Room(start, up[Len(ranges)]))
  <1>1. PICK m \in Nat : m = Len(ranges)
    BY LenProperties
  <1>2. PICK u \in Nat : u = up[m]
    BY <1>1 DEF Ends
  <1>3. start \in Nat
    BY <1>1, StartsFollow
  <1>4. InEvery = start .. (u - 1)
    <2>1. DOMAIN ranges = 1 .. m
      BY <1>1, LenProperties
    <2>2. InEvery = InFirst(m)
      BY <2>1 DEF InEvery, InFirst
    <2>3. m \in 0 .. Len(ranges)
      BY <1>1
    <2>4. InFirst(m) = Starts[m] .. (up[m] - 1)
      BY <2>3, InFirstIs
    <2> QED BY <1>1, <1>2, <2>2, <2>4
  <1>5. Cardinality(InEvery) = Room(start, u)
    <2>1. Cardinality(start .. (u - 1)) =
            IF start > u - 1 THEN 0 ELSE (u - 1) - start + 1
      <3>1. PICK end \in Int : end = u - 1
        OBVIOUS
      <3>2. Cardinality(start .. end) =
                IF start > end THEN 0 ELSE end - start + 1
        <4>1. start \in Int
          BY <1>3
        <4> QED BY <4>1, FS_Interval, Zenon
      <3> QED BY <3>1, <3>2, Zenon
    <2> QED BY <1>3, <1>4, <2>1 DEF Room
  <1>6. ranges # Nil
    BY NilIsNoView
  <1>7. Contents = [i \in 1 .. Cardinality(InEvery) |-> start + i - 1]
    BY <1>6 DEF Contents
  <1> QED BY <1>1, <1>2, <1>3, <1>5, <1>7 DEF Window

LEMMA RoomType ==
    ASSUME NEW p \in Nat, NEW u \in Nat
    PROVE  \E room \in Nat : room = Room(p, u)
  <1>1. Room(p, u) \in Nat
    BY DEF Room
  <1> QED BY <1>1

LEMMA WindowIs ==
    ASSUME NEW p \in Nat, NEW n \in Nat
    PROVE  Window(p, n) \in Seq(Nat) /\ Len(Window(p, n)) = n
  <1>1. \A i \in 1 .. n : p + i - 1 \in Nat
    OBVIOUS
  <1>2. Window(p, n) \in Seq(Nat)
    BY <1>1, IsASeq DEF Window
  <1>3. DOMAIN Window(p, n) = 1 .. n
    BY DEF Window
  <1> QED BY <1>2, <1>3, LenProperties

\* ... and what is read of it is a window of that.
LEMMA SliceIs ==
    ASSUME ranges \in Seq(Ranges), file \in Files, NEW up, Ends(up),
           NEW o \in Nat, NEW n \in Nat, NEW p, p = Starts[Len(ranges)] + o
    PROVE  File!Slice(o, n) = Window(p, Least(n, Room(p, up[Len(ranges)])))
  <1>1. PICK s \in Nat, u \in Nat : s = Starts[Len(ranges)] /\ u = up[Len(ranges)]
    BY ContentsIs
  <1>2. PICK size \in Nat : size = Room(s, u)
    BY RoomType
  <1>3. Contents = Window(s, size) /\ Contents \in Seq(Nat) /\ Len(Contents) = size
    <2>1. Contents = Window(s, size)
      BY <1>1, <1>2, ContentsIs
    <2> QED BY <2>1, WindowIs
  <1>4. p = s + o
    BY <1>1, Zenon
  <1>5. CASE o >= size
    <2>1. Room(p, u) = 0 /\ Least(n, 0) = 0
      BY <1>2, <1>4, <1>5 DEF Room, Least
    <2>2. File!Slice(o, n) = <<>>
      BY <1>3, <1>5 DEF File!Slice
    <2> QED BY <1>1, <2>1, <2>2, NoWindow
  <1>6. CASE o < size
    <2>1. PICK k \in Nat : /\ k = Least(n, Room(p, u))
                           /\ o + k = IF n < size - o THEN o + n ELSE size
      BY <1>2, <1>4, <1>6 DEF Room, Least
    <2>2. File!Slice(o, n) = SubSeq(Window(s, size), o + 1, o + k)
      <3>1. File!Slice(o, n) = SubSeq(Contents, o + 1,
                    IF n < size - o THEN o + n ELSE size)
        BY <1>3, <1>6 DEF File!Slice
      <3> QED BY <1>3, <2>1, <3>1, Zenon
    <2>3. SubSeq(Window(s, size), o + 1, o + k) = Window(p, k)
      <3>1. SubSeq(Window(s, size), o + 1, o + k) =
                [i \in 1 .. (o + k) - (o + 1) + 1 |-> Window(s, size)[(o + 1) + i - 1]]
        BY DEF SubSeq
      <3>2. (o + k) - (o + 1) + 1 = k
        OBVIOUS
      <3>3. o + k <= size
        BY <1>6, <2>1
      <3>4. \A i \in 1 .. k : Window(s, size)[(o + 1) + i - 1] = p + i - 1
        BY <1>4, <3>3 DEF Window
      <3> QED BY <3>1, <3>2, <3>4 DEF Window
    <2> QED BY <1>1, <2>1, <2>2, <2>3
  <1> QED BY <1>2, <1>5, <1>6

\* Who asks for all the room there is from o on asks to the end.
LEMMA RoomBeyond ==
    ASSUME NEW s \in Nat, NEW o \in Nat, NEW n \in Nat, NEW u \in Nat,
           n >= Room(s + o, u)
    PROVE  o + n >= Room(s, u)
  BY DEF Room

\* A full answer is one of ReadOnlyFile.
LEMMA FullRead ==
    ASSUME ranges \in Seq(Ranges), file \in Files, NEW up, Ends(up),
           NEW o \in Nat, NEW n \in Nat, NEW p, p = Starts[Len(ranges)] + o,
           NEW g, Answers(g, p, n, Room(p, up[Len(ranges)])),
           g.err # "ErrOpNotSupported", Heard' = [bytes |-> g.bytes, err |-> g.err]
    PROVE  File!Full(o, n)
  <1>1. PICK room \in Nat : room = Room(p, up[Len(ranges)])
    BY ContentsIs DEF Room
  <1>2. p \in Nat
    BY ContentsIs
  <1>3. \A k \in Nat : File!Slice(o, k) = Window(p, Least(k, room))
    BY <1>1, SliceIs
  <1>4. CASE g.err = "nil" /\ n <= room /\ g.bytes = Window(p, n)
    <2>1. Least(n, room) = n
      BY <1>4 DEF Least
    <2>2. Heard'.bytes = Window(p, n)
      BY <1>4
    <2> QED BY <1>2, <1>3, <1>4, <2>1, <2>2, WindowIs DEF File!Full
  <1>5. CASE g.err = "EOF" /\ n >= room /\ g.bytes = Window(p, room)
    <2>1. Least(n, room) = room
      BY <1>5 DEF Least
    <2>2. o + n >= Len(Contents)
      <3>1. PICK s \in Nat, u \in Nat :
                s = Starts[Len(ranges)] /\ u = up[Len(ranges)]
        BY ContentsIs
      <3>2. PICK size \in Nat : size = Room(s, u)
        BY RoomType
      <3>3. Len(Contents) = size
        <4>1. Contents = Window(s, size)
          BY <3>1, <3>2, ContentsIs
        <4> QED BY <4>1, WindowIs
      <3>4. p = s + o
        BY <3>1, Zenon
      <3>5. n >= Room(s + o, u)
        BY <1>1, <1>5, <3>1, <3>4
      <3> QED BY <3>2, <3>3, <3>5, RoomBeyond
    <2> QED BY <1>3, <1>5, <2>1, <2>2 DEF File!Full
  <1>6. CASE g.err = "EIO" /\ \E j \in 0 .. n : j <= room /\ g.bytes = Window(p, j)
    <2>1. PICK j \in 0 .. n : j <= room /\ g.bytes = Window(p, j)
      BY <1>6
    <2>2. Least(j, room) = j
      BY <2>1 DEF Least
    <2> QED BY <1>3, <1>6, <2>1, <2>2 DEF File!Full
  <1> QED BY <1>1, <1>4, <1>5, <1>6 DEF Answers

\* Read may get less than the buffer holds: a file because it does, a range
\* because the buffer is cut to what is left of it.
Part(g, p, n, room) ==
    \E k \in 1 .. n : g.err = "nil" /\ k <= room /\ g.bytes = Window(p, k)

LEMMA SomeRead ==
    ASSUME ranges \in Seq(Ranges), file \in Files, NEW up, Ends(up),
           NEW o \in Nat, NEW n \in Nat, NEW p, p = Starts[Len(ranges)] + o,
           NEW g, Heard' = [bytes |-> g.bytes, err |-> g.err],
           g.err # "ErrOpNotSupported",
           \/ Answers(g, p, n, Room(p, up[Len(ranges)]))
           \/ Part(g, p, n, Room(p, up[Len(ranges)]))
    PROVE  File!Some(o, n)
  <1>1. CASE Answers(g, p, n, Room(p, up[Len(ranges)]))
    BY <1>1, FullRead DEF File!Some
  <1>2. CASE Part(g, p, n, Room(p, up[Len(ranges)]))
    <2>1. PICK room \in Nat : room = Room(p, up[Len(ranges)])
      <3>1. PICK u \in Nat : u = up[Len(ranges)]
        BY ContentsIs
      <3>2. p \in Nat
        BY ContentsIs
      <3> QED BY <3>1, <3>2, RoomType
    <2>2. PICK k \in 1 .. n : g.err = "nil" /\ k <= room /\ g.bytes = Window(p, k)
      BY <1>2, <2>1 DEF Part
    <2>3. p \in Nat
      BY ContentsIs
    <2>4. Least(k, room) = k
      BY <2>1, <2>2 DEF Least
    <2>5. File!Slice(o, k) = Window(p, k)
      BY <2>1, <2>4, SliceIs
    <2>6. Len(Window(p, k)) = k
      <3>1. k \in Nat
        OBVIOUS
      <3> QED BY <2>3, <3>1, WindowIs
    <2> QED BY <2>2, <2>5, <2>6 DEF File!Some
  <1> QED BY <1>1, <1>2

\* where offsets of handles start
Base == IF ranges = <<>> THEN 0 ELSE Last(ranges).off

LEMMA FileRoom ==
    ASSUME ranges = <<>>, file \in Files, NEW up, Ends(up)
    PROVE  Starts[Len(ranges)] = 0 /\ up[Len(ranges)] = file.len
  BY StartsFollow DEF Ends

LEMMA ReadAnswers ==
    ASSUME VInv, ranges # Nil, NEW up, Ends(up), NEW q \in Nat, NEW n \in Nat,
           NEW p, p = Starts[Len(ranges)] + q, NEW g \in ViewRead(q + Base, n)
    PROVE  /\ g.err # "ErrOpNotSupported"
           /\ \/ Answers(g, p, n, Room(p, up[Len(ranges)]))
              \/ Part(g, p, n, Room(p, up[Len(ranges)]))
  <1>1. ranges \in Seq(Ranges) /\ file \in Files
    BY DEF VInv, Types
  <1>2. CASE ranges = <<>>
    <2>1. p = q /\ up[Len(ranges)] = file.len /\ q + Base = q
      BY <1>1, <1>2, FileRoom DEF Base
    <2>2. g \in FileReadAt(q, n)
            \cup {Get(q, k, "nil") : k \in {j \in 1 .. n : q + j <= file.len}}
      BY <1>2, <2>1 DEF ViewRead, FileRead
    <2>3. CASE g \in FileReadAt(q, n)
      <3>1. Answers(g, q, n, Room(q, file.len))
        BY <1>1, <2>3, FileAnswers
      <3>2. g.err # "ErrOpNotSupported"
        BY <2>3 DEF FileReadAt, Get
      <3> QED BY <2>1, <3>1, <3>2
    <2>4. CASE \E k \in {j \in 1 .. n : q + j <= file.len} : g = Get(q, k, "nil")
      <3>1. PICK k \in 1 .. n : q + k <= file.len /\ g = Get(q, k, "nil")
        BY <2>4
      <3>2. k <= Room(q, file.len)
        BY <1>1, <3>1, LenOfFile DEF Room
      <3>3. g.err = "nil" /\ g.bytes = Window(q, k)
        BY <3>1 DEF Get, Window
      <3> QED BY <2>1, <3>2, <3>3 DEF Part
    <2> QED BY <2>2, <2>3, <2>4
  <1>3. CASE ranges # <<>>
    <2>1. PICK m \in Nat \ {0}, r \in Ranges :
            m = Len(ranges) /\ r = ranges[m] /\ r = Last(ranges)
      BY <1>3, LastOfRanges DEF VInv, Ranged, Last
    <2>2. PICK off \in Nat, size \in Nat :
            /\ off = r.off /\ size = SectionSize(r)
            /\ Limit(r) = off + size /\ Base = off
      BY <1>3, <2>1, SectionSizeType DEF Base
    <2> DEFINE room == Room(p, up[m])
               lower == Room(p, up[m - 1])
    <2>3. /\ p \in Nat /\ p = Starts[m - 1] + (q + off)
          /\ q >= size => room = 0
          /\ q < size => room = Least(lower, size - q)
      <3>1. m \in 1 .. Len(ranges) /\ size = SectionSize(ranges[m])
        BY <2>1, <2>2
      <3>2. p = Starts[m] + q
        BY <2>1
      <3>3. Narrows(up, m, q, p, size)
        BY <1>1, <3>1, <3>2, RoomInRange
      <3> QED BY <2>1, <2>2, <3>3 DEF Narrows
    <2>4. lower \in Nat
      <3>1. up[m - 1] \in Nat
        <4>1. m - 1 \in 0 .. Len(ranges)
          BY <2>1
        <4> QED BY <4>1 DEF Ends
      <3>2. PICK u \in Nat : u = up[m - 1]
        BY <3>1
      <3> QED BY <2>3, <3>2 DEF Room
    <2>5. "ReadAt" \in file.does
      BY <1>3 DEF VInv, Probed, Ranged
    <2>6. \A j \in Nat : \A h \in ReadAtOf(ranges)[m - 1][<<q + off, j>>] :
            Answers(h, p, j, lower)
      <3>1. m - 1 \in 0 .. Len(ranges) /\ q + off \in Nat
        BY <2>1
      <3> QED BY <1>1, <2>3, <2>5, <3>1, LevelAnswers
    <2>7. g.err # "ErrOpNotSupported"
      <3>1. PICK i \in Nat : i = q + Base
        BY <2>2
      <3> QED BY <1>3, <3>1, ReadsOfView DEF Ranged
    <2>8. g \in IF size - q <= 0 THEN {Get(0, 0, "EOF")}
                ELSE ReadAtOf(ranges)[m - 1][<<q + off,
                                               IF n > size - q THEN size - q ELSE n>>]
      <3>1. PICK i \in Nat : i = q + off /\ i = q + Base
        BY <2>2
      <3>2. PICK left \in Int : left = size - q /\ Limit(Last(ranges)) - i = left
        <4>1. Limit(Last(ranges)) = off + size
          BY <2>1, <2>2, Zenon
        <4>2. size - q \in Int /\ (off + size) - i = size - q
          BY <3>1
        <4> QED BY <4>1, <4>2, Zenon
      <3>3. g \in SectionRead(i, n)
        BY <1>3, <3>1 DEF ViewRead
      <3>4. g \in IF left <= 0 THEN {Get(0, 0, "EOF")}
                ELSE ReadAtOf(ranges)[m - 1][<<i, IF n > left THEN left ELSE n>>]
        <4>1. g \in IF Limit(Last(ranges)) - i <= 0 THEN {Get(0, 0, "EOF")}
                ELSE ReadAtOf(ranges)[Len(ranges) - 1][<<i,
                        IF n > Limit(Last(ranges)) - i THEN Limit(Last(ranges)) - i
                        ELSE n>>]
          BY <3>3 DEF SectionRead
        <4>2. m - 1 = Len(ranges) - 1
          BY <2>1
        <4> QED BY <3>2, <4>1, <4>2, Zenon
      <3> QED BY <3>1, <3>2, <3>4
    <2>10. Answers(g, p, n, room) \/ Part(g, p, n, room)
      <3> HIDE DEF room, lower
      <3>1. CASE size - q <= 0
        <4>1. g = Get(0, 0, "EOF") /\ room = 0
          BY <2>3, <2>8, <3>1
        <4>2. g.err = "EOF" /\ g.bytes = Window(p, 0)
          BY <4>1, NoWindow DEF Get, Window
        <4> QED BY <4>1, <4>2 DEF Answers
      <3>2. CASE ~(size - q <= 0)
        <4>1. PICK max \in Nat : /\ max = size - q /\ max > 0
                                 /\ room = Least(lower, max)
          BY <2>3, <3>2
        <4>2. CASE n <= max
          <5>1. Answers(g, p, n, lower)
            BY <2>6, <2>8, <4>1, <4>2
          <5> QED BY <2>4, <4>1, <4>2, <5>1, AnswersInRange
        <4>3. CASE ~(n <= max)
          <5>1. Answers(g, p, max, lower)
            BY <2>6, <2>8, <4>1, <4>3
          <5>2. Answers(g, p, max, room)
            BY <2>4, <4>1, <5>1, AnswersInRange
          <5>3. room \in Nat /\ room <= max
            BY <2>4, <4>1 DEF Least
          <5> QED BY <4>1, <4>3, <5>2, <5>3 DEF Answers, Part
        <4> QED BY <4>2, <4>3
      <3> QED BY <3>1, <3>2
    <2> QED BY <2>1, <2>7, <2>10
  <1> QED BY <1>2, <1>3

LEMMA ReadAtAnswers ==
    ASSUME VInv, ranges # Nil, NEW up, Ends(up), NEW o \in Int, NEW n \in Nat,
           NEW p, p = Starts[Len(ranges)] + o, NEW g \in ViewReadAt(o, n)
    PROVE  /\ o >= 0 => \/ g.err = "ErrOpNotSupported"
                        \/ Answers(g, p, n, Room(p, up[Len(ranges)]))
           /\ o < 0 => \/ g.err \in {"EINVAL", "ErrOpNotSupported"}
                       \/ g.err = "EOF" /\ g.bytes = <<>>
  <1>1. ranges \in Seq(Ranges) /\ file \in Files
    BY DEF VInv, Types
  <1>2. PICK m \in Nat : m = Len(ranges) /\ m \in 0 .. Len(ranges)
    BY <1>1, LenProperties
  <1>3. g \in ReadAtOf(ranges)[m][<<o, n>>]
    BY <1>2 DEF ViewReadAt
  <1>4. ASSUME o >= 0
        PROVE  \/ g.err = "ErrOpNotSupported"
               \/ Answers(g, p, n, Room(p, up[Len(ranges)]))
    <2>1. IF m = 0 /\ "ReadAt" \notin file.does
          THEN g.err = "ErrOpNotSupported"
          ELSE Answers(g, Starts[m] + o, n, Room(Starts[m] + o, up[m]))
      <3>1. o \in Nat
        BY <1>4
      <3> QED BY <1>1, <1>2, <1>3, <3>1, LevelAnswers
    <2> QED BY <1>2, <2>1, Zenon
  <1>5. ASSUME o < 0
        PROVE  \/ g.err \in {"EINVAL", "ErrOpNotSupported"}
               \/ g.err = "EOF" /\ g.bytes = <<>>
    <2>1. /\ ReadAtOf(ranges)[0] = FsReads
          /\ \A k \in 1 .. Len(ranges) :
                ReadAtOf(ranges)[k] = SectionReadAt(ranges[k], ReadAtOf(ranges)[k - 1])
      <3>1. /\ {"nil", "EOF", "EIO", "EINVAL"} \subseteq Errs
            /\ "ErrOpNotSupported" \in Errs
        BY DEF Errs
      <3> QED BY <1>1, <3>1, ReadAtOfFollows
    <2>2. CASE m = 0
      <3>1. g \in FsReads[<<o, n>>]
        BY <1>3, <2>1, <2>2
      <3>2. g \in FsReadAt(o, n)
        BY <3>1 DEF FsReads
      <3>3. g \in {Get(0, 0, "EINVAL"), Get(0, 0, "ErrOpNotSupported")}
        BY <1>5, <3>2 DEF FsReadAt
      <3> QED BY <3>3 DEF Get
    <2>3. CASE m # 0
      <3>1. m \in 1 .. Len(ranges)
        BY <1>2, <2>3
      <3>2. g \in SectionReadAt(ranges[m], ReadAtOf(ranges)[m - 1])[<<o, n>>]
        BY <1>3, <2>1, <3>1
      <3>3. g = Get(0, 0, "EOF")
        BY <1>5, <3>2 DEF SectionReadAt
      <3>4. g.err = "EOF" /\ g.bytes = Window(0, 0)
        BY <3>3 DEF Get, Window
      <3> QED BY <3>4, NoWindow
    <2> QED BY <2>2, <2>3
  <1> QED BY <1>4, <1>5

(***************************************************************************)
(* Every step of a view is one of its file, or changes nothing of it.      *)
(***************************************************************************)
LEMMA FileTypes == VInv => Contents \in Seq(Nat) /\ Said \in Nat
  <1> SUFFICES ASSUME VInv PROVE Contents \in Seq(Nat) /\ Said \in Nat
    OBVIOUS
  <1>1. CASE ranges = Nil
    BY <1>1, EmptySeq DEF Contents, Said
  <1>2. CASE ranges # Nil
    <2>1. ranges \in Seq(Ranges) /\ file \in Files
      BY <1>2 DEF VInv, Types
    <2>2. PICK up : Ends(up)
      BY <2>1, EndsExist
    <2>3. PICK s \in Nat, u \in Nat : s = Starts[Len(ranges)] /\ u = up[Len(ranges)]
      BY <2>1, <2>2, ContentsIs
    <2>4. PICK size \in Nat : size = Room(s, u)
      BY RoomType
    <2>5. Contents = Window(s, size)
      BY <2>1, <2>2, <2>3, <2>4, ContentsIs
    <2>6. Said \in Nat
      <3>1. CASE ranges = <<>>
        BY <1>2, <2>1, <3>1, LenOfFile DEF Said, HandleSize
      <3>2. CASE ranges # <<>>
        BY <1>2, <3>2, LastOfRanges, SectionSizeType
        DEF Said, HandleSize, VInv, Ranged
      <3> QED BY <3>1, <3>2
    <2> QED BY <2>5, <2>6, WindowIs
  <1> QED BY <1>1, <1>2

LEMMA Same ==
    ASSUME UNCHANGED <<file, ranges>>
    PROVE  UNCHANGED <<Contents, Said>>
  <1>1. file' = file /\ ranges' = ranges
    OBVIOUS
  <1>2. Starts' = Starts
    BY <1>1 DEF Starts
  <1>3. InEvery' = InEvery
    BY <1>1, <1>2 DEF InEvery
  <1>4. Contents' = Contents
    BY <1>1, <1>2, <1>3 DEF Contents
  <1>5. Said' = Said
    BY <1>1 DEF Said, HandleSize
  <1> QED BY <1>4, <1>5

LEMMA SamePositions ==
    ASSUME UNCHANGED <<ranges, handle>>
    PROVE  UNCHANGED Positions
  BY DEF Positions, Position

LEMMA Refusal ==
    ASSUME UNCHANGED <<file, ranges, handle>>, Heard' = File!Nothing
    PROVE  File!Next
  BY Same, SamePositions DEF File!Refuse, File!Next

LEMMA Deaf ==
    ASSUME NEW op, NEW err, last' = Result(op, err), op \notin {"Read", "ReadAt"}
    PROVE  Heard' = File!Nothing
  <1>1. last'.op = op
    BY DEF Result
  <1> QED BY <1>1 DEF Heard, File!Nothing

LEMMA LeaveIs ==
    ASSUME NEW op, NEW err, Leave(op, err), op \notin {"Read", "ReadAt"}
    PROVE  File!Next
  BY Deaf, Refusal DEF Leave

\* before a handle is used, the file may become another
LEMMA ChangeIs ==
    ASSUME VInv', Heard' = File!Nothing, UNCHANGED Positions
    PROVE  File!Next
  <1>1. Contents' \in Seq(Nat) /\ Said' \in Nat
    <2>1. (VInv => Contents \in Seq(Nat) /\ Said \in Nat)'
      BY FileTypes, PTL
    <2> QED BY <2>1
  <1> QED BY <1>1 DEF File!Change, File!Next

LEMMA MadeIs ==
    ASSUME VInv, VInv', NewFsFileView \/ NewRanged \/ Resize
    PROVE  File!Next
  <1>1. CASE Leave("NewFsFileView", "EISDIR") \/ Leave("NewFsFileView", "EBADF")
             \/ Leave("NewFsFileView", "EIO") \/ Leave("NewRanged", "EINVAL")
    BY <1>1, LeaveIs
  <1>2. ASSUME \A h \in Handles : ~ handle[h].used, handle' = handle
        PROVE  UNCHANGED Positions
    BY <1>2 DEF Positions, Position
  <1>3. CASE /\ ranges = Nil /\ ranges' = <<>>
             /\ last' = Result("NewFsFileView", "nil")
             /\ UNCHANGED <<file, handle, fds>>
    <2>1. \A h \in Handles : ~ handle[h].used
      BY <1>3 DEF VInv, Placed
    <2> QED BY <1>2, <1>3, <2>1, Deaf, ChangeIs
  <1>4. ASSUME NewRanged,
               NEW err, last' = Result("NewRanged", err), UNCHANGED <<file, handle>>
        PROVE  File!Next
    <2>1. \A h \in Handles : ~ handle[h].used
      BY <1>4 DEF NewRanged, Unused
    <2> QED BY <1>2, <1>4, <2>1, Deaf, ChangeIs
  <1>5. CASE Resize
    <2>1. UNCHANGED <<ranges, handle>> /\ last' = Result("Resize", "nil")
      BY <1>5 DEF Resize
    <2> QED BY <2>1, SamePositions, Deaf, ChangeIs
  <1>6. CASE NewRanged
    <2>1. \/ Leave("NewRanged", "EINVAL")
          \/ \E p \in ProbeResults : /\ last' = Result("NewRanged", p.err)
                                     /\ UNCHANGED <<file, handle>>
      BY <1>6 DEF NewRanged
    <2> QED BY <1>1, <1>4, <1>6, <2>1
  <1> QED BY <1>1, <1>3, <1>5, <1>6 DEF NewFsFileView

\* A handle is moved, and no other.
LEMMA PositionMoves ==
    ASSUME VInv, NEW h \in Handles, NEW off \in Nat, NEW q, off = q + Base,
           q \in Nat, ranges # Nil, ranges' = ranges,
           \/ handle' = [handle EXCEPT ![h].off = off] /\ handle[h].used
           \/ handle' = [handle EXCEPT ![h] =
                            [open |-> TRUE, used |-> TRUE, off |-> off]]
    PROVE  Positions' = [Positions EXCEPT ![h] = q]
  <1>1. handle \in [Handles -> [open : BOOLEAN, used : BOOLEAN, off : Nat]]
    BY DEF VInv, Types
  <1>2. /\ handle'[h].used /\ handle'[h].off = off
        /\ \A i \in Handles : i # h => handle'[i] = handle[i]
    BY <1>1
  <1>3. Base \in Nat /\ (ranges # <<>> => Base = Last(ranges).off)
        /\ (ranges = <<>> => Base = 0)
    BY LastOfRanges DEF Base, Ranged, VInv, Ranges
  <1>4. Position(h)' = q
    <2>1. Position(h)' = IF ranges = <<>> THEN off ELSE off - Last(ranges).off
      BY <1>2 DEF Position
    <2> QED BY <1>3, <2>1
  <1>5. \A i \in Handles : i # h => Position(i)' = Position(i)
    BY <1>2 DEF Position
  <1> QED BY <1>4, <1>5 DEF Positions

LEMMA BaseOf ==
    ASSUME VInv, NEW h \in Handles, handle[h].open
    PROVE  /\ Base \in Nat /\ handle[h].off \in Nat /\ handle[h].used
           /\ Base <= handle[h].off /\ ranges # Nil
           /\ Positions[h] = handle[h].off - Base
  <1>1. /\ handle[h].off \in Nat /\ handle[h].used /\ ranges # Nil
        /\ Ranged => Last(ranges).off <= handle[h].off
    BY OpenHandle DEF VInv, Placed
  <1>2. Positions[h] = IF ranges = <<>> THEN handle[h].off
                       ELSE handle[h].off - Last(ranges).off
    BY <1>1 DEF Positions, Position
  <1>3. CASE ranges = <<>>
    BY <1>1, <1>2, <1>3 DEF Base
  <1>4. CASE ranges # <<>>
    <2>1. Ranged /\ Base = Last(ranges).off /\ Base \in Nat
      BY <1>1, <1>4, LastOfRanges DEF Base, Ranged, VInv, Ranges
    <2> QED BY <1>1, <1>2, <1>4, <2>1
  <1> QED BY <1>3, <1>4

LEMMA OpenIs ==
    ASSUME VInv, NEW h \in Handles, OpenFsFile(h) \/ OpenRanged(h)
    PROVE  File!Next
  <1>1. CASE OpenErr
    BY <1>1, LeaveIs DEF OpenErr
  <1>2. CASE last' = Result("Open", "EIO") /\ UNCHANGED <<file, ranges, handle>>
    BY <1>2, Deaf, Refusal
  <1>3. CASE OpenAt(h, Base) /\ ranges # Nil
    <2>1. Base \in Nat /\ Base = 0 + Base
      BY <1>3, LastOfRanges DEF Base, Ranged, VInv, Ranges
    <2>2. /\ last' = Result("Open", "nil") /\ UNCHANGED <<file, ranges>>
          /\ handle' = [handle EXCEPT ![h] =
                            [open |-> TRUE, used |-> TRUE, off |-> Base]]
      BY <1>3 DEF OpenAt
    <2>3. PICK off \in Nat : off = Base
      BY <2>1
    <2>4. Positions' = [Positions EXCEPT ![h] = 0]
      BY <1>3, <2>1, <2>2, <2>3, PositionMoves
    <2>5. File!Open(h)
      BY <2>2, <2>4, Deaf, Same DEF File!Open
    <2> QED BY <2>5 DEF File!Next
  <1>4. OpenFsFile(h) => OpenErr \/ (OpenAt(h, Base) /\ ranges # Nil)
    BY NilIsNoView DEF OpenFsFile, Base
  <1>5. OpenRanged(h) =>
            \/ OpenErr
            \/ last' = Result("Open", "EIO") /\ UNCHANGED <<file, ranges, handle>>
            \/ OpenAt(h, Base) /\ ranges # Nil
    BY DEF OpenRanged, Base, Ranged
  <1> QED BY <1>1, <1>2, <1>3, <1>4, <1>5

LEMMA ReadIs ==
    ASSUME VInv, NEW h \in Handles, Read(h)
    PROVE  File!Next
  <1>1. handle[h].open /\ UNCHANGED <<file, ranges, fds>>
    BY DEF Read
  <1>2. PICK n \in Bufs : \E g \in ViewRead(handle[h].off, n) :
            /\ Got("Read", g)
            /\ handle' = [handle EXCEPT ![h].off = @ + Len(g.bytes)]
    BY DEF Read
  <1>3. PICK g \in ViewRead(handle[h].off, n) :
            /\ Got("Read", g)
            /\ handle' = [handle EXCEPT ![h].off = @ + Len(g.bytes)]
    BY <1>2
  <1>4. n \in Nat
    BY ViewsAssumption
  <1>5. PICK base \in Nat, off \in Nat, q \in Nat :
            /\ base = Base /\ off = handle[h].off /\ q = Positions[h]
            /\ off = q + base
    BY <1>1, BaseOf
  <1>6. ranges # Nil /\ ranges \in Seq(Ranges) /\ file \in Files /\ handle[h].used
    BY <1>1, BaseOf DEF VInv, Types
  <1>7. PICK up : Ends(up)
    BY <1>6, EndsExist
  <1>8. PICK p : p = Starts[Len(ranges)] + q
    OBVIOUS
  <1>9. /\ g.err # "ErrOpNotSupported"
        /\ \/ Answers(g, p, n, Room(p, up[Len(ranges)]))
           \/ Part(g, p, n, Room(p, up[Len(ranges)]))
    <2>1. g \in ViewRead(q + Base, n)
      BY <1>3, <1>5
    <2> QED BY <1>4, <1>6, <1>7, <1>8, <2>1, ReadAnswers
  <1>10. Heard' = [bytes |-> g.bytes, err |-> g.err]
    <2>1. last'.op = "Read" /\ last'.bytes = g.bytes /\ last'.err = g.err
      BY <1>3 DEF Got
    <2>2. g.err \in {"nil", "EOF", "EIO"}
      BY <1>9 DEF Answers, Part
    <2> QED BY <2>1, <2>2 DEF Heard
  <1>11. File!Some(Positions[h], n)
    <2>1. File!Some(q, n)
      BY <1>4, <1>6, <1>7, <1>8, <1>9, <1>10, SomeRead
    <2> QED BY <1>5, <2>1, Zenon
  <1>12. Positions' = [Positions EXCEPT ![h] = @ + Len(Heard'.bytes)]
    <2>1. g.bytes \in Seq(Nat)
      BY <1>3, <1>4, <1>5, <1>6, ReadsOfView
    <2>2. PICK got \in Nat : got = Len(g.bytes)
      BY <2>1, LenProperties
    <2>3. PICK to \in Nat, there \in Nat :
            to = off + got /\ there = q + got /\ to = there + Base
      BY <1>5
    <2>4. handle' = [handle EXCEPT ![h].off = to]
      BY <1>3, <1>5, <2>2, <2>3
    <2>5. Positions' = [Positions EXCEPT ![h] = there]
      BY <1>1, <1>6, <2>3, <2>4, PositionMoves
    <2> QED BY <1>5, <1>10, <2>2, <2>3, <2>5
  <1>13. File!Read(h)
    BY <1>1, <1>11, <1>12, Same DEF File!Read
  <1> QED BY <1>13 DEF File!Next

LEMMA ReadAtIs ==
    ASSUME VInv, NEW h \in Handles, ReadAt(h)
    PROVE  File!Next
  <1>1. handle[h].open /\ UNCHANGED <<file, ranges, handle, fds>>
    BY DEF ReadAt
  <1>2. PICK n \in Bufs, o \in Offsets :
            \E g \in ViewReadAt(o, n) : Got("ReadAt", g)
    BY DEF ReadAt
  <1>3. PICK g \in ViewReadAt(o, n) : Got("ReadAt", g)
    BY <1>2
  <1>4. n \in Nat /\ o \in Int
    BY ViewsAssumption
  <1>5. ranges # Nil /\ ranges \in Seq(Ranges) /\ file \in Files
    BY <1>1, BaseOf DEF VInv, Types
  <1>6. PICK up : Ends(up)
    BY <1>5, EndsExist
  <1>7. PICK p : p = Starts[Len(ranges)] + o
    OBVIOUS
  <1>8. /\ o >= 0 => \/ g.err = "ErrOpNotSupported"
                     \/ Answers(g, p, n, Room(p, up[Len(ranges)]))
        /\ o < 0 => \/ g.err \in {"EINVAL", "ErrOpNotSupported"}
                    \/ g.err = "EOF" /\ g.bytes = <<>>
    BY <1>3, <1>4, <1>5, <1>6, <1>7, ReadAtAnswers
  <1>9. last'.op = "ReadAt" /\ last'.bytes = g.bytes /\ last'.err = g.err
    BY <1>3 DEF Got
  <1>10. UNCHANGED <<Contents, Said, Positions>>
    BY <1>1, Same, SamePositions
  <1>11. CASE g.err \in {"ErrOpNotSupported", "EINVAL"}
    <2>1. Heard' = File!Nothing
      BY <1>9, <1>11 DEF Heard, File!Nothing
    <2> QED BY <1>1, <2>1, Refusal
  <1>12. CASE o < 0 /\ g.err = "EOF" /\ g.bytes = <<>>
    <2>1. Heard' = [bytes |-> <<>>, err |-> "EOF"]
      BY <1>9, <1>12 DEF Heard
    <2>2. File!ReadAt
      BY <1>10, <1>12, <2>1 DEF File!ReadAt
    <2> QED BY <2>2 DEF File!Next
  <1>13. CASE /\ o >= 0 /\ g.err # "ErrOpNotSupported"
              /\ Answers(g, p, n, Room(p, up[Len(ranges)]))
    <2>1. g.err \in {"nil", "EOF", "EIO"}
      BY <1>13 DEF Answers
    <2>2. Heard' = [bytes |-> g.bytes, err |-> g.err]
      BY <1>9, <2>1 DEF Heard
    <2>3. PICK at \in Nat : at = o /\ p = Starts[Len(ranges)] + at
      BY <1>4, <1>7, <1>13
    <2>4. File!Full(at, n)
      BY <1>4, <1>5, <1>6, <1>13, <2>2, <2>3, FullRead
    <2>5. File!ReadAt
      BY <1>10, <1>13, <2>3, <2>4 DEF File!ReadAt
    <2> QED BY <2>5 DEF File!Next
  <1> QED BY <1>4, <1>8, <1>11, <1>12, <1>13

LEMMA SeekIs ==
    ASSUME VInv, NEW h \in Handles, Seek(h)
    PROVE  File!Next
  <1>1. handle[h].open
    BY DEF Seek
  <1>2. PICK base \in Nat, off \in Nat, q \in Nat :
            /\ base = Base /\ off = handle[h].off /\ q = Positions[h]
            /\ off = q + base
    BY <1>1, BaseOf
  <1>3. ranges # Nil /\ handle[h].used
    BY <1>1, BaseOf
  <1>4. CASE Leave("Seek", "ErrOpNotSupported")
    BY <1>4, LeaveIs
  <1>5. ASSUME NEW d \in Offsets, NEW from \in SeekFrom(h),
               IF from + d < base \/ from + d > Int64Max THEN Leave("Seek", "EINVAL")
               ELSE /\ from + d <= base + MaxOff
                    /\ handle' = [handle EXCEPT ![h].off = from + d]
                    /\ last' = Result("Seek", "nil")
                    /\ UNCHANGED <<file, ranges, fds>>
        PROVE  File!Next
    <2>1. CASE from + d < base \/ from + d > Int64Max
      BY <1>5, <2>1, LeaveIs
    <2>2. CASE ~(from + d < base \/ from + d > Int64Max)
      <3>1. PICK way \in {0, q, Said} : from = way + base /\ way \in Int
        <4>1. CASE ranges = <<>>
          <5>1. base = 0 /\ Said = file.len /\ from \in {0, off, file.len}
            BY <1>2, <1>3, <1>5, <4>1 DEF Base, Said, HandleSize, SeekFrom
          <5>2. file.len \in Nat
            BY LenOfFile DEF VInv, Types
          <5> QED BY <1>2, <5>1, <5>2
        <4>2. CASE ranges # <<>>
          <5>1. PICK r \in Ranges : r = Last(ranges)
            BY <1>3, <4>2, LastOfRanges DEF VInv, Ranged
          <5>2. PICK size \in Nat : size = SectionSize(r) /\ Limit(r) = r.off + size
            BY SectionSizeType
          <5>3. base = r.off /\ Said = size /\ from \in {base, off, r.off + size}
            BY <1>2, <1>3, <1>5, <4>2, <5>1, <5>2 DEF Base, Said, HandleSize, SeekFrom
          <5> QED BY <1>2, <5>3
        <4> QED BY <4>1, <4>2
      <3>2. d \in Int
        BY ViewsAssumption
      <3>3. PICK to \in Nat, there \in Nat :
                to = from + d /\ there = way + d /\ to = there + base
        BY <2>2, <3>1, <3>2
      <3>4. /\ handle' = [handle EXCEPT ![h].off = to]
            /\ last' = Result("Seek", "nil")
            /\ UNCHANGED <<file, ranges, fds>>
        BY <1>5, <2>2, <3>3
      <3>5. Positions' = [Positions EXCEPT ![h] = there]
        BY <1>2, <1>3, <3>3, <3>4, PositionMoves
      <3>6. way \in {0, Positions[h], Said} /\ way + d >= 0
        BY <1>2, <3>1, <3>3
      <3>7. File!Seek(h)
        <4>1. Heard' = File!Nothing /\ UNCHANGED <<Contents, Said>>
          BY <3>4, Deaf, Same
        <4>2. Positions' = [Positions EXCEPT ![h] = way + d]
          BY <3>3, <3>5, Zenon
        <4> HIDE DEF File!Nothing
        <4> QED BY <3>6, <4>1, <4>2, Zenon DEF File!Seek
      <3> QED BY <3>7 DEF File!Next
    <2> QED BY <2>1, <2>2
  <1> QED BY <1>2, <1>4, <1>5 DEF Seek, Base

LEMMA StepIs == VInv /\ VInv' /\ [Next]_vars => [File!Next]_(File!viewVars)
  <1> SUFFICES ASSUME VInv, VInv', [Next]_vars
               PROVE  File!Next \/ UNCHANGED File!viewVars
    OBVIOUS
  <1>1. CASE NewFsFileView \/ NewRanged \/ Resize
    BY <1>1, MadeIs
  <1>2. ASSUME NEW h \in Handles, OpenFsFile(h) \/ OpenRanged(h) \/ Read(h)
                                  \/ ReadAt(h) \/ Seek(h)
        PROVE  File!Next
    BY <1>2, OpenIs, ReadIs, ReadAtIs, SeekIs
  <1>3. ASSUME NEW h \in Handles, WriteFsFile(h) \/ WriteRanged(h)
        PROVE  File!Next
    BY <1>3, LeaveIs DEF WriteFsFile, WriteRanged
  <1>4. ASSUME NEW h \in Handles, Close(h)
        PROVE  File!Next
    <2>1. /\ last' = Result("Close", "nil") /\ UNCHANGED <<file, ranges>>
          /\ handle' = [handle EXCEPT ![h].open = FALSE]
      BY <1>4 DEF Close
    <2>2. UNCHANGED Positions
      <3>1. handle \in [Handles -> [open : BOOLEAN, used : BOOLEAN, off : Nat]]
        BY DEF VInv, Types
      <3>2. \A i \in Handles : /\ handle'[i].used = handle[i].used
                               /\ handle'[i].off = handle[i].off
        BY <2>1, <3>1
      <3> QED BY <2>1, <3>2 DEF Positions, Position
    <2> QED BY <2>1, <2>2, Deaf, ChangeIs
  <1>5. CASE UNCHANGED vars
    <2>1. UNCHANGED <<file, ranges, handle, last>>
      BY <1>5 DEF vars
    <2>2. UNCHANGED <<Contents, Said, Positions>>
      BY <2>1, Same, SamePositions
    <2>3. Heard' = Heard
      BY <2>1 DEF Heard
    <2> QED BY <2>2, <2>3 DEF File!viewVars
  <1> QED BY <1>1, <1>2, <1>3, <1>4, <1>5 DEF Next

LEMMA InitIs == Init => File!Init
  <1> SUFFICES ASSUME Init PROVE File!Init
    OBVIOUS
  <1>1. Contents \in Seq(Nat) /\ Said \in Nat
    BY InitVInv, FileTypes
  <1>2. Positions = [h \in Handles |-> 0]
    BY DEF Init, Positions, Position
  <1>3. Heard = File!Nothing
    BY DEF Init, Result, Heard, File!Nothing
  <1> QED BY <1>1, <1>2, <1>3 DEF File!Init

(***************************************************************************)
(* A view, a range of it, a range of that and so on read and seek as the   *)
(* bytes of the file that lie in every range do (ReadOnlyFile), whatever   *)
(* the length of the file, the ranges and the buffers are                  *)
(* (impl_fslink.go, sectionFile and io.SectionReader).                     *)
(***************************************************************************)
THEOREM ViewImplements == Spec => Implements
  <1>1. VInv /\ [Next]_vars => VInv' /\ [File!Next]_(File!viewVars)
    BY StepVInv, StepIs
  <1>2. Init => VInv /\ File!Init
    BY InitVInv, InitIs
  <1> QED BY <1>1, <1>2, PTL DEF Spec, Implements, File!Spec
=============================================================================
