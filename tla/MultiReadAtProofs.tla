------------------------- MODULE MultiReadAtProofs --------------------------
(***************************************************************************)
(* What MultiRead.cfg checks of multiReadAtSeekCloser, for every list of   *)
(* readers, every buffer and every offset.                                 *)
(*                                                                         *)
(* The sums of NewMultiReadAtSeekCloser and the loop of the binary search  *)
(* are recursive functions.  That they are defined and what they compute   *)
(* is proved by taking the least input for which it were not so (Least).   *)
(***************************************************************************)
EXTENDS MultiReadAt, SequenceTheorems, WellFoundedInduction, TLAPS

\* the order of Nat as a set of pairs
Less == {p \in Nat \X Nat : p[1] < p[2]}

\* A set of naturals has a least element.
LEMMA Least ==
    ASSUME NEW T \in SUBSET Nat, T # {}
    PROVE  \E x \in T : \A y \in T : x <= y
<1>1. IsWellFoundedOn(Less, Nat)
    BY NatLessThanWellFounded DEF OpToRel, Less
<1>2. PICK x \in T : \A y \in T : ~(<<y, x>> \in Less)
  <2> HIDE DEF Less
  <2> QED BY <1>1, WFMin
<1>3. x \in Nat
    OBVIOUS
<1>4. ASSUME NEW y \in T PROVE x <= y
  <2>1. y \in Nat
    OBVIOUS
  <2>2. ~(<<y, x>> \in Less)
    BY <1>2
  <2> QED BY <1>3, <2>1, <2>2 DEF Less
<1> QED BY <1>3, <1>4

\* Induction: what holds of 0 and of the next number holds of every number.
LEMMA Induct ==
    ASSUME NEW S, 0 \in S, \A n \in Nat : n \in S => n + 1 \in S
    PROVE  Nat \subseteq S
<1> DEFINE T == {n \in Nat : n \notin S}
<1>1. SUFFICES ASSUME T # {} PROVE FALSE
    OBVIOUS
<1>2. PICK x \in T : \A y \in T : x <= y
    BY <1>1, Least
<1>3. x \in Nat /\ x # 0 /\ x - 1 \in Nat
    OBVIOUS
<1>4. x - 1 \in S
    BY <1>2, <1>3
<1> QED BY <1>3, <1>4

-----------------------------------------------------------------------------
(***************************************************************************)
(* The sums.                                                               *)
(***************************************************************************)
\* g is right up to n
SumsUpTo(list, g, n) ==
    /\ g \in [0..Len(list) -> Nat]
    /\ \A i \in 0..n : g[i] = IF i = 0 THEN 0 ELSE g[i - 1] + list[i].size

List == Seq([size : Nat, len : Nat])

LEMMA SumsExist ==
    ASSUME NEW list \in List
    PROVE  \E g : SumsUpTo(list, g, Len(list))
<1> DEFINE S == {n \in Nat : n <= Len(list) => \E g : SumsUpTo(list, g, n)}
<1>0. Len(list) \in Nat
    BY DEF List
<1>1. 0 \in S
  <2>1. SumsUpTo(list, [i \in 0..Len(list) |-> 0], 0)
      BY <1>0 DEF SumsUpTo
  <2> QED BY <2>1
<1>2. ASSUME NEW n \in Nat, n \in S PROVE n + 1 \in S
  <2>1. SUFFICES ASSUME n + 1 <= Len(list)
                 PROVE  \E g : SumsUpTo(list, g, n + 1)
      OBVIOUS
  <2>2. PICK g : SumsUpTo(list, g, n)
      BY <1>0, <1>2, <2>1
  <2> DEFINE h == [i \in 0..Len(list) |->
                     IF i = n + 1 THEN g[n] + list[n + 1].size ELSE g[i]]
  <2>3. n + 1 \in 1..Len(list) /\ list[n + 1].size \in Nat
    <3>1. n + 1 \in 1..Len(list)
        BY <1>0, <2>1
    <3>2. list[n + 1] \in [size : Nat, len : Nat]
        BY <3>1, ElementOfSeq DEF List
    <3> QED BY <3>1, <3>2
  <2>4. h \in [0..Len(list) -> Nat]
    <3>1. ASSUME NEW i \in 0..Len(list) PROVE h[i] \in Nat
      <4>1. g[i] \in Nat /\ g[n] \in Nat
          BY <1>0, <2>1, <2>2 DEF SumsUpTo
      <4> QED BY <2>3, <4>1
    <3> QED BY <3>1
  <2>5. ASSUME NEW i \in 0..(n + 1)
        PROVE  h[i] = IF i = 0 THEN 0 ELSE h[i - 1] + list[i].size
    <3>1. CASE i = n + 1
        BY <3>1, <1>0, <2>1
    <3>2. CASE i # n + 1
      <4>1. i \in 0..n /\ i \in 0..Len(list) /\ i - 1 # n + 1
          BY <3>2, <1>0, <2>1
      <4>2. i # 0 => i - 1 \in 0..Len(list)
          BY <4>1, <1>0
      <4>3. h[i] = g[i] /\ (i # 0 => h[i - 1] = g[i - 1])
          BY <4>1, <4>2, <3>2
      <4> QED BY <4>1, <4>3, <2>2 DEF SumsUpTo
    <3> QED BY <3>1, <3>2
  <2> HIDE DEF h
  <2>6. SumsUpTo(list, h, n + 1)
      BY <2>4, <2>5 DEF SumsUpTo
  <2> QED BY <2>6
<1>3. Nat \subseteq S
  <2> HIDE DEF S
  <2> QED BY <1>1, <1>2, Induct
<1> QED BY <1>0, <1>3

\* Accum adds up the sizes of the first readers.
LEMMA AccumSums ==
    ASSUME NEW list \in List
    PROVE  SumsUpTo(list, Accum(list), Len(list))
<1>0. Len(list) \in Nat
    BY DEF List
<1>1. PICK g : SumsUpTo(list, g, Len(list))
    BY SumsExist
<1>2. g = [i \in 0..Len(list) |->
             IF i = 0 THEN 0 ELSE g[i - 1] + list[i].size]
    BY <1>1 DEF SumsUpTo
<1>3. Accum(list) = [i \in 0..Len(list) |->
             IF i = 0 THEN 0 ELSE Accum(list)[i - 1] + list[i].size]
    BY <1>2 DEF Accum
<1> DEFINE S == {n \in Nat : n <= Len(list) => Accum(list)[n] \in Nat}
<1>4. 0 \in S
    BY <1>0, <1>3
<1>5. ASSUME NEW n \in Nat, n \in S PROVE n + 1 \in S
  <2>1. SUFFICES ASSUME n + 1 <= Len(list)
                 PROVE  Accum(list)[n + 1] \in Nat
      OBVIOUS
  <2>2. n + 1 \in 1..Len(list) /\ n + 1 \in 0..Len(list) /\ n + 1 # 0
      BY <1>0, <2>1
  <2>3. list[n + 1] \in [size : Nat, len : Nat]
      BY <2>2, ElementOfSeq DEF List
  <2>4. Accum(list)[n] \in Nat
      BY <1>0, <1>5, <2>1
  <2>5. Accum(list)[n + 1] = Accum(list)[n] + list[n + 1].size
    <3>1. (n + 1) - 1 = n
        OBVIOUS
    <3> QED BY <1>3, <2>2, <3>1
  <2> QED BY <2>3, <2>4, <2>5
<1>6. Nat \subseteq S
  <2> HIDE DEF S
  <2> QED BY <1>4, <1>5, Induct
<1>7. Accum(list) \in [0..Len(list) -> Nat]
  <2>1. ASSUME NEW i \in 0..Len(list) PROVE Accum(list)[i] \in Nat
      BY <1>0, <1>6
  <2> QED BY <1>3, <2>1
<1> QED BY <1>3, <1>7 DEF SumsUpTo

-----------------------------------------------------------------------------
(***************************************************************************)
(* The invariant.  The readers lie one after the other and are never       *)
(* changed; idx has not passed the reader of off; what ReadAt has left to  *)
(* fill lies before the upper limit.                                       *)
(***************************************************************************)
Shape ==
    /\ readers # <<>> => HeadOff(0) = 0
    /\ \A i \in Indices :
          i # 0 => HeadOff(i) = HeadOff(i - 1) + Size(i - 1)

Placed == off < UpperLimit => idx < Len(readers) /\ HeadOff(idx) <= off

Filling ==
    call.pc = "loop" =>
        /\ call.op = "ReadAt" /\ call.err = "nil" /\ call.start \in Nat
        /\ call.start + Len(call.bytes) + call.left <= UpperLimit
        /\ call.cut =>
              call.start + Len(call.bytes) + call.left = UpperLimit

MInv == TypeOK /\ Shape /\ Placed /\ Filling /\ BytesInPlace /\ ErrorTells

Laid == readers \in Seq([size : Nat, len : Nat, headOff : Nat]) /\ Shape

\* What the lemmas below take from the type of the readers.
LEMMA ReaderTypes ==
    ASSUME Laid
    PROVE  /\ Len(readers) \in Nat
           /\ \A i \in Indices : /\ i \in Nat /\ i < Len(readers)
                                 /\ i + 1 \in 1..Len(readers)
                                 /\ HeadOff(i) \in Nat /\ Size(i) \in Nat
                                 /\ readers[i + 1].len \in Nat
           /\ \A i \in Nat : i < Len(readers) => i \in Indices
           /\ UpperLimit \in Nat
           /\ Len(readers) = 0 => UpperLimit = 0
           /\ Len(readers) # 0 =>
                /\ Len(readers) - 1 \in Indices
                /\ UpperLimit = HeadOff(Len(readers) - 1) + Size(Len(readers) - 1)
<1>1. Len(readers) \in Nat
    BY DEF Laid
<1>2. ASSUME NEW i \in Indices
      PROVE  /\ i \in Nat /\ i < Len(readers) /\ i + 1 \in 1..Len(readers)
             /\ HeadOff(i) \in Nat /\ Size(i) \in Nat
             /\ readers[i + 1].len \in Nat
  <2>1. i \in Nat /\ i < Len(readers) /\ i + 1 \in 1..Len(readers)
      BY <1>1 DEF Indices
  <2>2. readers[i + 1] \in [size : Nat, len : Nat, headOff : Nat]
      BY <2>1, ElementOfSeq DEF Laid
  <2> QED BY <2>1, <2>2 DEF HeadOff, Size
<1>3. \A i \in Nat : i < Len(readers) => i \in Indices
    BY <1>1 DEF Indices
<1>4. (Len(readers) = 0) <=> (readers = <<>>)
    BY EmptySeq DEF Laid
<1>5. Len(readers) # 0 => Len(readers) - 1 \in Indices
    BY <1>1 DEF Indices
<1>6. UpperLimit = IF Len(readers) = 0 THEN 0
                   ELSE HeadOff(Len(readers) - 1) + Size(Len(readers) - 1)
    BY <1>4 DEF UpperLimit
<1>7. UpperLimit \in Nat
  <2>1. CASE Len(readers) = 0
      BY <2>1, <1>6
  <2>2. CASE Len(readers) # 0
    <3>1. HeadOff(Len(readers) - 1) \in Nat /\ Size(Len(readers) - 1) \in Nat
        BY <2>2, <1>2, <1>5
    <3> QED BY <2>2, <3>1, <1>6
  <2> QED BY <2>1, <2>2
<1> QED BY <1>1, <1>2, <1>3, <1>5, <1>6, <1>7

\* A reader ends where a later one starts, or before.
LEMMA HeadsGrow ==
    ASSUME Laid, NEW i \in Indices, NEW j \in Indices, i < j
    PROVE  HeadOff(i) + Size(i) <= HeadOff(j)
<1> DEFINE T == {k \in Nat : /\ k \in Indices /\ i < k
                             /\ ~(HeadOff(i) + Size(i) <= HeadOff(k))}
<1>1. SUFFICES ASSUME T # {} PROVE FALSE
    BY ReaderTypes
<1>2. PICK k \in T : \A m \in T : k <= m
  <2>1. T \in SUBSET Nat
      OBVIOUS
  <2> HIDE DEF T
  <2> QED BY <1>1, <2>1, Least
<1>3. /\ i \in Nat /\ k \in Nat /\ k \in Indices /\ i < k
      /\ HeadOff(i) \in Nat /\ Size(i) \in Nat /\ HeadOff(k) \in Nat
      /\ ~(HeadOff(i) + Size(i) <= HeadOff(k))
    BY ReaderTypes
<1>4. k - 1 \in Indices /\ k # 0
    BY <1>3, ReaderTypes DEF Indices
<1>5. HeadOff(k - 1) \in Nat /\ Size(k - 1) \in Nat
    BY <1>4, ReaderTypes
<1>6. HeadOff(k) = HeadOff(k - 1) + Size(k - 1)
    BY <1>3, <1>4 DEF Laid, Shape
<1>7. CASE k - 1 = i
    BY <1>3, <1>6, <1>7
<1>8. CASE k - 1 # i
  <2>1. i < k - 1 /\ k - 1 \in Nat
      BY <1>3, <1>8
  <2>2. HeadOff(i) + Size(i) <= HeadOff(k - 1)
    <3>1. SUFFICES ASSUME k - 1 \in T PROVE FALSE
        BY <1>4, <2>1
    <3>2. k <= k - 1
        BY <1>2, <3>1
    <3> QED BY <1>3, <3>2
  <2> QED BY <1>3, <1>5, <1>6, <2>2
<1> QED BY <1>7, <1>8

\* A reader ends at the upper limit or before.
LEMMA EndsWithin ==
    ASSUME Laid, NEW i \in Indices
    PROVE  HeadOff(i) + Size(i) <= UpperLimit
<1>1. /\ Len(readers) \in Nat /\ i \in Nat /\ i < Len(readers)
      /\ HeadOff(i) \in Nat /\ Size(i) \in Nat
    BY ReaderTypes
<1>2. PICK last : last = Len(readers) - 1
    OBVIOUS
<1>3. /\ last \in Indices /\ UpperLimit = HeadOff(last) + Size(last)
      /\ HeadOff(last) \in Nat /\ Size(last) \in Nat /\ last \in Nat
    BY <1>1, <1>2, ReaderTypes
<1>4. CASE i = last
    BY <1>3, <1>4
<1>5. CASE i # last
  <2>1. i < last
      BY <1>1, <1>2, <1>5
  <2>2. HeadOff(i) + Size(i) <= HeadOff(last)
      BY <1>3, <2>1, HeadsGrow
  <2> QED BY <1>1, <1>3, <2>2
<1> QED BY <1>4, <1>5

\* Every offset before the upper limit is in one reader.
LEMMA HolderExists ==
    ASSUME Laid, NEW o \in Nat, o < UpperLimit
    PROVE  \E i \in Indices : Holds(i, o)
<1> DEFINE T == {i \in Nat : i \in Indices /\ o < HeadOff(i) + Size(i)}
<1>1. Len(readers) # 0
    BY ReaderTypes
<1>2. T \in SUBSET Nat /\ T # {}
  <2>1. PICK last : last = Len(readers) - 1
      OBVIOUS
  <2>2. /\ last \in Indices /\ last \in Nat
        /\ UpperLimit = HeadOff(last) + Size(last)
      BY <1>1, <2>1, ReaderTypes
  <2> QED BY <2>2
<1>3. PICK i \in T : \A m \in T : i <= m
  <2> HIDE DEF T
  <2> QED BY <1>2, Least
<1>4. i \in Nat /\ i \in Indices /\ o < HeadOff(i) + Size(i)
    OBVIOUS
<1>5. HeadOff(i) \in Nat
    BY <1>4, ReaderTypes
<1>6. HeadOff(i) <= o
  <2>1. CASE i = 0
    <3>1. readers # <<>>
        BY <1>1 DEF Laid
    <3> QED BY <2>1, <3>1 DEF Laid, Shape
  <2>2. CASE i # 0
    <3>1. i - 1 \in Indices /\ i - 1 \in Nat
        BY <1>4, <2>2, ReaderTypes DEF Indices
    <3>2. HeadOff(i) = HeadOff(i - 1) + Size(i - 1)
        BY <1>4, <2>2 DEF Laid, Shape
    <3>3. i - 1 \notin T
        BY <1>3, <1>4
    <3>4. ~(o < HeadOff(i - 1) + Size(i - 1))
        BY <3>1, <3>3
    <3>5. HeadOff(i - 1) \in Nat /\ Size(i - 1) \in Nat
        BY <3>1, ReaderTypes
    <3> QED BY <1>5, <3>2, <3>4, <3>5
  <2> QED BY <2>1, <2>2
<1> QED BY <1>4, <1>6 DEF Holds

\* No other reader holds it.
LEMMA HolderUnique ==
    ASSUME Laid, NEW o \in Nat, NEW i \in Indices, NEW j \in Indices,
           Holds(i, o), Holds(j, o)
    PROVE  i = j
<1>1. /\ i \in Nat /\ j \in Nat /\ HeadOff(i) \in Nat /\ Size(i) \in Nat
      /\ HeadOff(j) \in Nat /\ Size(j) \in Nat
    BY ReaderTypes
<1>2. ~(i < j)
    BY <1>1, HeadsGrow DEF Holds
<1>3. ~(j < i)
    BY <1>1, HeadsGrow DEF Holds
<1> QED BY <1>1, <1>2, <1>3

\* A reader that holds an offset from idx on when idx does not start after it.
LEMMA HolderFrom ==
    ASSUME Laid, NEW o \in Nat, NEW k \in Indices, HeadOff(k) <= o,
           NEW i \in Indices, Holds(i, o)
    PROVE  k <= i
<1>1. /\ i \in Nat /\ k \in Nat /\ HeadOff(i) \in Nat /\ Size(i) \in Nat
      /\ HeadOff(k) \in Nat
    BY ReaderTypes
<1>2. SUFFICES ASSUME i < k PROVE FALSE
    BY <1>1
<1>3. HeadOff(i) + Size(i) <= HeadOff(k)
    BY <1>2, HeadsGrow
<1> QED BY <1>1, <1>3 DEF Holds

-----------------------------------------------------------------------------
(***************************************************************************)
(* The searches.                                                           *)
(***************************************************************************)
\* The linear search finds the reader that holds the offset.
LEMMA LinearFinds ==
    ASSUME Laid, NEW o \in Nat, NEW k \in Nat,
           NEW i \in Indices, Holds(i, o), k <= i
    PROVE  LinearSearch(o, k) = i - k
<1> DEFINE found == {j \in Indices : j >= k /\ Holds(j, o)}
<1>1. found = {i}
  <2>1. \A j \in Indices : j >= k /\ Holds(j, o) => j = i
      BY HolderUnique
  <2>2. i >= k
      BY ReaderTypes
  <2> QED BY <2>1, <2>2
<1>2. i \in Nat
    BY ReaderTypes
<1>3. (CHOOSE j \in {i} : \A m \in {i} : j <= m) = i
    BY <1>2
<1> QED BY <1>1, <1>3 DEF LinearSearch

\* It says -1 when none does.
LEMMA LinearMisses ==
    ASSUME Laid, NEW o \in Nat, NEW k \in Nat,
           \A i \in Indices : k <= i => ~Holds(i, o)
    PROVE  LinearSearch(o, k) = -1
<1>1. {j \in Indices : j >= k /\ Holds(j, o)} = {}
    BY ReaderTypes
<1> QED BY <1>1 DEF LinearSearch

\* one round of the loop, with g for what the rounds after it find
Halved(o, lo, hi, g) ==
    [w \in (lo..hi) \X (lo..hi) |->
        LET mid == (w[1] + w[2]) \div 2 IN
        IF w[1] >= w[2] THEN w[1]
        ELSE IF Compare(mid, o) < 0 THEN g[<<mid + 1, w[2]>>]
        ELSE g[<<w[1], mid>>]]

\* g is right for the windows of no more than n readers
HalvesUpTo(o, lo, hi, g, n) ==
    \A w \in (lo..hi) \X (lo..hi) :
        w[2] - w[1] <= n => g[w] = Halved(o, lo, hi, g)[w]

\* The middle of a window, and the two windows it leaves.
LEMMA Middle ==
    ASSUME NEW lo \in Nat, NEW hi \in Nat,
           NEW w \in (lo..hi) \X (lo..hi), w[1] < w[2],
           NEW mid, mid = (w[1] + w[2]) \div 2
    PROVE  /\ mid \in Nat /\ w[1] <= mid /\ mid < w[2]
           /\ <<mid + 1, w[2]>> \in (lo..hi) \X (lo..hi)
           /\ <<w[1], mid>> \in (lo..hi) \X (lo..hi)
<1>1. w[1] \in lo..hi /\ w[2] \in lo..hi
    OBVIOUS
<1>2. mid \in Nat /\ w[1] <= mid /\ mid < w[2]
    BY <1>1
<1> QED BY <1>1, <1>2

\* what a round is in each of its cases
RoundIs(o, g, w, found) ==
    \A mid : mid = (w[1] + w[2]) \div 2 =>
        /\ w[1] >= w[2] => found = w[1]
        /\ ~(w[1] >= w[2]) /\ Compare(mid, o) < 0 =>
              found = g[<<mid + 1, w[2]>>]
        /\ ~(w[1] >= w[2]) /\ ~(Compare(mid, o) < 0) =>
              found = g[<<w[1], mid>>]

\* A round of the loop.
LEMMA Round ==
    ASSUME NEW o, NEW lo, NEW hi, NEW g, NEW w \in (lo..hi) \X (lo..hi)
    PROVE  RoundIs(o, g, w, Halved(o, lo, hi, g)[w])
    BY DEF Halved, RoundIs

\* The loop ends: what the rounds find is defined.
LEMMA BisectExists ==
    ASSUME NEW o, NEW lo \in Nat, NEW hi \in Nat
    PROVE  \E g : g = Halved(o, lo, hi, g)
<1> DEFINE W == (lo..hi) \X (lo..hi)
           S == {n \in Nat : \E g : HalvesUpTo(o, lo, hi, g, n)}
<1>1. 0 \in S
  <2> DEFINE g == [w \in W |-> w[1]]
  <2>1. ASSUME NEW w \in W, w[2] - w[1] <= 0
        PROVE  g[w] = Halved(o, lo, hi, g)[w]
    <3>1. w[1] \in lo..hi /\ w[2] \in lo..hi
        OBVIOUS
    <3>2. w[1] >= w[2]
        BY <2>1, <3>1
    <3>3. Halved(o, lo, hi, g)[w] = w[1]
      <4> HIDE DEF g
      <4>1. RoundIs(o, g, w, Halved(o, lo, hi, g)[w])
          BY Round
      <4> QED BY <3>2, <4>1 DEF RoundIs
    <3> QED BY <3>3
  <2> HIDE DEF g
  <2>2. HalvesUpTo(o, lo, hi, g, 0)
      BY <2>1 DEF HalvesUpTo
  <2> QED BY <2>2
<1>2. ASSUME NEW n \in Nat, n \in S PROVE n + 1 \in S
  <2>1. PICK g : HalvesUpTo(o, lo, hi, g, n)
      BY <1>2
  <2>2. PICK h : h = Halved(o, lo, hi, g)
      OBVIOUS
  <2>3. ASSUME NEW w \in W, w[2] - w[1] <= n + 1
        PROVE  h[w] = Halved(o, lo, hi, h)[w]
    <3>1. w[1] \in lo..hi /\ w[2] \in lo..hi
        OBVIOUS
    <3>2. PICK mid : mid = (w[1] + w[2]) \div 2
        OBVIOUS
    <3>3. RoundIs(o, g, w, h[w])
        BY <2>2, Round
    <3>4. RoundIs(o, h, w, Halved(o, lo, hi, h)[w])
        BY Round
    <3>5. CASE w[1] >= w[2]
        BY <3>2, <3>5, <3>3, <3>4 DEF RoundIs
    <3>6. CASE w[1] < w[2]
      <4>1. PICK a : a = <<mid + 1, w[2]>>
          OBVIOUS
      <4>2. PICK b : b = <<w[1], mid>>
          OBVIOUS
      <4>3. /\ mid \in Nat /\ w[1] <= mid /\ mid < w[2]
            /\ a \in W /\ b \in W
          BY <3>2, <3>6, <4>1, <4>2, Middle
      <4>4. a[2] - a[1] <= n /\ b[2] - b[1] <= n
          BY <2>3, <3>1, <4>1, <4>2, <4>3
      <4>5. g[a] = h[a] /\ g[b] = h[b]
          BY <2>1, <2>2, <4>3, <4>4 DEF HalvesUpTo
      <4>6. ~(w[1] >= w[2])
          BY <3>1, <3>6
      <4>7. CASE Compare(mid, o) < 0
        <5>1. h[w] = g[a] /\ Halved(o, lo, hi, h)[w] = h[a]
            BY <3>2, <3>3, <3>4, <4>1, <4>6, <4>7 DEF RoundIs
        <5> QED BY <4>5, <5>1
      <4>8. CASE ~(Compare(mid, o) < 0)
        <5>1. h[w] = g[b] /\ Halved(o, lo, hi, h)[w] = h[b]
            BY <3>2, <3>3, <3>4, <4>2, <4>6, <4>8 DEF RoundIs
        <5> QED BY <4>5, <5>1
      <4> QED BY <4>7, <4>8
    <3> QED BY <3>1, <3>5, <3>6
  <2>4. HalvesUpTo(o, lo, hi, h, n + 1)
      BY <2>3 DEF HalvesUpTo
  <2> QED BY <2>4
<1>3. hi \in S
  <2>1. Nat \subseteq S
    <3> HIDE DEF S
    <3> QED BY <1>1, <1>2, Induct
  <2> QED BY <2>1
<1>4. PICK g : HalvesUpTo(o, lo, hi, g, hi)
    BY <1>3
<1>5. PICK h : h = Halved(o, lo, hi, g)
    OBVIOUS
<1>6. ASSUME NEW w \in W PROVE g[w] = h[w]
  <2>1. w[1] \in lo..hi /\ w[2] \in lo..hi
      OBVIOUS
  <2>2. w[2] - w[1] <= hi
      BY <2>1
  <2> QED BY <1>4, <1>5, <2>2 DEF HalvesUpTo
<1>7. h = Halved(o, lo, hi, h)
  <2>1. ASSUME NEW w \in W PROVE h[w] = Halved(o, lo, hi, h)[w]
    <3>1. w[1] \in lo..hi /\ w[2] \in lo..hi
        OBVIOUS
    <3>2. PICK mid : mid = (w[1] + w[2]) \div 2
        OBVIOUS
    <3>3. RoundIs(o, g, w, h[w])
        BY <1>5, Round
    <3>4. RoundIs(o, h, w, Halved(o, lo, hi, h)[w])
        BY Round
    <3>5. CASE w[1] >= w[2]
        BY <3>2, <3>5, <3>3, <3>4 DEF RoundIs
    <3>6. CASE w[1] < w[2]
      <4>1. <<mid + 1, w[2]>> \in W /\ <<w[1], mid>> \in W
          BY <3>2, <3>6, Middle
      <4>2. ~(w[1] >= w[2])
          BY <3>1, <3>6
      <4>3. /\ g[<<mid + 1, w[2]>>] = h[<<mid + 1, w[2]>>]
            /\ g[<<w[1], mid>>] = h[<<w[1], mid>>]
          BY <1>6, <4>1
      <4> QED BY <3>2, <3>3, <3>4, <4>2, <4>3 DEF RoundIs
    <3> QED BY <3>1, <3>5, <3>6
  <2>2. /\ h = [w \in W |-> h[w]]
        /\ Halved(o, lo, hi, h) = [w \in W |-> Halved(o, lo, hi, h)[w]]
      BY <1>5 DEF Halved
  <2> QED BY <2>1, <2>2
<1> QED BY <1>7

\* So Bisect is what its rounds find.
LEMMA BisectHalves ==
    ASSUME NEW o, NEW lo \in Nat, NEW hi \in Nat
    PROVE  Bisect(o, lo, hi) = Halved(o, lo, hi, Bisect(o, lo, hi))
<1>1. PICK g : g = Halved(o, lo, hi, g)
    BY BisectExists
<1>2. g = [w \in (lo..hi) \X (lo..hi) |->
            LET mid == (w[1] + w[2]) \div 2 IN
            IF w[1] >= w[2] THEN w[1]
            ELSE IF Compare(mid, o) < 0 THEN g[<<mid + 1, w[2]>>]
            ELSE g[<<w[1], mid>>]]
    BY <1>1 DEF Halved
<1> QED BY <1>2 DEF Bisect, Halved

\* f finds in w the first reader that is not before o
FindsFirst(o, f, w) ==
    /\ f[w] \in w[1]..w[2]
    /\ \A i \in w[1]..(w[2] - 1) : (Compare(i, o) < 0) <=> (i < f[w])

\* The loop finds the first reader not before o when those before it are the
\* ones it would sort first.
LEMMA BisectFinds ==
    ASSUME NEW o, NEW lo \in Nat, NEW hi \in Nat, lo <= hi,
           \A i \in lo..(hi - 1), j \in lo..(hi - 1) :
              i <= j /\ Compare(j, o) < 0 => Compare(i, o) < 0
    PROVE  FindsFirst(o, Bisect(o, lo, hi), <<lo, hi>>)
<1>1. PICK f : f = Bisect(o, lo, hi)
    OBVIOUS
<1>2. f = Halved(o, lo, hi, f)
    BY <1>1, BisectHalves
<1> DEFINE W == (lo..hi) \X (lo..hi)
           S == {n \in Nat : \A w \in W :
                    w[1] <= w[2] /\ w[2] - w[1] <= n => FindsFirst(o, f, w)}
<1>3. ASSUME NEW w \in W, w[1] >= w[2], w[1] <= w[2]
      PROVE  FindsFirst(o, f, w)
  <2>1. w[1] \in lo..hi /\ w[2] \in lo..hi
      OBVIOUS
  <2>2. f[w] = w[1]
    <3>1. RoundIs(o, f, w, f[w])
        BY <1>2, Round
    <3> QED BY <1>3, <3>1 DEF RoundIs
  <2>3. w[1] \in Nat /\ w[2] = w[1]
      BY <1>3, <2>1
  <2> QED BY <2>2, <2>3 DEF FindsFirst
<1>4. 0 \in S
  <2>1. ASSUME NEW w \in W, w[1] <= w[2], w[2] - w[1] <= 0
        PROVE  FindsFirst(o, f, w)
    <3>1. w[1] \in lo..hi /\ w[2] \in lo..hi
        OBVIOUS
    <3>2. w[1] >= w[2]
        BY <2>1, <3>1
    <3> QED BY <1>3, <2>1, <3>2
  <2> QED BY <2>1
<1>5. ASSUME NEW n \in Nat, n \in S PROVE n + 1 \in S
  <2>1. ASSUME NEW w \in W, w[1] <= w[2], w[2] - w[1] <= n + 1
        PROVE  FindsFirst(o, f, w)
    <3>1. w[1] \in lo..hi /\ w[2] \in lo..hi /\ w[1] \in Nat /\ w[2] \in Nat
        OBVIOUS
    <3>2. PICK mid : mid = (w[1] + w[2]) \div 2
        OBVIOUS
    <3>3. RoundIs(o, f, w, f[w])
        BY <1>2, Round
    <3>4. CASE w[1] >= w[2]
        BY <1>3, <2>1, <3>4
    <3>5. CASE w[1] < w[2]
      <4>1. PICK a : a = <<mid + 1, w[2]>>
          OBVIOUS
      <4>2. PICK b : b = <<w[1], mid>>
          OBVIOUS
      <4>3. /\ mid \in Nat /\ w[1] <= mid /\ mid < w[2]
            /\ a \in W /\ b \in W
          BY <3>2, <3>5, <4>1, <4>2, Middle
      <4>4. /\ a[1] = mid + 1 /\ a[2] = w[2] /\ b[1] = w[1] /\ b[2] = mid
            /\ mid \in lo..(hi - 1)
          BY <3>1, <4>1, <4>2, <4>3
      <4>5. FindsFirst(o, f, a) /\ FindsFirst(o, f, b)
        <5>1. /\ a[1] <= a[2] /\ a[2] - a[1] <= n
              /\ b[1] <= b[2] /\ b[2] - b[1] <= n
            BY <2>1, <3>1, <4>3, <4>4
        <5> QED BY <1>5, <4>3, <5>1
      <4>6. ~(w[1] >= w[2])
          BY <3>1, <3>5
      <4>7. \A i \in w[1]..(w[2] - 1) : i \in lo..(hi - 1) /\ i \in Nat
          BY <3>1
      <4>8. CASE Compare(mid, o) < 0
        <5>1. f[w] = f[a]
            BY <3>2, <3>3, <4>1, <4>6, <4>8 DEF RoundIs
        <5>2. f[a] \in (mid + 1)..w[2]
            BY <4>4, <4>5 DEF FindsFirst
        <5>3. f[w] \in w[1]..w[2]
            BY <3>1, <4>3, <5>1, <5>2
        <5>4. ASSUME NEW i \in w[1]..(w[2] - 1)
              PROVE  (Compare(i, o) < 0) <=> (i < f[w])
          <6>1. CASE i <= mid
            <7>1. Compare(i, o) < 0
                BY <4>4, <4>7, <4>8, <6>1
            <7>2. i < f[w]
                BY <3>1, <4>3, <5>1, <5>2, <6>1
            <7> QED BY <7>1, <7>2
          <6>2. CASE ~(i <= mid)
            <7>1. i \in a[1]..(a[2] - 1)
                BY <3>1, <4>3, <4>4, <6>2
            <7> QED BY <4>5, <5>1, <7>1 DEF FindsFirst
          <6> QED BY <6>1, <6>2
        <5> QED BY <5>3, <5>4 DEF FindsFirst
      <4>9. CASE ~(Compare(mid, o) < 0)
        <5>1. f[w] = f[b]
            BY <3>2, <3>3, <4>2, <4>6, <4>9 DEF RoundIs
        <5>2. f[b] \in w[1]..mid
            BY <4>4, <4>5 DEF FindsFirst
        <5>3. f[w] \in w[1]..w[2]
            BY <3>1, <4>3, <5>1, <5>2
        <5>4. ASSUME NEW i \in w[1]..(w[2] - 1)
              PROVE  (Compare(i, o) < 0) <=> (i < f[w])
          <6>1. CASE mid <= i
            <7>1. ~(Compare(i, o) < 0)
                BY <4>4, <4>7, <4>9, <6>1
            <7>2. ~(i < f[w])
                BY <3>1, <4>3, <5>1, <5>2, <6>1
            <7> QED BY <7>1, <7>2
          <6>2. CASE ~(mid <= i)
            <7>1. i \in b[1]..(b[2] - 1)
                BY <3>1, <4>3, <4>4, <6>2
            <7> QED BY <4>5, <5>1, <7>1 DEF FindsFirst
          <6> QED BY <6>1, <6>2
        <5> QED BY <5>3, <5>4 DEF FindsFirst
      <4> QED BY <4>8, <4>9
    <3> QED BY <3>1, <3>4, <3>5
  <2> QED BY <2>1
<1>6. hi - lo \in S
  <2>1. Nat \subseteq S
    <3> HIDE DEF S
    <3> QED BY <1>4, <1>5, Induct
  <2> QED BY <2>1
<1>7. <<lo, hi>> \in W
    OBVIOUS
<1>8. FindsFirst(o, f, <<lo, hi>>)
  <2>1. PICK w : w = <<lo, hi>>
      OBVIOUS
  <2>2. w[1] <= w[2] /\ w[2] - w[1] <= hi - lo /\ w \in W
      BY <1>7, <2>1
  <2> QED BY <1>6, <2>1, <2>2
<1> QED BY <1>1, <1>8

\* What the comparison of a reader says.
LEMMA CompareSays ==
    ASSUME Laid, NEW o \in Nat, NEW i \in Indices
    PROVE  /\ (Compare(i, o) < 0) <=> (HeadOff(i) + Size(i) <= o)
           /\ (Compare(i, o) = 0) <=> Holds(i, o)
<1>1. HeadOff(i) \in Nat /\ Size(i) \in Nat
    BY ReaderTypes
<1> QED BY <1>1 DEF Compare, Holds

\* The readers are sorted the way the binary search needs them to be.
LEMMA ReadersSorted ==
    ASSUME Laid, NEW o \in Nat, NEW i \in Indices, NEW j \in Indices,
           i <= j, Compare(j, o) < 0
    PROVE  Compare(i, o) < 0
<1>1. /\ i \in Nat /\ j \in Nat /\ HeadOff(i) \in Nat /\ Size(i) \in Nat
      /\ HeadOff(j) \in Nat /\ Size(j) \in Nat
    BY ReaderTypes
<1>2. CASE i = j
    BY <1>2
<1>3. CASE i # j
  <2>1. HeadOff(i) + Size(i) <= HeadOff(j)
      BY <1>1, <1>3, HeadsGrow
  <2>2. HeadOff(j) + Size(j) <= o
      BY CompareSays
  <2>3. HeadOff(i) + Size(i) <= o
      BY <1>1, <2>1, <2>2
  <2> QED BY <2>3, CompareSays
<1> QED BY <1>2, <1>3

\* The loop of the binary search, started at k.
LEMMA FirstFound ==
    ASSUME Laid, NEW o \in Nat, NEW k \in 0..Len(readers),
           NEW m, m = FirstNotBefore(o, k, Len(readers))
    PROVE  /\ m \in k..Len(readers)
           /\ \A i \in Indices : k <= i => ((Compare(i, o) < 0) <=> (i < m))
<1>1. PICK n : n = Len(readers)
    OBVIOUS
<1>2. n \in Nat /\ k \in Nat /\ k <= n
    BY <1>1, ReaderTypes
<1>3. \A i \in k..(n - 1) : i \in Indices
    BY <1>1, <1>2 DEF Indices
<1>4. \A i \in k..(n - 1), j \in k..(n - 1) :
        i <= j /\ Compare(j, o) < 0 => Compare(i, o) < 0
    BY <1>3, ReadersSorted
<1>5. FindsFirst(o, Bisect(o, k, n), <<k, n>>)
    BY <1>2, <1>4, BisectFinds
<1>6. m = Bisect(o, k, n)[<<k, n>>]
    BY <1>1 DEF FirstNotBefore
<1>7. /\ m \in k..n
      /\ \A i \in k..(n - 1) : (Compare(i, o) < 0) <=> (i < m)
    BY <1>5, <1>6 DEF FindsFirst
<1>8. \A i \in Indices : k <= i => i \in k..(n - 1)
    BY <1>1, <1>2 DEF Indices
<1> QED BY <1>1, <1>7, <1>8

\* The binary search finds the reader that holds the offset.
LEMMA BinaryFinds ==
    ASSUME Laid, NEW o \in Nat, NEW k \in 0..Len(readers),
           NEW i \in Indices, Holds(i, o), k <= i
    PROVE  BinarySearch(o, k) = i - k
<1>1. PICK m : m = FirstNotBefore(o, k, Len(readers))
    OBVIOUS
<1>2. /\ m \in k..Len(readers)
      /\ \A j \in Indices : k <= j => ((Compare(j, o) < 0) <=> (j < m))
    BY <1>1, FirstFound
<1>3. /\ Len(readers) \in Nat /\ i \in Nat /\ i < Len(readers)
      /\ HeadOff(i) \in Nat /\ Size(i) \in Nat /\ k \in Nat
    BY ReaderTypes
<1>4. Compare(i, o) = 0
    BY CompareSays
<1>5. ~(i < m)
    BY <1>2, <1>4
<1>6. m \in Indices /\ m \in Nat /\ k <= m /\ m <= i
  <2>1. m \in Nat /\ k <= m /\ m <= i
      BY <1>2, <1>3, <1>5
  <2>2. m < Len(readers)
      BY <1>3, <2>1
  <2> QED BY <2>1, <2>2, ReaderTypes
<1>7. m = i
  <2>1. SUFFICES ASSUME m < i PROVE FALSE
      BY <1>3, <1>6
  <2>2. HeadOff(m) + Size(m) <= HeadOff(i)
      BY <1>6, <2>1, HeadsGrow
  <2>3. HeadOff(m) + Size(m) <= o
    <3>1. HeadOff(m) \in Nat /\ Size(m) \in Nat
        BY <1>6, ReaderTypes
    <3> QED BY <1>3, <2>2, <3>1 DEF Holds
  <2>4. Compare(m, o) < 0
      BY <1>6, <2>3, CompareSays
  <2> QED BY <1>2, <1>6, <2>4
<1> QED BY <1>1, <1>3, <1>4, <1>7 DEF BinarySearch

\* It says -1 when none does.
LEMMA BinaryMisses ==
    ASSUME Laid, NEW o \in Nat, NEW k \in 0..Len(readers),
           \A i \in Indices : k <= i => ~Holds(i, o)
    PROVE  BinarySearch(o, k) = -1
<1>1. PICK m : m = FirstNotBefore(o, k, Len(readers))
    OBVIOUS
<1>2. m \in k..Len(readers)
    BY <1>1, FirstFound
<1>3. CASE m < Len(readers)
  <2>1. m \in Indices /\ k <= m
      BY <1>2, <1>3, ReaderTypes
  <2>2. ~(Compare(m, o) = 0)
      BY <2>1, CompareSays
  <2> QED BY <1>1, <2>2 DEF BinarySearch
<1>4. CASE ~(m < Len(readers))
    BY <1>1, <1>4 DEF BinarySearch
<1> QED BY <1>3, <1>4

\* Both searches find the same.
LEMMA SearchesFindTheSame ==
    ASSUME Laid, NEW o \in Nat, NEW k \in 0..Len(readers)
    PROVE  BinarySearch(o, k) = LinearSearch(o, k)
<1>0. k \in Nat
    BY ReaderTypes
<1>1. CASE \E i \in Indices : k <= i /\ Holds(i, o)
    BY <1>0, <1>1, BinaryFinds, LinearFinds
<1>2. CASE ~\E i \in Indices : k <= i /\ Holds(i, o)
    BY <1>0, <1>2, BinaryMisses, LinearMisses
<1> QED BY <1>1, <1>2

\* Search finds the reader of an offset in the readers from k on.
LEMMA SearchFinds ==
    ASSUME Laid, NEW o \in Nat, NEW k \in Indices, HeadOff(k) <= o,
           o < UpperLimit
    PROVE  \E i \in Indices : /\ Search(o, k) = i - k
                              /\ k <= i /\ Holds(i, o)
<1>1. PICK i \in Indices : Holds(i, o)
    BY HolderExists
<1>2. k <= i
    BY <1>1, HolderFrom
<1>3. k \in Nat /\ k \in 0..Len(readers)
    BY ReaderTypes DEF Indices
<1>4. BinarySearch(o, k) = i - k /\ LinearSearch(o, k) = i - k
    BY <1>1, <1>2, <1>3, BinaryFinds, LinearFinds
<1> QED BY <1>1, <1>2, <1>4 DEF Search

\* From the first reader on it finds every offset there is.
LEMMA SearchFromHead ==
    ASSUME Laid, NEW o \in Nat, o < UpperLimit
    PROVE  Search(o, 0) \in Indices /\ Holds(Search(o, 0), o)
<1>1. Len(readers) \in Nat /\ Len(readers) # 0
    BY ReaderTypes
<1>2. 0 \in Indices
    BY <1>1 DEF Indices
<1>3. HeadOff(0) = 0
    BY <1>1 DEF Laid, Shape
<1>4. HeadOff(0) <= o
    BY <1>3
<1>5. PICK i \in Indices : /\ Search(o, 0) = i - 0
                           /\ 0 <= i /\ Holds(i, o)
    BY <1>2, <1>4, SearchFinds
<1>6. i - 0 = i
    BY ReaderTypes
<1> QED BY <1>5, <1>6

-----------------------------------------------------------------------------
(***************************************************************************)
(* The calls: the invariant, of a call c.                                  *)
(***************************************************************************)
Call == [op : {"Read", "ReadAt"}, pc : {"idle", "loop"}, start : Int,
         bytes : Seq((0..Len(readers)) \X Nat), err : Errors, left : Nat,
         cut : BOOLEAN, turn : BOOLEAN, index : Int,
         reader : -1..Len(readers)]

Fills(c) ==
    c.pc = "loop" =>
        /\ c.op = "ReadAt" /\ c.err = "nil" /\ c.start \in Nat
        /\ c.start + Len(c.bytes) + c.left <= UpperLimit
        /\ c.cut => c.start + Len(c.bytes) + c.left = UpperLimit

\* the bytes came from where the offsets from o on are
Placing(bytes, o) ==
    \A k \in DOMAIN bytes :
        /\ Holds(bytes[k][1], o + k - 1)
        /\ bytes[k][2] = (o + k - 1) - HeadOff(bytes[k][1])

Gives(c) ==
    c.err \notin {"ErrInvalidSize", "EIO"} => Placing(c.bytes, c.start)

Ends(c) ==
    c.err = "EOF" => \/ c.start < 0
                     \/ c.start + Len(c.bytes) >= UpperLimit
                     \/ LastIsShort

Tells(c) ==
    /\ Ends(c)
    /\ c.op = "ReadAt" /\ c.pc = "idle" /\ c.err = "nil" => c.left = 0
    /\ c.op = "ReadAt" /\ c.err \in Wrapped => c.index = c.reader

Good(c) == c \in Call /\ Fills(c) /\ Gives(c) /\ Tells(c)

\* The invariant of a state.
LEMMA InvariantOfCall ==
    /\ MInv => /\ Laid /\ Placed /\ idx \in 0..Len(readers) /\ off \in Nat
               /\ Good(call)
    /\ /\ Laid /\ Placed /\ idx \in 0..Len(readers) /\ off \in Nat
       /\ Good(call)
       => MInv
<1>1. TypeOK <=> /\ readers \in Seq([size : Nat, len : Nat, headOff : Nat])
                 /\ idx \in 0..Len(readers) /\ off \in Nat /\ call \in Call
    BY DEF TypeOK, Call
<1>2. Filling <=> Fills(call)
    BY DEF Filling, Fills
<1>3. BytesInPlace <=> Gives(call)
  <2>1. ASSUME NEW k
        PROVE  (LET i == call.bytes[k][1]
                    o == call.start + k - 1
                IN  Holds(i, o) /\ call.bytes[k][2] = o - HeadOff(i))
               <=> /\ Holds(call.bytes[k][1], call.start + k - 1)
                   /\ call.bytes[k][2]
                        = (call.start + k - 1) - HeadOff(call.bytes[k][1])
      OBVIOUS
  <2> QED BY <2>1, Zenon DEF BytesInPlace, Gives, Placing
<1>4. ErrorTells <=> Tells(call)
    BY DEF ErrorTells, Tells, EOFAtEnd, AtEnd, FullOrError, IndexIsReader, Ends
<1> QED BY <1>1, <1>2, <1>3, <1>4 DEF MInv, Laid, Good

\* A step that leaves the readers alone keeps what was laid out.
LEMMA ReadersKept ==
    ASSUME readers' = readers
    PROVE  /\ Laid => Laid'
           /\ UpperLimit' = UpperLimit
           /\ \A i : HeadOff(i)' = HeadOff(i)
           /\ Len(readers)' = Len(readers)
<1>1. \A i : HeadOff(i)' = HeadOff(i) /\ Size(i)' = Size(i)
    BY DEF HeadOff, Size
<1>2. UpperLimit' = UpperLimit
    BY <1>1 DEF UpperLimit
<1>3. Shape => Shape'
    BY <1>1 DEF Shape, Indices
<1>4. Laid => Laid'
    BY <1>3 DEF Laid
<1> QED BY <1>1, <1>2, <1>4

\* and a call that was good in them is.
LEMMA GoodKept ==
    ASSUME readers' = readers, NEW c, c = call', Good(c)
    PROVE  Good(call)'
<1>1. \A i : HeadOff(i)' = HeadOff(i) /\ Size(i)' = Size(i)
    BY DEF HeadOff, Size
<1>2. UpperLimit' = UpperLimit
    BY ReadersKept
<1>3. (call \in Call)'
    BY DEF Good, Call
<1>4. Fills(call)'
    BY <1>2 DEF Good, Fills
<1>5. Gives(call)'
    BY <1>1 DEF Good, Gives, Placing, Holds
<1>6. Tells(call)'
    BY <1>2 DEF Good, Tells, Ends, LastIsShort, Wrapped
<1> QED BY <1>3, <1>4, <1>5, <1>6 DEF Good

\* What a reader answers.
LEMMA ReaderGives ==
    ASSUME Laid, NEW i \in Indices, NEW p \in Nat, NEW n \in Nat,
           NEW r \in ReaderReadAt(i, p, n)
    PROVE  /\ r.n \in Nat /\ r.n <= n
           /\ r.err \in {"EIO", "nil", "EOF"}
           /\ r.err = "EOF" /\ r.n # 0 => p + r.n = readers[i + 1].len
<1>1. readers[i + 1].len \in Nat
    BY ReaderTypes
<1>2. PICK held \in Nat : held = readers[i + 1].len
    BY <1>1
<1>3. PICK avail \in Nat : avail = IF p < held THEN held - p ELSE 0
  <2>1. (IF p < held THEN held - p ELSE 0) \in Nat
      OBVIOUS
  <2> QED BY <2>1
<1>4. \/ \E k \in 0..n : r = [n |-> k, err |-> "EIO"]
      \/ n <= avail /\ r = [n |-> n, err |-> "nil"]
      \/ n >= avail /\ r = [n |-> avail, err |-> "EOF"]
    BY <1>2, <1>3 DEF ReaderReadAt
<1>5. CASE \E k \in 0..n : r = [n |-> k, err |-> "EIO"]
    BY <1>5
<1>6. CASE n <= avail /\ r = [n |-> n, err |-> "nil"]
    BY <1>6
<1>7. CASE n >= avail /\ r = [n |-> avail, err |-> "EOF"]
    BY <1>2, <1>3, <1>7
<1> QED BY <1>4, <1>5, <1>6, <1>7

\* What the switch makes of it.
LEMMA ClassifySays ==
    ASSUME Laid, NEW i \in Indices, NEW rem \in Nat, rem > 0, NEW r,
           r.n \in Nat, r.err \in {"EIO", "nil", "EOF"},
           NEW err, err = Classify(i, rem, r)
    PROVE  /\ err \in Wrapped \cup {"nil", "EOF"}
           /\ err \notin {"ErrInvalidSize", "EIO"} => r.n <= rem
           /\ err = "EOF" => r.err = "EOF" /\ r.n # 0 /\ i = Len(readers) - 1
<1>1. i \in Nat /\ i < Len(readers) /\ Len(readers) \in Nat
    BY ReaderTypes
<1> QED BY <1>1 DEF Classify, Wrapped

\* A function on 1..n is a sequence of length n.
LEMMA SeqOfFunction ==
    ASSUME NEW S, NEW n \in Nat, NEW f \in [1..n -> S]
    PROVE  f \in Seq(S) /\ Len(f) = n
<1>1. f \in Seq(S)
  <2>1. f \in UNION {[1..m -> S] : m \in Nat}
      OBVIOUS
  <2> QED BY <2>1, SeqDef, Zenon
<1> QED BY <1>1, LenProperties

\* the n bytes from p of reader i
AreBytes(bytes, i, p, n) ==
    /\ bytes \in Seq((0..Len(readers)) \X Nat) /\ Len(bytes) = n
    /\ DOMAIN bytes = 1..n
    /\ \A k \in 1..n : bytes[k][1] = i /\ bytes[k][2] = p + k - 1

\* The bytes of a reader.
LEMMA BytesAre ==
    ASSUME Laid, NEW i \in Indices, NEW p \in Nat, NEW n \in Nat
    PROVE  AreBytes(BytesOf(i, p, n), i, p, n)
<1>1. i \in 0..Len(readers)
    BY ReaderTypes
<1>2. \A k \in 1..n : p + k - 1 \in Nat
    OBVIOUS
<1>3. BytesOf(i, p, n) \in [1..n -> (0..Len(readers)) \X Nat]
    BY <1>1, <1>2 DEF BytesOf
<1>4. /\ BytesOf(i, p, n) \in Seq((0..Len(readers)) \X Nat)
      /\ Len(BytesOf(i, p, n)) = n
    BY <1>3, SeqOfFunction
<1> QED BY <1>3, <1>4 DEF BytesOf, AreBytes

\* The bytes of one reader are in their places.
LEMMA OneReaderPlaces ==
    ASSUME Laid, NEW o \in Nat, NEW i \in Indices, Holds(i, o),
           NEW p \in Nat, p = o - HeadOff(i),
           NEW n \in Nat, n <= Size(i) - p
    PROVE  Placing(BytesOf(i, p, n), o)
<1>1. HeadOff(i) \in Nat /\ Size(i) \in Nat
    BY ReaderTypes
<1>2. AreBytes(BytesOf(i, p, n), i, p, n)
    BY BytesAre
<1>3. ASSUME NEW k \in 1..n
      PROVE  Holds(i, o + k - 1) /\ p + k - 1 = (o + k - 1) - HeadOff(i)
    BY <1>1 DEF Holds
<1> QED BY <1>2, <1>3 DEF Placing, AreBytes

\* So are the bytes of one call after those of another.
LEMMA PlacesAppend ==
    ASSUME NEW a \in Seq((0..Len(readers)) \X Nat),
           NEW b \in Seq((0..Len(readers)) \X Nat),
           NEW o \in Nat, Placing(a, o), Placing(b, o + Len(a))
    PROVE  Placing(a \o b, o)
<1>1. /\ Len(a) \in Nat /\ Len(b) \in Nat
      /\ DOMAIN a = 1..Len(a) /\ DOMAIN b = 1..Len(b)
    BY LenProperties
<1>2. /\ DOMAIN (a \o b) = 1..(Len(a) + Len(b))
      /\ \A k \in 1..(Len(a) + Len(b)) :
            (a \o b)[k] = IF k <= Len(a) THEN a[k] ELSE b[k - Len(a)]
  <2>1. a \o b \in Seq((0..Len(readers)) \X Nat)
        /\ Len(a \o b) = Len(a) + Len(b)
      BY ConcatProperties
  <2> QED BY <2>1, LenProperties, ConcatProperties
<1>3. ASSUME NEW k \in 1..(Len(a) + Len(b))
      PROVE  /\ Holds((a \o b)[k][1], o + k - 1)
             /\ (a \o b)[k][2] = (o + k - 1) - HeadOff((a \o b)[k][1])
  <2>1. CASE k <= Len(a)
    <3>1. (a \o b)[k] = a[k] /\ k \in DOMAIN a
        BY <1>1, <1>2, <2>1
    <3> QED BY <3>1 DEF Placing
  <2>2. CASE ~(k <= Len(a))
    <3>1. PICK m : m = k - Len(a)
        OBVIOUS
    <3>2. (a \o b)[k] = b[m] /\ m \in DOMAIN b
        BY <1>1, <1>2, <2>2, <3>1
    <3>3. (o + Len(a)) + m - 1 = o + k - 1
        BY <1>1, <3>1
    <3>4. /\ Holds(b[m][1], (o + Len(a)) + m - 1)
          /\ b[m][2] = ((o + Len(a)) + m - 1) - HeadOff(b[m][1])
        BY <3>2 DEF Placing
    <3> QED BY <3>2, <3>3, <3>4
  <2> QED BY <2>1, <2>2
<1> QED BY <1>2, <1>3 DEF Placing

\* What reader i gave and what the switch made of it.
LEMMA OneReaderSays ==
    ASSUME Laid, NEW o \in Nat, NEW i \in Indices, Holds(i, o),
           NEW p, p = o - HeadOff(i), NEW n \in Nat,
           NEW r \in ReaderReadAt(i, p, n),
           NEW err, err = Classify(i, Size(i) - p, r)
    PROVE  /\ p \in Nat /\ r.n \in Nat /\ r.n <= n
           /\ err \in Wrapped \cup {"nil", "EOF"}
           /\ err \notin {"ErrInvalidSize", "EIO"} =>
                 Placing(BytesOf(i, p, r.n), o) /\ o + r.n <= UpperLimit
           /\ err = "EOF" => o + r.n >= UpperLimit \/ LastIsShort
<1>1. /\ HeadOff(i) \in Nat /\ Size(i) \in Nat /\ i + 1 \in 1..Len(readers)
      /\ i \in Nat /\ Len(readers) \in Nat /\ readers[i + 1].len \in Nat
    BY ReaderTypes
<1>2. p \in Nat /\ Size(i) - p \in Nat /\ Size(i) - p > 0
    BY <1>1 DEF Holds
<1>3. /\ r.n \in Nat /\ r.n <= n /\ r.err \in {"EIO", "nil", "EOF"}
      /\ r.err = "EOF" /\ r.n # 0 => p + r.n = readers[i + 1].len
    BY <1>2, ReaderGives
<1>4. /\ err \in Wrapped \cup {"nil", "EOF"}
      /\ err \notin {"ErrInvalidSize", "EIO"} => r.n <= Size(i) - p
      /\ err = "EOF" => r.err = "EOF" /\ r.n # 0 /\ i = Len(readers) - 1
    BY <1>2, <1>3, ClassifySays
<1>5. ASSUME err \notin {"ErrInvalidSize", "EIO"}
      PROVE  Placing(BytesOf(i, p, r.n), o) /\ o + r.n <= UpperLimit
  <2>1. Placing(BytesOf(i, p, r.n), o)
      BY <1>2, <1>3, <1>4, <1>5, OneReaderPlaces
  <2>2. HeadOff(i) + Size(i) <= UpperLimit /\ UpperLimit \in Nat
      BY EndsWithin, ReaderTypes
  <2>3. r.n <= Size(i) - p
      BY <1>4, <1>5
  <2> QED BY <1>1, <1>3, <2>1, <2>2, <2>3
<1>6. ASSUME err = "EOF" PROVE o + r.n >= UpperLimit \/ LastIsShort
  <2>1. p + r.n = readers[i + 1].len /\ i = Len(readers) - 1
      BY <1>3, <1>4, <1>6
  <2>2. i + 1 = Len(readers) /\ Len(readers) # 0
      BY <1>1, <2>1
  <2>3. UpperLimit = HeadOff(i) + Size(i)
      BY <2>1, <2>2, ReaderTypes
  <2>4. LastIsShort <=> readers[i + 1].len < Size(i)
      BY <2>2 DEF LastIsShort, Size
  <2>5. SUFFICES ASSUME ~LastIsShort PROVE o + r.n >= UpperLimit
      OBVIOUS
  <2>6. readers[i + 1].len >= Size(i)
      BY <1>1, <2>4, <2>5
  <2>7. PICK h \in Nat, s \in Nat, len \in Nat, m \in Nat :
          h = HeadOff(i) /\ s = Size(i) /\ len = readers[i + 1].len /\ m = r.n
      BY <1>1, <1>3
  <2>8. o = h + p /\ p + m = len /\ UpperLimit = h + s /\ len >= s
      BY <2>1, <2>3, <2>6, <2>7
  <2>9. o + m >= UpperLimit
      BY <1>2, <2>7, <2>8
  <2> QED BY <2>7, <2>9
<1> QED BY <1>2, <1>3, <1>4, <1>5, <1>6

-----------------------------------------------------------------------------
(***************************************************************************)
(* The steps.                                                              *)
(***************************************************************************)
\* a call that got nothing, at the end or before the first Read
GotNothing(o, err, c) ==
    /\ \/ err = "EOF" /\ (o < 0 \/ o >= UpperLimit)
       \/ err = "nil" /\ c = Returned(o, <<>>, err)
    /\ \/ c = Returned(o, <<>>, err)
       \/ \E n \in Nat : c = [Returned(o, <<>>, err)
                               EXCEPT !.op = "ReadAt", !.left = n]

\* It is good.
LEMMA NothingIsGood ==
    ASSUME Laid, NEW o \in Int, NEW err, NEW c, GotNothing(o, err, c)
    PROVE  Good(c)
<1>1. <<>> \in Seq((0..Len(readers)) \X Nat) /\ Len(<<>>) = 0
    BY EmptySeq
<1>2. Placing(<<>>, o)
  <2>1. DOMAIN <<>> = {}
      OBVIOUS
  <2> QED BY <2>1 DEF Placing
<1>3. Len(readers) \in Nat /\ UpperLimit \in Nat
    BY ReaderTypes
<1>0. /\ err \in {"EOF", "nil"}
      /\ err = "EOF" => o < 0 \/ o >= UpperLimit
    BY DEF GotNothing
<1>4. PICK op \in {"Read", "ReadAt"}, left \in Nat :
        /\ c = [op |-> op, pc |-> "idle", start |-> o, bytes |-> <<>>,
                err |-> err, left |-> left, cut |-> FALSE, turn |-> FALSE,
                index |-> -1, reader |-> -1]
        /\ op = "Read" \/ (op = "ReadAt" /\ err = "EOF")
  <2>1. CASE c = Returned(o, <<>>, err)
      BY <2>1 DEF Returned
  <2>2. CASE \E n \in Nat : c = [Returned(o, <<>>, err)
                                  EXCEPT !.op = "ReadAt", !.left = n]
    <3>1. PICK n \in Nat : c = [Returned(o, <<>>, err)
                                  EXCEPT !.op = "ReadAt", !.left = n]
        BY <2>2
    <3>2. err = "EOF"
      <4>1. (Returned(o, <<>>, err)).op = "Read" /\ c.op = "ReadAt"
          BY <3>1 DEF Returned
      <4> QED BY <4>1 DEF GotNothing
    <3> QED BY <3>1, <3>2 DEF Returned
  <2> QED BY <2>1, <2>2 DEF GotNothing
<1>5. c \in Call
  <2>1. err \in Errors /\ -1 \in -1..Len(readers) /\ -1 \in Int
      BY <1>0, <1>3 DEF Errors
  <2> QED BY <1>1, <1>4, <2>1 DEF Call
<1>6. /\ c.pc = "idle" /\ c.start = o /\ c.bytes = <<>> /\ c.err = err
      /\ (c.op = "ReadAt" => err = "EOF")
    BY <1>4
<1>7. Tells(c)
    BY <1>0, <1>1, <1>3, <1>6 DEF Tells, Ends, Wrapped
<1> QED BY <1>2, <1>5, <1>6, <1>7 DEF Good, Fills, Gives

LEMMA InitM == Init => MInv
<1> SUFFICES ASSUME Init PROVE MInv
    OBVIOUS
<1>1. PICK list \in ReaderLists : readers = Translated(list)
    BY DEF Init
<1>2. list \in List
    BY <1>1, MultiReadAssumption DEF List
<1>3. PICK n \in Nat : n = Len(list)
    BY <1>2, LenProperties DEF List
<1>4. PICK sum : sum = Accum(list)
    OBVIOUS
<1>5. /\ sum \in [0..n -> Nat]
      /\ \A i \in 0..n : sum[i] = IF i = 0 THEN 0 ELSE sum[i - 1] + list[i].size
    BY <1>2, <1>3, <1>4, AccumSums DEF SumsUpTo
<1>6. readers = [i \in 1..n |-> [size |-> list[i].size, len |-> list[i].len,
                                 headOff |-> sum[i - 1]]]
    BY <1>1, <1>3, <1>4 DEF Translated
<1>7. \A i \in 1..n : list[i] \in [size : Nat, len : Nat]
    BY <1>2, <1>3, ElementOfSeq DEF List
<1>8. ASSUME NEW i \in 1..n
      PROVE  /\ readers[i].size = list[i].size
             /\ readers[i].headOff = sum[i - 1]
             /\ readers[i] \in [size : Nat, len : Nat, headOff : Nat]
  <2>1. sum[i - 1] \in Nat
    <3>1. i - 1 \in 0..n
        OBVIOUS
    <3> QED BY <1>5, <3>1
  <2> QED BY <1>6, <1>7, <2>1
<1>9. readers \in Seq([size : Nat, len : Nat, headOff : Nat])
      /\ Len(readers) = n
  <2>1. readers \in [1..n -> [size : Nat, len : Nat, headOff : Nat]]
      BY <1>6, <1>8
  <2> QED BY <2>1, SeqOfFunction
<1>10. Shape
  <2>1. ASSUME readers # <<>> PROVE HeadOff(0) = 0
    <3>1. 1 \in 1..n
      <4>1. n # 0
          BY <1>9, <2>1, EmptySeq
      <4> QED BY <4>1
    <3>2. 0 \in 0..n /\ sum[0] = 0
        BY <1>5
    <3>3. readers[1].headOff = sum[1 - 1]
        BY <1>8, <3>1
    <3> QED BY <3>2, <3>3 DEF HeadOff
  <2>2. ASSUME NEW i \in Indices, i # 0
        PROVE  HeadOff(i) = HeadOff(i - 1) + Size(i - 1)
    <3>1. i \in 1..n /\ i \in 0..n /\ i + 1 \in 1..n /\ i - 1 + 1 = i
          /\ i + 1 - 1 = i
        BY <1>9, <2>2 DEF Indices
    <3>2. HeadOff(i) = sum[i]
        BY <1>8, <3>1 DEF HeadOff
    <3>3. HeadOff(i - 1) = sum[i - 1] /\ Size(i - 1) = list[i].size
        BY <1>8, <3>1 DEF HeadOff, Size
    <3> QED BY <1>5, <2>2, <3>1, <3>2, <3>3
  <2> QED BY <2>1, <2>2 DEF Shape
<1>11. Laid
    BY <1>9, <1>10 DEF Laid
<1>12. Placed
  <2>1. SUFFICES ASSUME 0 < UpperLimit
                 PROVE  0 < Len(readers) /\ HeadOff(0) <= 0
      BY DEF Placed, Init
  <2>2. Len(readers) # 0 /\ Len(readers) \in Nat
      BY <1>11, <2>1, ReaderTypes
  <2>3. HeadOff(0) = 0
      BY <1>10, <2>2 DEF Shape
  <2> QED BY <2>2, <2>3
<1>13. Good(call)
  <2>1. call = Returned(0, <<>>, "nil")
      BY DEF Init
  <2>2. GotNothing(0, "nil", call)
      BY <2>1 DEF GotNothing
  <2> QED BY <1>11, <2>2, NothingIsGood
<1>14. idx \in 0..Len(readers) /\ off \in Nat
    BY <1>9 DEF Init
<1> QED BY <1>11, <1>12, <1>13, <1>14, InvariantOfCall

LEMMA ReadM ==
    ASSUME MInv, Read
    PROVE  MInv'
<1>1. /\ Laid /\ Placed /\ idx \in 0..Len(readers) /\ off \in Nat
    BY InvariantOfCall
<1>2. readers' = readers
    BY DEF Read
<1>3. Laid' /\ Len(readers)' = Len(readers) /\ UpperLimit' = UpperLimit
      /\ \A i : HeadOff(i)' = HeadOff(i)
    BY <1>1, <1>2, ReadersKept
<1>4. Len(readers) \in Nat /\ UpperLimit \in Nat
    BY <1>1, ReaderTypes
<1>5. SUFFICES /\ Placed' /\ idx' \in 0..Len(readers) /\ off' \in Nat
               /\ \E c : c = call' /\ Good(c)
  <2>1. Good(call)'
    <3>1. PICK c : c = call' /\ Good(c)
        BY <1>5
    <3> QED BY <1>2, <3>1, GoodKept
  <2>3. Placed'
      BY <1>5
  <2>2. (idx \in 0..Len(readers))' /\ (off \in Nat)'
      BY <1>2, <1>5
  <2> QED BY <1>3, <2>1, <2>2, <2>3, InvariantOfCall, PTL
<1>6. CASE off >= UpperLimit
  <2>1. call' = Returned(off, <<>>, "EOF") /\ UNCHANGED <<idx, off>>
      BY <1>6 DEF Read
  <2>2. PICK c : c = call'
      OBVIOUS
  <2>3. GotNothing(off, "EOF", c)
      BY <1>6, <2>1, <2>2 DEF GotNothing
  <2>4. Good(c)
      BY <1>1, <2>3, NothingIsGood
  <2>5. Placed'
      BY <1>1, <1>2, <1>3, <2>1 DEF Placed
  <2> QED BY <1>1, <2>1, <2>2, <2>4, <2>5
<1>7. CASE ~(off >= UpperLimit)
  <2>1. off < UpperLimit /\ idx < Len(readers) /\ HeadOff(idx) <= off
        /\ idx \in Nat
      BY <1>1, <1>4, <1>7 DEF Placed
  <2>2. idx \in Indices
      BY <1>1, <2>1, ReaderTypes
  <2>3. PICK cur \in Indices : /\ Search(off, idx) = cur - idx
                               /\ idx <= cur /\ Holds(cur, off)
      BY <1>1, <2>1, <2>2, SearchFinds
  <2>4. PICK i : i = Search(off, idx)
      OBVIOUS
  <2>5. cur \in Nat /\ cur < Len(readers) /\ HeadOff(cur) \in Nat
      BY <1>1, ReaderTypes
  <2>6. i \in Nat /\ ~(i < 0) /\ idx + i = cur
      BY <2>1, <2>3, <2>4, <2>5
  <2>7. PICK p : p = off - HeadOff(cur)
      OBVIOUS
  <2>24. PICK n \in Bufs : \E r \in ReaderReadAt(cur, p, n) :
          /\ IF r.n > 0 \/ r.err = "EOF" THEN idx' = cur /\ off' = off + r.n
             ELSE UNCHANGED <<idx, off>>
          /\ call' = [Returned(off, BytesOf(cur, p, r.n),
                               Classify(cur, Size(cur) - p, r))
                      EXCEPT !.index = idx' + i, !.reader = cur]
      BY <1>7, <2>4, <2>6, <2>7 DEF Read
  <2>8. PICK r \in ReaderReadAt(cur, p, n) :
          /\ IF r.n > 0 \/ r.err = "EOF" THEN idx' = cur /\ off' = off + r.n
             ELSE UNCHANGED <<idx, off>>
          /\ call' = [Returned(off, BytesOf(cur, p, r.n),
                               Classify(cur, Size(cur) - p, r))
                      EXCEPT !.index = idx' + i, !.reader = cur]
      BY <2>24
  <2>9. PICK err : err = Classify(cur, Size(cur) - p, r)
      OBVIOUS
  <2>10. n \in Nat
      BY MultiReadAssumption
  <2>11. /\ p \in Nat /\ r.n \in Nat /\ r.n <= n
         /\ err \in Wrapped \cup {"nil", "EOF"}
         /\ err \notin {"ErrInvalidSize", "EIO"} =>
               Placing(BytesOf(cur, p, r.n), off) /\ off + r.n <= UpperLimit
         /\ err = "EOF" => off + r.n >= UpperLimit \/ LastIsShort
      BY <1>1, <2>3, <2>7, <2>9, <2>10, OneReaderSays
  <2>12. /\ BytesOf(cur, p, r.n) \in Seq((0..Len(readers)) \X Nat)
         /\ Len(BytesOf(cur, p, r.n)) = r.n
    <3>1. PICK m \in Nat : m = r.n
        BY <2>11
    <3>2. AreBytes(BytesOf(cur, p, m), cur, p, m)
        BY <1>1, <2>11, BytesAre
    <3> QED BY <3>1, <3>2 DEF AreBytes
  <2>13. /\ idx' \in Nat /\ idx' < Len(readers) /\ off' \in Nat
         /\ HeadOff(idx') <= off'
    <3>1. CASE r.n > 0 \/ r.err = "EOF"
      <4>1. HeadOff(cur) <= off + r.n
          BY <1>1, <2>3, <2>5, <2>11 DEF Holds
      <4> QED BY <1>1, <2>5, <2>8, <2>11, <3>1, <4>1
    <3>2. CASE ~(r.n > 0 \/ r.err = "EOF")
        BY <1>1, <2>1, <2>8, <3>2
    <3> QED BY <3>1, <3>2
  <2>14. Placed'
    <3>1. HeadOff(idx)' <= off'
        BY <1>2, <2>13 DEF HeadOff
    <3> QED BY <1>3, <2>13, <3>1 DEF Placed
  <2>15. PICK bytes : bytes = BytesOf(cur, p, r.n)
      OBVIOUS
  <2>16. PICK index \in Int : index = idx' + i
    <3>1. idx' + i \in Int
        BY <2>6, <2>13
    <3> QED BY <3>1
  <2>17. PICK c : c = [op |-> "Read", pc |-> "idle", start |-> off,
              bytes |-> bytes, err |-> err, left |-> 0, cut |-> FALSE,
              turn |-> FALSE, index |-> index, reader |-> cur]
      OBVIOUS
  <2>18. c = call'
      BY <2>8, <2>9, <2>15, <2>16, <2>17 DEF Returned
  <2>19. c \in Call
    <3>1. cur \in -1..Len(readers) /\ err \in Errors
        BY <1>4, <2>5, <2>11 DEF Errors
    <3> QED BY <1>1, <2>12, <2>15, <2>17, <3>1 DEF Call
  <2>20. Gives(c)
      BY <2>11, <2>15, <2>17 DEF Gives
  <2>21. Tells(c)
      BY <2>11, <2>12, <2>15, <2>17 DEF Tells, Ends
  <2>22. Good(c)
      BY <2>17, <2>19, <2>20, <2>21 DEF Good, Fills
  <2>23. idx' \in 0..Len(readers)
      BY <1>4, <2>13
  <2> QED BY <2>13, <2>14, <2>18, <2>22, <2>23
<1> QED BY <1>6, <1>7

LEMMA SeekM ==
    ASSUME MInv, Seek
    PROVE  MInv'
<1>1. /\ Laid /\ Placed /\ idx \in 0..Len(readers) /\ off \in Nat
      /\ Good(call)
    BY InvariantOfCall
<1>2. readers' = readers /\ call' = call
    BY DEF Seek
<1>3. Laid' /\ Len(readers)' = Len(readers) /\ UpperLimit' = UpperLimit
      /\ \A i : HeadOff(i)' = HeadOff(i)
    BY <1>1, <1>2, ReadersKept
<1>4. Len(readers) \in Nat /\ UpperLimit \in Nat
    BY <1>1, ReaderTypes
<1>5. Good(call)'
  <2>1. PICK c : c = call'
      OBVIOUS
  <2>2. Good(c)
      BY <1>1, <1>2, <2>1
  <2> QED BY <1>2, <2>1, <2>2, GoodKept
<1>6. PICK o \in Nat : /\ off' = o
                       /\ idx' = IF off' >= UpperLimit THEN Len(readers)
                                 ELSE Search(off', 0)
    BY MultiReadAssumption DEF Seek
<1>7. CASE o >= UpperLimit
  <2>1. idx' = Len(readers)
      BY <1>6, <1>7
  <2>2. Placed'
      BY <1>3, <1>4, <1>6, <1>7 DEF Placed
  <2>3. (idx \in 0..Len(readers))' /\ (off \in Nat)'
      BY <1>2, <1>4, <1>6, <2>1
  <2> QED BY <1>3, <1>5, <2>2, <2>3, InvariantOfCall, PTL
<1>8. CASE ~(o >= UpperLimit)
  <2>1. o < UpperLimit
      BY <1>4, <1>8
  <2>2. PICK i \in Indices : i = Search(o, 0) /\ Holds(i, o)
      BY <1>1, <2>1, SearchFromHead
  <2>3. i \in Nat /\ i < Len(readers) /\ HeadOff(i) <= o
      BY <1>1, <2>2, ReaderTypes DEF Holds
  <2>4. idx' = i
      BY <1>6, <1>8, <2>2
  <2>5. HeadOff(idx)' = HeadOff(i)
      BY <1>2, <2>4 DEF HeadOff
  <2>6. Placed'
      BY <1>2, <1>3, <1>6, <2>3, <2>4, <2>5 DEF Placed
  <2>7. (idx \in 0..Len(readers))' /\ (off \in Nat)'
      BY <1>2, <1>4, <1>6, <2>3, <2>4
  <2> QED BY <1>3, <1>5, <2>6, <2>7, InvariantOfCall, PTL
<1> QED BY <1>7, <1>8

\* A step that changes nothing but the call keeps the rest.
LEMMA OnlyCall ==
    ASSUME MInv, UNCHANGED <<readers, idx, off>>,
           NEW c, c = call', Good(c)
    PROVE  MInv'
<1>1. Laid /\ Placed /\ idx \in 0..Len(readers) /\ off \in Nat
    BY InvariantOfCall
<1>2. Laid' /\ UpperLimit' = UpperLimit /\ \A i : HeadOff(i)' = HeadOff(i)
    BY <1>1, ReadersKept
<1>3. Good(call)'
    BY GoodKept
<1>4. HeadOff(idx)' = HeadOff(idx)
    BY DEF HeadOff
<1>5. Placed'
    BY <1>1, <1>2, <1>4 DEF Placed
<1>6. (idx \in 0..Len(readers))' /\ (off \in Nat)'
    BY <1>1
<1> QED BY <1>2, <1>3, <1>5, <1>6, InvariantOfCall, PTL

LEMMA CallReadAtM ==
    ASSUME MInv, CallReadAt
    PROVE  MInv'
<1>1. Laid
    BY InvariantOfCall
<1>2. Len(readers) \in Nat /\ UpperLimit \in Nat
    BY <1>1, ReaderTypes
<1>3. UNCHANGED <<readers, idx, off>>
    BY DEF CallReadAt
<1>4. PICK n \in Bufs, o \in Offsets :
        call' = IF o < 0 \/ o >= UpperLimit
                THEN [Returned(o, <<>>, "EOF") EXCEPT !.op = "ReadAt",
                                                      !.left = n]
                ELSE [[Returned(o, <<>>, "EOF") EXCEPT !.op = "ReadAt",
                                                       !.left = n]
                      EXCEPT !.pc = "loop", !.err = "nil",
                             !.left = IF n > UpperLimit - o
                                      THEN UpperLimit - o ELSE n,
                             !.cut = n > UpperLimit - o]
    BY DEF CallReadAt
<1>5. n \in Nat /\ o \in Int
    BY MultiReadAssumption
<1>6. PICK c : c = call'
    OBVIOUS
<1>7. CASE o < 0 \/ o >= UpperLimit
  <2>1. GotNothing(o, "EOF", c)
      BY <1>4, <1>5, <1>6, <1>7 DEF GotNothing
  <2>2. Good(c)
      BY <1>1, <1>5, <2>1, NothingIsGood
  <2> QED BY <1>3, <1>6, <2>2, OnlyCall
<1>8. CASE ~(o < 0 \/ o >= UpperLimit)
  <2>1. o \in Nat /\ UpperLimit - o \in Nat
      BY <1>2, <1>5, <1>8
  <2>2. PICK left : left = IF n > UpperLimit - o THEN UpperLimit - o ELSE n
      OBVIOUS
  <2>3. PICK cut \in BOOLEAN : cut = (n > UpperLimit - o)
    <3>1. (n > UpperLimit - o) \in BOOLEAN
        OBVIOUS
    <3> QED BY <3>1, Zenon
  <2>4. /\ left \in Nat /\ o + left <= UpperLimit
        /\ cut => o + left = UpperLimit
    <3>1. cut <=> n > UpperLimit - o
        BY <2>3, Zenon
    <3> QED BY <1>2, <1>5, <2>1, <2>2, <3>1
  <2>5. c = [op |-> "ReadAt", pc |-> "loop", start |-> o, bytes |-> <<>>,
             err |-> "nil", left |-> left, cut |-> cut, turn |-> FALSE,
             index |-> -1, reader |-> -1]
      BY <1>4, <1>6, <1>8, <2>2, <2>3 DEF Returned
  <2>6. <<>> \in Seq((0..Len(readers)) \X Nat) /\ Len(<<>>) = 0
      BY EmptySeq
  <2>7. c \in Call
    <3>1. -1 \in -1..Len(readers) /\ -1 \in Int /\ "nil" \in Errors
        BY <1>2 DEF Errors
    <3> QED BY <1>5, <2>4, <2>5, <2>6, <3>1 DEF Call
  <2>8. Fills(c)
      BY <2>1, <2>4, <2>5, <2>6 DEF Fills
  <2>9. Gives(c)
    <3>1. DOMAIN <<>> = {}
        OBVIOUS
    <3> QED BY <2>5, <3>1 DEF Gives, Placing
  <2>10. Tells(c)
      BY <2>5 DEF Tells, Ends, Wrapped
  <2>11. Good(c)
      BY <2>7, <2>8, <2>9, <2>10 DEF Good
  <2> QED BY <1>3, <1>6, <2>11, OnlyCall
<1> QED BY <1>7, <1>8

LEMMA ReadAtLoopM ==
    ASSUME MInv, ReadAtLoop
    PROVE  MInv'
<1>1. Laid /\ Good(call)
    BY InvariantOfCall
<1>2. Len(readers) \in Nat /\ UpperLimit \in Nat
    BY <1>1, ReaderTypes
<1>3. UNCHANGED <<readers, idx, off>> /\ call.pc = "loop"
    BY DEF ReadAtLoop
<1>4. PICK b : b = call
    OBVIOUS
<1>5. /\ b \in Call /\ b.op = "ReadAt" /\ b.err = "nil" /\ b.start \in Nat
      /\ b.start + Len(b.bytes) + b.left <= UpperLimit
      /\ b.cut => b.start + Len(b.bytes) + b.left = UpperLimit
      /\ Placing(b.bytes, b.start)
    BY <1>1, <1>3, <1>4 DEF Good, Fills, Gives
<1>6. /\ b.bytes \in Seq((0..Len(readers)) \X Nat) /\ Len(b.bytes) \in Nat
      /\ b.left \in Nat /\ b.cut \in BOOLEAN /\ b.turn \in BOOLEAN
      /\ b.index \in Int /\ b.reader \in -1..Len(readers)
  <2>1. b.bytes \in Seq((0..Len(readers)) \X Nat)
      BY <1>5 DEF Call
  <2> QED BY <1>5, <2>1, LenProperties DEF Call
<1>7. PICK o \in Nat : o = b.start + Len(b.bytes)
    BY <1>5, <1>6
<1>8. PICK c : c = call'
    OBVIOUS
<1>9. CASE o >= UpperLimit
  <2>1. c = [b EXCEPT !.pc = "idle", !.err = "EOF"]
      BY <1>4, <1>7, <1>8, <1>9 DEF ReadAtLoop
  <2>2. /\ c.op = "ReadAt" /\ c.pc = "idle" /\ c.start = b.start
        /\ c.bytes = b.bytes /\ c.err = "EOF"
      BY <1>5, <2>1 DEF Call
  <2>3. c \in Call
      BY <1>5, <2>1 DEF Call, Errors
  <2>4. Fills(c) /\ Gives(c)
      BY <1>5, <2>2 DEF Fills, Gives
  <2>5. Tells(c)
      BY <1>7, <1>9, <2>2 DEF Tells, Ends, Wrapped
  <2>6. Good(c)
      BY <2>3, <2>4, <2>5 DEF Good
  <2> QED BY <1>3, <1>8, <2>6, OnlyCall
<1>10. CASE ~(o >= UpperLimit)
  <2>1. PICK i \in Indices : i = Search(o, 0) /\ Holds(i, o)
    <3>1. o < UpperLimit
        BY <1>2, <1>10
    <3> QED BY <1>1, <3>1, SearchFromHead
  <2>2. i \in Nat /\ i < Len(readers) /\ ~(i < 0)
      BY <1>1, ReaderTypes
  <2>3. PICK p : p = o - HeadOff(i)
      OBVIOUS
  <2>24. \E r \in ReaderReadAt(i, p, call.left) : call' = AfterReader(i, p, r)
    <3>1. call.start + Len(call.bytes) = o
        BY <1>4, <1>7
    <3> QED BY <1>10, <2>1, <2>2, <2>3, <3>1 DEF ReadAtLoop
  <2>4. PICK r \in ReaderReadAt(i, p, b.left) : call' = AfterReader(i, p, r)
      BY <1>4, <2>24
  <2>5. PICK err : err = Classify(i, Size(i) - p, r)
      OBVIOUS
  <2>6. /\ p \in Nat /\ r.n \in Nat /\ r.n <= b.left
        /\ err \in Wrapped \cup {"nil", "EOF"}
        /\ err \notin {"ErrInvalidSize", "EIO"} =>
              Placing(BytesOf(i, p, r.n), o) /\ o + r.n <= UpperLimit
        /\ err = "EOF" => o + r.n >= UpperLimit \/ LastIsShort
      BY <1>1, <1>6, <2>1, <2>3, <2>5, OneReaderSays
  <2>7. PICK n \in Nat : n = r.n
      BY <2>6
  <2>8. PICK more : more = BytesOf(i, p, n)
      OBVIOUS
  <2>9. more \in Seq((0..Len(readers)) \X Nat) /\ Len(more) = n
    <3>1. AreBytes(BytesOf(i, p, n), i, p, n)
        BY <1>1, <2>6, BytesAre
    <3> QED BY <2>8, <3>1 DEF AreBytes
  <2>10. PICK bytes : bytes = b.bytes \o more
      OBVIOUS
  <2>11. /\ bytes \in Seq((0..Len(readers)) \X Nat)
         /\ Len(bytes) = Len(b.bytes) + n
      BY <1>6, <2>9, <2>10, ConcatProperties
  <2>12. PICK result : result = IF n = b.left /\ b.cut /\ err = "nil"
                                THEN "EOF" ELSE err
      OBVIOUS
  <2>13. PICK pc : pc = IF LoopEnds(n, b.left, err) THEN "idle" ELSE "loop"
      OBVIOUS
  <2>14. call' = [b EXCEPT !.pc = pc, !.left = b.left - n, !.turn = ~b.turn,
                           !.bytes = bytes, !.err = result,
                           !.index = i, !.reader = i]
      BY <1>4, <2>4, <2>5, <2>7, <2>8, <2>10, <2>12, <2>13 DEF AfterReader
  <2>15. c = [op |-> "ReadAt", pc |-> pc, start |-> b.start, bytes |-> bytes,
              err |-> result, left |-> b.left - n, cut |-> b.cut,
              turn |-> ~b.turn, index |-> i, reader |-> i]
      BY <1>5, <1>8, <2>14 DEF Call
  <2>16. c \in Call
    <3>1. /\ i \in -1..Len(readers) /\ i \in Int /\ b.left - n \in Nat
          /\ b.start \in Int /\ (~b.turn) \in BOOLEAN
      <4>1. (~b.turn) \in BOOLEAN
          BY <1>6, Zenon
      <4>2. i \in -1..Len(readers) /\ i \in Int /\ b.start \in Int
          BY <1>2, <1>5, <2>2
      <4>3. b.left - n \in Nat
          BY <1>6, <2>6, <2>7
      <4> QED BY <4>1, <4>2, <4>3
    <3>2. pc \in {"idle", "loop"} /\ result \in Errors
        BY <2>6, <2>12, <2>13 DEF Errors
    <3> QED BY <1>6, <2>11, <2>15, <3>1, <3>2 DEF Call
  <2>17. err \notin {"ErrInvalidSize", "EIO"} => Placing(bytes, b.start)
    <3>1. SUFFICES ASSUME err \notin {"ErrInvalidSize", "EIO"}
                   PROVE  Placing(bytes, b.start)
        OBVIOUS
    <3>2. Placing(more, b.start + Len(b.bytes))
        BY <1>7, <2>6, <2>7, <2>8, <3>1
    <3> QED BY <1>5, <1>6, <2>9, <2>10, <3>2, PlacesAppend
  <2>18. Gives(c)
    <3>1. c.err = result /\ c.bytes = bytes /\ c.start = b.start
        BY <2>15
    <3>2. result \notin {"ErrInvalidSize", "EIO"} =>
            err \notin {"ErrInvalidSize", "EIO"}
        BY <2>12
    <3> QED BY <2>17, <3>1, <3>2 DEF Gives
  <2>19. Fills(c)
    <3>1. SUFFICES ASSUME c.pc = "loop" PROVE Fills(c)
        BY DEF Fills
    <3>2. n # b.left /\ err = "nil"
        BY <2>13, <2>15, <3>1 DEF LoopEnds
    <3>3. result = "nil"
        BY <2>12, <3>2
    <3>4. b.start + Len(bytes) + (b.left - n)
            = b.start + Len(b.bytes) + b.left
        BY <1>5, <1>6, <2>11
    <3> QED BY <1>5, <2>15, <3>3, <3>4 DEF Fills
  <2>20. Ends(c)
    <3>1. SUFFICES ASSUME c.err = "EOF"
                   PROVE  b.start + Len(bytes) >= UpperLimit \/ LastIsShort
        BY <2>15 DEF Ends
    <3>2. b.start + Len(bytes) = o + n
      <4>1. PICK l \in Nat : l = Len(b.bytes)
          BY <1>6
      <4> QED BY <1>5, <1>7, <2>11, <4>1
    <3>3. CASE err = "EOF"
        BY <2>6, <2>7, <3>2, <3>3
    <3>4. CASE n = b.left /\ b.cut
      <4>1. o + n = UpperLimit
          BY <1>5, <1>7, <3>4
      <4> QED BY <1>2, <3>2, <4>1
    <3>5. err = "EOF" \/ (n = b.left /\ b.cut)
        BY <2>12, <2>15, <3>1
    <3> QED BY <3>3, <3>4, <3>5
  <2>21. c.pc = "idle" /\ c.err = "nil" => c.left = 0
    <3>1. SUFFICES ASSUME pc = "idle", result = "nil" PROVE b.left - n = 0
        BY <2>15
    <3>2. err = "nil"
        BY <2>12, <3>1
    <3>3. n = b.left
        BY <2>13, <3>1, <3>2 DEF LoopEnds
    <3> QED BY <3>3
  <2>22. Tells(c)
      BY <2>15, <2>20, <2>21 DEF Tells
  <2>23. Good(c)
      BY <2>16, <2>18, <2>19, <2>22 DEF Good
  <2> QED BY <1>3, <1>8, <2>23, OnlyCall
<1> QED BY <1>9, <1>10

LEMMA StutterM ==
    ASSUME MInv, UNCHANGED vars
    PROVE  MInv'
<1>1. Good(call)
    BY InvariantOfCall
<1>2. PICK c : c = call'
    OBVIOUS
<1>3. Good(c) /\ UNCHANGED <<readers, idx, off>>
    BY <1>1, <1>2 DEF vars
<1> QED BY <1>2, <1>3, OnlyCall

\* The invariant is inductive.
LEMMA Invariant == Spec => []MInv
<1>1. MInv /\ [Next]_vars => MInv'
    BY ReadM, SeekM, CallReadAtM, ReadAtLoopM, StutterM DEF Next
<1> QED BY <1>1, InitM, PTL DEF Spec

-----------------------------------------------------------------------------
\* The state of the concatenated readers is well formed, in every state.
THEOREM TypesHold == Spec => []TypeOK
<1>1. MInv => TypeOK
    BY DEF MInv
<1> QED BY <1>1, Invariant, PTL

\* slices.BinarySearchFunc and the loop of search find the same reader, for
\* any number of readers of any sizes, empty ones included, and any offset:
\* searchThreshold is about speed alone.
THEOREM SearchesAlwaysAgree == Spec => []SearchesAgree
<1>1. MInv => SearchesAgree
  <2> SUFFICES ASSUME MInv, NEW k \in 0..Len(readers), NEW o \in 0..UpperLimit
               PROVE  BinarySearch(o, k) = LinearSearch(o, k)
      BY DEF SearchesAgree
  <2>1. Laid
      BY InvariantOfCall
  <2>2. o \in Nat
      BY <2>1, ReaderTypes
  <2> QED BY <2>1, <2>2, SearchesFindTheSame
<1> QED BY <1>1, Invariant, PTL

\* Read never indexes its readers with the -1 of search (line 139).
THEOREM ReadFindsItsReader == Spec => []ReaderFound
<1>1. MInv => ReaderFound
  <2> SUFFICES ASSUME MInv, off < UpperLimit PROVE Search(off, idx) >= 0
      BY DEF ReaderFound
  <2>1. /\ Laid /\ off \in Nat /\ idx < Len(readers) /\ HeadOff(idx) <= off
        /\ idx \in 0..Len(readers)
      BY InvariantOfCall DEF Placed
  <2>2. idx \in Indices /\ idx \in Nat
      BY <2>1, ReaderTypes
  <2>3. PICK i \in Indices : Search(off, idx) = i - idx /\ idx <= i
      BY <2>1, <2>2, SearchFinds
  <2>4. i \in Nat
      BY <2>1, ReaderTypes
  <2> QED BY <2>2, <2>3, <2>4
<1> QED BY <1>1, Invariant, PTL

\* The bytes of Read and ReadAt are those of their places in the
\* concatenation, whatever readers shorter or longer than said answer.
THEOREM BytesStayInPlace == Spec => []BytesInPlace
<1>1. MInv => BytesInPlace
    BY DEF MInv
<1> QED BY <1>1, Invariant, PTL

\* EOF, a short ReadAt without an error and the Index of an error of ReadAt
\* tell the caller what is so.
THEOREM ErrorsTell == Spec => []ErrorTells
<1>1. MInv => ErrorTells
    BY DEF MInv
<1> QED BY <1>1, Invariant, PTL
=============================================================================
