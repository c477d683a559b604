---------------------------- MODULE StreamsProofs ----------------------------
(***************************************************************************)
(* For any readers and buffers: the first error of a Cancellable stays,    *)
(* Close reaches every reader, and what is read is the readers' bytes, one *)
(* reader after the other.                                                 *)
(***************************************************************************)
EXTENDS Streams, TLAPS

-----------------------------------------------------------------------------
(***************************************************************************)
(* The reading goroutine.                                                  *)
(***************************************************************************)
\* what a call of Read holds; the bytes and the error are left open
Calls(data, e) ==
    [pc : {"idle", "check", "inner", "ret"}, buf : Bufs \cup {0},
     data : {data}, err : {e}, late : BOOLEAN]

\* Nothing is read once there was an error, or for a call that began when
\* the context was cancelled.
ReadInv ==
    /\ call \in Calls(call.data, call.err)
    /\ call.pc \in {"inner", "ret"} => err = Nil /\ ~ call.late
    /\ cancelled \in BOOLEAN
    /\ call.late => cancelled

LEMMA ReadInvInit == Init => ReadInv
  <1> SUFFICES ASSUME Init PROVE ReadInv
    OBVIOUS
  <1>1. /\ call = [pc |-> "idle", buf |-> 0, data |-> <<>>, err |-> Nil,
                   late |-> FALSE]
        /\ cancelled = FALSE
    BY DEF Init
  <1>2. call \in Calls(<<>>, Nil) /\ call.data = <<>> /\ call.err = Nil
        /\ call.pc = "idle" /\ call.late = FALSE
    BY <1>1 DEF Calls
  <1> QED BY <1>1, <1>2 DEF ReadInv

LEMMA ReadInvNext == ReadInv /\ [Next]_vars => ReadInv'
  <1> SUFFICES ASSUME ReadInv, [Next]_vars PROVE ReadInv'
    OBVIOUS
  <1> USE DEF ReadInv, Calls
  <1>1. CASE CallRead
    <2>1. PICK b \in Bufs :
            call' = [pc |-> "check", buf |-> b, data |-> <<>>, err |-> Nil,
                     late |-> cancelled]
      BY <1>1 DEF CallRead
    <2>2. cancelled' = cancelled /\ err' = err
      BY <1>1 DEF CallRead, otherVars
    <2>3. call' \in Calls(<<>>, Nil)
      BY <2>1
    <2>4. call'.pc = "check" /\ call'.late = cancelled /\ call'.data = <<>>
            /\ call'.err = Nil
      BY <2>1
    <2> QED BY <2>2, <2>3, <2>4
  <1>2. CASE Check
    <2>1. \/ /\ err' # Nil
             /\ call' = [call EXCEPT !.pc = "idle", !.err = err']
          \/ /\ err' = Nil /\ ~ cancelled
             /\ call' = [call EXCEPT !.pc = "inner"]
      <3>1. err' = Nil => err = Nil /\ ~ CtxErr
        BY <1>2, StreamsAssumption DEF Check
      <3> QED BY <1>2, <3>1 DEF Check, CtxErr
    <2>2. cancelled' = cancelled
      BY <1>2 DEF Check, otherVars
    <2> QED BY <2>1, <2>2
  <1>3. CASE InnerRead
    BY <1>3 DEF InnerRead, otherVars
  <1>4. CASE InnerEOF
    BY <1>4 DEF InnerEOF, otherVars
  <1>5. CASE ReadRet
    BY <1>5 DEF ReadRet, otherVars
  <1>6. CASE Cancel
    BY <1>6 DEF Cancel, readVars
  <1>7. CASE CallClose \/ CloseNext \/ CloseRet
    BY <1>7 DEF CallClose, CloseNext, CloseRet, readVars
  <1>8. CASE UNCHANGED vars
    BY <1>8 DEF vars, otherVars, readVars
  <1> QED BY <1>1, <1>2, <1>3, <1>4, <1>5, <1>6, <1>7, <1>8 DEF Next, Reading

(***************************************************************************)
(* The first error, be it of a reader or of the context, is the answer of  *)
(* every later Read, and none of them takes anything from the readers, nor *)
(* does one that began after the context was cancelled (cancellable.go).   *)
(***************************************************************************)
THEOREM FirstErrorStays == Spec => Sticky
  <1> DEFINE Stays ==
        /\ err # Nil => err' = err /\ off' = off
        /\ call.late => off' = off
        /\ call.pc # "idle" /\ call'.pc = "idle" => call'.err = err'
  <1>1. ReadInv /\ [Next]_vars => [Stays]_vars
    <2> SUFFICES ASSUME ReadInv, Next PROVE Stays
      OBVIOUS
    <2> USE DEF ReadInv, Calls
    <2>1. CASE CallRead
      BY <2>1 DEF CallRead
    <2>2. CASE Check
      BY <2>2 DEF Check, CtxErr
    <2>3. CASE InnerRead
      BY <2>3 DEF InnerRead
    <2>4. CASE InnerEOF
      BY <2>4 DEF InnerEOF
    <2>5. CASE ReadRet
      BY <2>5 DEF ReadRet
    <2>6. CASE Cancel \/ CallClose \/ CloseNext \/ CloseRet
      BY <2>6 DEF Cancel, CallClose, CloseNext, CloseRet, readVars
    <2> QED BY <2>1, <2>2, <2>3, <2>4, <2>5, <2>6 DEF Next, Reading
  <1>2. [Stays]_vars => [ /\ err # Nil => err' = err /\ off' = off
                          /\ call.late => off' = off
                          /\ call.pc # "idle" /\ call'.pc = "idle" =>
                                call'.err = err' ]_vars
    OBVIOUS
  <1> QED BY <1>1, <1>2, ReadInvInit, ReadInvNext, PTL DEF Spec, Sticky

-----------------------------------------------------------------------------
(***************************************************************************)
(* The closing goroutine.                                                  *)
(***************************************************************************)
Errors == {Nil} \cup ({"close"} \X Nat)

\* what a Close holds; what the last one returned is left open
Closes(ret) ==
    [pc : {"idle", "closing"}, errs : Seq(Errors), ret : {ret}, calls : Nat]

CloseTypes ==
    /\ close \in Closes(close.ret)
    /\ DOMAIN lens \subseteq Nat
    /\ closed \in [DOMAIN lens -> Seq(Errors)]
    /\ Len(closers) \in Nat /\ DOMAIN closers = 1 .. Len(closers)
    /\ \A k \in DOMAIN closers : closers[k] \in DOMAIN lens
    /\ \A j, k \in DOMAIN closers : closers[j] = closers[k] => j = k
    /\ Len(close.errs) <= Len(closers)

\* The readers before the one it is at were closed by this Close, and it has
\* their errors; those after it were closed by the Closes before.
Progress(k) ==
    LET rets == closed[closers[k]] IN
    IF close.calls = 0 THEN Len(rets) = 0
    ELSE IF k <= Len(close.errs)
    THEN Len(rets) = close.calls /\ rets[Len(rets)] = close.errs[k]
    ELSE Len(rets) = close.calls - 1

CloseInv ==
    /\ CloseTypes
    /\ \A k \in DOMAIN closers : Progress(k)
    /\ close.pc = "closing" => close.calls > 0
    /\ close.pc = "idle" /\ close.calls > 0 =>
        /\ Len(close.errs) = Len(closers)
        /\ close.ret = NewMultiErrorChecked(close.errs)

LEMMA CloseInvInit == Init => CloseInv
  <1> SUFFICES ASSUME Init PROVE CloseInv
    OBVIOUS
  <1>1. lens \in Seq(Nat) /\ Len(lens) \in Nat /\ DOMAIN lens = 1 .. Len(lens)
    BY StreamsAssumption DEF Init
  <1>2. PICK n \in 0 .. Len(lens) : closers \in [1 .. n -> DOMAIN lens]
    BY <1>1 DEF Init, SeqOf
  <1>3. DOMAIN closers = 1 .. n /\ Len(closers) = n /\ n \in Nat
    BY <1>1, <1>2
  <1>4. \A j, k \in DOMAIN closers : closers[j] = closers[k] => j = k
    <2>1. \A j, k \in DOMAIN closers : j < k => closers[j] < closers[k]
      BY DEF Init
    <2>2. \A k \in DOMAIN closers : closers[k] \in Nat
      BY <1>1, <1>2
    <2> SUFFICES ASSUME NEW j \in DOMAIN closers, NEW k \in DOMAIN closers,
                        closers[j] = closers[k], j # k
                 PROVE  FALSE
      OBVIOUS
    <2>3. j < k \/ k < j
      BY <1>3
    <2> QED BY <2>1, <2>2, <2>3
  <1>5. /\ close.pc = "idle" /\ close.errs = <<>> /\ close.calls = 0
        /\ close \in Closes(close.ret)
    BY DEF Init, Closes
  <1>6. /\ closed \in [DOMAIN lens -> Seq(Errors)]
        /\ \A i \in DOMAIN lens : closed[i] = <<>>
    BY DEF Init
  <1>7. CloseTypes
    BY <1>1, <1>2, <1>3, <1>4, <1>5, <1>6 DEF CloseTypes
  <1>8. \A k \in DOMAIN closers : Progress(k)
    BY <1>2, <1>3, <1>5, <1>6 DEF Progress
  <1> QED BY <1>5, <1>7, <1>8 DEF CloseInv

LEMMA CloseInvNext == CloseInv /\ [Next]_vars => CloseInv'
  <1> SUFFICES ASSUME CloseInv, [Next]_vars PROVE CloseInv'
    OBVIOUS
  <1> USE DEF CloseInv
  <1>1. close \in Closes(close.ret) /\ CloseTypes
    BY DEF CloseTypes
  <1>2. CASE CallClose
    <2> DEFINE c == [close EXCEPT !.pc = "closing", !.errs = <<>>, !.ret = Nil,
                                  !.calls = @ + 1]
    <2>1. close' = c /\ UNCHANGED <<lens, closers, closed>>
      BY <1>2 DEF CallClose
    <2>2. /\ c.pc = "closing" /\ c.errs = <<>> /\ c.calls = close.calls + 1
          /\ close.calls \in Nat /\ close.pc = "idle" /\ Len(c.errs) = 0
      BY <1>1, <1>2 DEF CallClose, Closes
    <2>3. c \in Closes(c.ret)
      <3>1. <<>> \in Seq(Errors) /\ close.calls + 1 \in Nat
        BY <2>2
      <3>2. c \in Closes(Nil)
        BY <1>1, <3>1 DEF Closes
      <3>3. c.ret = Nil
        BY <3>2 DEF Closes
      <3> HIDE DEF c
      <3> QED BY <3>2, <3>3
    <2> HIDE DEF c
    <2>4. CloseTypes'
      BY <1>1, <2>1, <2>2, <2>3 DEF CloseTypes
    <2>5. \A k \in DOMAIN closers : Progress(k)'
      <3> SUFFICES ASSUME NEW k \in DOMAIN closers PROVE Progress(k)'
        OBVIOUS
      <3>1. Len(closed[closers[k]]) = close.calls /\ k \in 1 .. Len(closers)
        BY <1>1, <2>2 DEF Progress, CloseTypes
      <3> QED BY <2>1, <2>2, <3>1 DEF Progress
    <2> QED BY <2>1, <2>2, <2>4, <2>5
  <1>3. CASE CloseNext
    <2> DEFINE n == Len(close.errs)
    <2>1. /\ close.pc = "closing" /\ n # Len(closers)
          /\ UNCHANGED <<lens, closers>>
      BY <1>3 DEF CloseNext, CloseDone
    <2>2. PICK e \in {Nil, <<"close", closers[n + 1]>>} :
            /\ closed' = [closed EXCEPT ![closers[n + 1]] = Append(@, e)]
            /\ close' = [close EXCEPT !.errs = Append(@, e)]
      BY <1>3 DEF CloseNext
    <2>3. /\ n \in Nat /\ n + 1 \in DOMAIN closers
          /\ close.errs \in Seq(Errors) /\ close.calls \in Nat
          /\ closers[n + 1] \in DOMAIN lens
      BY <1>1, <2>1 DEF CloseTypes, Closes
    <2>4. e \in Errors
      BY <1>1, <2>2, <2>3 DEF CloseTypes, Errors
    <2>5. /\ close'.pc = "closing" /\ close'.errs = Append(close.errs, e)
          /\ close'.calls = close.calls /\ close' \in Closes(close'.ret)
      <3>1. Append(close.errs, e) \in Seq(Errors)
        BY <2>3, <2>4
      <3>2. close' = [pc |-> close.pc, errs |-> Append(close.errs, e),
                      ret |-> close.ret, calls |-> close.calls]
        BY <1>1, <2>2 DEF Closes
      <3>3. /\ close'.pc = close.pc /\ close'.errs = Append(close.errs, e)
            /\ close'.ret = close.ret /\ close'.calls = close.calls
        BY <3>2
      <3> QED BY <2>1, <2>3, <3>1, <3>2, <3>3 DEF Closes
    <2>6. /\ Len(close'.errs) = n + 1 /\ close'.errs[n + 1] = e
          /\ \A k \in 1 .. n : close'.errs[k] = close.errs[k]
      BY <2>3, <2>4, <2>5
    <2>7. /\ closed' \in [DOMAIN lens -> Seq(Errors)]
          /\ closed'[closers[n + 1]] = Append(closed[closers[n + 1]], e)
          /\ \A i \in DOMAIN lens : i # closers[n + 1] => closed'[i] = closed[i]
      BY <1>1, <2>2, <2>3, <2>4 DEF CloseTypes
    <2>8. CloseTypes'
      BY <1>1, <2>1, <2>3, <2>5, <2>6, <2>7 DEF CloseTypes
    <2>9. ASSUME NEW k \in DOMAIN closers PROVE Progress(k)'
      <3>1. k \in Nat /\ Progress(k) /\ close.calls > 0
            /\ closed[closers[k]] \in Seq(Errors)
        BY <1>1, <2>1 DEF CloseTypes
      <3>2. CASE k = n + 1
        <4>1. closed'[closers'[k]] = Append(closed[closers[k]], e)
          BY <2>1, <2>7, <3>2
        <4>2. Len(closed[closers[k]]) = close.calls - 1
          BY <2>3, <3>1, <3>2 DEF Progress
        <4>3. /\ Len(closed'[closers'[k]]) = close.calls
              /\ closed'[closers'[k]][close.calls] = e
          BY <2>3, <2>4, <3>1, <4>1, <4>2
        <4> QED BY <2>3, <2>5, <2>6, <3>1, <3>2, <4>3 DEF Progress
      <3>3. CASE k # n + 1
        <4>1. closed'[closers'[k]] = closed[closers[k]]
          BY <1>1, <2>1, <2>3, <2>7, <3>3 DEF CloseTypes
        <4>2. k <= n <=> k <= n + 1
          BY <2>3, <3>1, <3>3
        <4>3. k <= n => close'.errs[k] = close.errs[k]
          BY <1>1, <2>3, <2>6, <3>1 DEF CloseTypes
        <4> QED BY <2>5, <2>6, <3>1, <4>1, <4>2, <4>3 DEF Progress
      <3> QED BY <3>2, <3>3
    <2> QED BY <2>1, <2>5, <2>8, <2>9
  <1>4. CASE CloseRet
    <2>1. /\ close.pc = "closing" /\ Len(close.errs) = Len(closers)
          /\ close' = [close EXCEPT !.pc = "idle", !.ret = CloseErr]
          /\ UNCHANGED <<lens, closers, closed>>
      BY <1>4 DEF CloseRet, CloseDone
    <2>2. /\ close'.pc = "idle" /\ close'.errs = close.errs
          /\ close'.calls = close.calls /\ close' \in Closes(close'.ret)
          /\ close'.ret = NewMultiErrorChecked(close.errs)
      BY <1>1, <2>1 DEF Closes, CloseErr
    <2>3. CloseTypes'
      BY <1>1, <2>1, <2>2 DEF CloseTypes
    <2>4. \A k \in DOMAIN closers : Progress(k)'
      BY <2>1, <2>2 DEF Progress
    <2> QED BY <2>1, <2>2, <2>3, <2>4
  <1>5. CASE UNCHANGED <<lens, closers, close, closed>>
    BY <1>5 DEF CloseTypes, Progress
  <1>6. CASE Reading \/ Cancel \/ UNCHANGED vars
    BY <1>5, <1>6 DEF Reading, CallRead, Check, InnerRead, InnerEOF, ReadRet,
                      Cancel, vars, otherVars
  <1> QED BY <1>2, <1>3, <1>4, <1>6 DEF Next

(***************************************************************************)
(* A Close that has returned has called Close of every reader that has one *)
(* once, whichever of them failed, and returns their errors, each at the   *)
(* position of its reader, or nil if there is none (multi_read_closer.go,  *)
(* multi_read_at_closer.go, serr).                                         *)
(***************************************************************************)
THEOREM CloseReachesAll == Spec => []CloseAll
  <1>1. CloseInv => CloseAll
    <2> SUFFICES ASSUME CloseInv, close.pc = "idle"
                 PROVE  /\ \A k \in DOMAIN closers :
                            Len(closed[closers[k]]) = close.calls
                        /\ LET last == [k \in DOMAIN closers |->
                                            Last(closed[closers[k]])] IN
                            close.calls > 0 =>
                                close.ret = IF \A k \in DOMAIN closers :
                                                last[k] = Nil
                                            THEN Nil ELSE last
      BY DEF CloseAll
    <2> USE DEF CloseInv
    <2>1. close.calls \in Nat /\ close.errs \in Seq(Errors)
      BY DEF CloseTypes, Closes
    <2>2. ASSUME NEW k \in DOMAIN closers
          PROVE  /\ Len(closed[closers[k]]) = close.calls
                 /\ close.calls > 0 =>
                        Last(closed[closers[k]]) = close.errs[k]
      BY <2>1 DEF CloseTypes, Progress, Last
    <2>3. ASSUME close.calls > 0
          PROVE  close.errs =
                    [k \in DOMAIN closers |-> Last(closed[closers[k]])]
      <3>1. /\ DOMAIN close.errs = DOMAIN closers
            /\ close.errs = [k \in 1 .. Len(close.errs) |-> close.errs[k]]
            /\ DOMAIN close.errs = 1 .. Len(close.errs)
        BY <2>1, <2>3 DEF CloseTypes
      <3>2. \A k \in DOMAIN closers :
                Last(closed[closers[k]]) = close.errs[k]
        BY <2>2, <2>3
      <3>3. close.errs = [k \in DOMAIN closers |-> close.errs[k]]
        BY <3>1
      <3> QED BY <3>2, <3>3
    <2>4. ASSUME close.calls > 0
          PROVE  DOMAIN close.errs = DOMAIN closers
                 /\ close.ret = NewMultiErrorChecked(close.errs)
      BY <2>1, <2>4 DEF CloseTypes
    <2> QED BY <2>2, <2>3, <2>4
            DEF NewMultiErrorChecked, NewMultiErrorUnchecked
  <1> QED BY <1>1, CloseInvInit, CloseInvNext, PTL DEF Spec

-----------------------------------------------------------------------------
(***************************************************************************)
(* What was delivered.                                                     *)
(***************************************************************************)
Bytes == Nat \X Nat

\* m more bytes of reader i, of which off[i] were read
More(i, m) == [k \in 1 .. m |-> <<i, off[i] + k>>]

\* Readers before rest were read to their ends, those after it not at all,
\* and what was read has been delivered, or is about to be.
Position ==
    /\ lens \in Seq(Nat)
    /\ off \in [DOMAIN lens -> Nat]
    /\ rest \in 1 .. Len(lens) + 1
    /\ \A i \in DOMAIN lens :
        /\ off[i] <= lens[i]
        /\ i < rest => off[i] = lens[i]
        /\ i > rest => off[i] = 0

DeliverInv ==
    /\ Position
    /\ call.data \in Seq(Bytes) /\ delivered \in Seq(Bytes)
    /\ call.pc \in {"check", "inner"} => call.data = <<>>
    /\ Concatenated(IF call.pc = "ret" THEN delivered \o call.data
                    ELSE delivered, off)
    /\ err = "EOF" => off = lens
    /\ call.pc = "ret" /\ call.err = "EOF" => off = lens

\* The bytes of a reader continue those of the readers before it.
LEMMA Continues ==
    ASSUME lens \in Seq(Nat), off \in [DOMAIN lens -> Nat],
           NEW s \in Seq(Bytes), Concatenated(s, off),
           NEW r \in DOMAIN lens, \A i \in DOMAIN lens : i > r => off[i] = 0,
           NEW m \in Nat
    PROVE  Concatenated(s \o More(r, m), [off EXCEPT ![r] = @ + m])
  <1> DEFINE t == s \o More(r, m)
             n == [off EXCEPT ![r] = @ + m]
  <1>1. DOMAIN lens \subseteq Nat /\ r \in Nat /\ off[r] \in Nat
        /\ DOMAIN off = DOMAIN lens
    OBVIOUS
  <1>2. More(r, m) \in Seq(Bytes) /\ Len(More(r, m)) = m
        /\ \A k \in 1 .. m : More(r, m)[k] = <<r, off[r] + k>>
    BY <1>1 DEF More, Bytes
  <1>3. /\ Len(t) = Len(s) + m /\ DOMAIN t = 1 .. Len(t) /\ Len(s) \in Nat
        /\ DOMAIN s = 1 .. Len(s)
        /\ \A k \in 1 .. Len(s) : t[k] = s[k]
        /\ \A k \in Len(s) + 1 .. Len(t) : t[k] = <<r, off[r] + (k - Len(s))>>
    <2>1. PICK more \in Seq(Bytes) : more = More(r, m)
      BY <1>2
    <2>2. /\ Len(s \o more) = Len(s) + m /\ Len(s) \in Nat
          /\ s \o more \in Seq(Bytes)
          /\ \A k \in 1 .. Len(s) : (s \o more)[k] = s[k]
          /\ \A k \in Len(s) + 1 .. Len(s) + m :
                (s \o more)[k] = more[k - Len(s)]
      <3>1. Len(more) = m /\ Len(s) \in Nat
        BY <1>2, <2>1
      <3>2. s \o more \in Seq(Bytes) /\ Len(s \o more) = Len(s) + Len(more)
        OBVIOUS
      <3>3. \A k \in 1 .. Len(s) + Len(more) :
                (s \o more)[k] = IF k <= Len(s) THEN s[k] ELSE more[k - Len(s)]
        BY <3>1
      <3> HIDE <2>1
      <3> QED BY <3>1, <3>2, <3>3
    <2>3. \A k \in Len(s) + 1 .. Len(s) + m : k - Len(s) \in 1 .. m
      BY <2>2
    <2>4. \A k \in Len(s) + 1 .. Len(s) + m :
            more[k - Len(s)] = <<r, off[r] + (k - Len(s))>>
      BY <1>2, <2>1, <2>3
    <2>5. t = s \o more
      BY <2>1
    <2> HIDE DEF t
    <2> QED BY <2>2, <2>4, <2>5
  <1>4. \A k \in 1 .. Len(s) :
            \E i \in DOMAIN lens : \E b \in 1 .. off[i] : s[k] = <<i, b>>
    <2> SUFFICES ASSUME NEW k \in 1 .. Len(s)
                 PROVE  \E i \in DOMAIN lens : \E b \in 1 .. off[i] :
                            s[k] = <<i, b>>
      OBVIOUS
    <2>1. s[k] \in Range(s)
      BY <1>3 DEF Range
    <2>2. PICK i \in DOMAIN off : s[k] \in {i} \X (1 .. off[i])
      BY <2>1 DEF Concatenated
    <2> QED BY <1>1, <2>2
  <1>5. DOMAIN n = DOMAIN lens /\ n[r] = off[r] + m
        /\ \A i \in DOMAIN lens : i # r => n[i] = off[i]
    BY <1>1
  <1> HIDE DEF t, n
  <1>6. \A j, k \in DOMAIN t : j < k => Before(t[j], t[k])
    <2> SUFFICES ASSUME NEW j \in DOMAIN t, NEW k \in DOMAIN t, j < k
                 PROVE  Before(t[j], t[k])
      OBVIOUS
    <2>1. CASE k <= Len(s)
      <3>1. j \in DOMAIN s /\ k \in DOMAIN s /\ t[j] = s[j] /\ t[k] = s[k]
        BY <1>3, <2>1
      <3> QED BY <3>1 DEF Concatenated
    <2>2. CASE j <= Len(s) /\ k > Len(s)
      <3>1. t[j] = s[j] /\ j \in 1 .. Len(s)
            /\ t[k] = <<r, off[r] + (k - Len(s))>>
        BY <1>3, <2>2
      <3>2. PICK i \in DOMAIN lens : \E b \in 1 .. off[i] : s[j] = <<i, b>>
        BY <1>4, <3>1
      <3>3. PICK b \in 1 .. off[i] : s[j] = <<i, b>>
        BY <3>2
      <3>4. i <= r
        BY <1>1, <3>3
      <3>5. i = r => b < off[r] + (k - Len(s))
        BY <1>1, <1>3, <2>2, <3>3
      <3> QED BY <1>1, <3>1, <3>3, <3>4, <3>5 DEF Before
    <2>3. CASE j > Len(s)
      <3>1. /\ t[j] = <<r, off[r] + (j - Len(s))>>
            /\ t[k] = <<r, off[r] + (k - Len(s))>>
        <4>1. j \in Len(s) + 1 .. Len(t) /\ k \in Len(s) + 1 .. Len(t)
          BY <1>3, <2>3
        <4> QED BY <1>3, <4>1
      <3>2. off[r] + (j - Len(s)) < off[r] + (k - Len(s))
        BY <1>1, <1>3
      <3> QED BY <3>1, <3>2 DEF Before
    <2> QED BY <1>3, <2>1, <2>2, <2>3
  <1>7. ASSUME NEW p \in Range(t)
        PROVE  \E i \in DOMAIN n : p \in {i} \X (1 .. n[i])
    <2>1. PICK k \in DOMAIN t : p = t[k]
      BY DEF Range
    <2>2. CASE k <= Len(s)
      <3>1. k \in 1 .. Len(s) /\ p = s[k]
        BY <1>3, <2>1, <2>2
      <3>2. PICK i \in DOMAIN lens : \E b \in 1 .. off[i] : s[k] = <<i, b>>
        BY <1>4, <3>1
      <3>3. PICK b \in 1 .. off[i] : s[k] = <<i, b>>
        BY <3>2
      <3>4. b \in 1 .. n[i]
        <4>1. off[i] \in Nat /\ n[i] \in Nat /\ off[i] <= n[i]
          BY <1>1, <1>5
        <4> QED BY <4>1
      <3> QED BY <1>5, <3>1, <3>3, <3>4
    <2>3. CASE k > Len(s)
      <3>1. p = <<r, off[r] + (k - Len(s))>>
        BY <1>3, <2>1, <2>3
      <3>2. off[r] + (k - Len(s)) \in 1 .. n[r]
        BY <1>1, <1>3, <1>5, <2>3
      <3> QED BY <1>5, <3>1, <3>2
    <2> QED BY <1>3, <2>2, <2>3
  <1>8. ASSUME NEW i \in DOMAIN n, NEW p \in {i} \X (1 .. n[i])
        PROVE  p \in Range(t)
    <2>1. PICK b \in 1 .. n[i] : p = <<i, b>>
      OBVIOUS
    <2>2. CASE b \in 1 .. off[i]
      <3>1. p \in Range(s)
        BY <1>1, <1>5, <2>1, <2>2 DEF Concatenated
      <3>2. PICK k \in DOMAIN s : p = s[k]
        BY <3>1 DEF Range
      <3>3. k \in DOMAIN t /\ p = t[k]
        BY <1>3, <3>2
      <3> QED BY <3>3 DEF Range
    <2>3. CASE b \notin 1 .. off[i]
      <3>1. i = r /\ b > off[r]
        BY <1>1, <1>5, <2>1, <2>3
      <3> DEFINE k == Len(s) + (b - off[r])
      <3>2. k \in Len(s) + 1 .. Len(t) /\ k \in DOMAIN t
        BY <1>1, <1>3, <1>5, <2>1, <3>1
      <3>3. off[r] + (k - Len(s)) = b
        BY <1>1, <1>3, <2>1
      <3>4. p = t[k]
        BY <1>3, <2>1, <3>1, <3>2, <3>3
      <3> QED BY <3>2, <3>4 DEF Range
    <2> QED BY <2>2, <2>3
  <1>9. Range(t) = UNION {{i} \X (1 .. n[i]) : i \in DOMAIN n}
    BY <1>7, <1>8
  <1>10. Concatenated(t, n)
    BY <1>6, <1>9 DEF Concatenated
  <1> QED BY <1>10 DEF t, n

LEMMA SameFunction ==
    ASSUME NEW s \in Seq(Nat), NEW f \in [DOMAIN s -> Nat],
           \A i \in DOMAIN s : f[i] = s[i]
    PROVE  f = s
  <1>1. f = [i \in DOMAIN s |-> f[i]] /\ s = [i \in DOMAIN s |-> s[i]]
    OBVIOUS
  <1>2. [i \in DOMAIN s |-> f[i]] = [i \in DOMAIN s |-> s[i]]
    OBVIOUS
  <1> QED BY <1>1, <1>2

LEMMA DeliverInvInit == Init => DeliverInv
  <1> SUFFICES ASSUME Init PROVE DeliverInv
    OBVIOUS
  <1>1. /\ lens \in Seq(Nat) /\ DOMAIN lens = 1 .. Len(lens) /\ Len(lens) \in Nat
        /\ off = [i \in DOMAIN lens |-> 0] /\ rest = 1 /\ delivered = <<>>
        /\ err = Nil
        /\ call = [pc |-> "idle", buf |-> 0, data |-> <<>>, err |-> Nil,
                   late |-> FALSE]
    BY StreamsAssumption DEF Init
  <1>2. call.pc = "idle" /\ call.data = <<>>
    BY <1>1
  <1>3. Position
    BY <1>1 DEF Position
  <1>4. Concatenated(delivered, off)
    <2>1. Range(delivered) = {}
      BY <1>1 DEF Range
    <2>2. \A i \in DOMAIN off : {i} \X (1 .. off[i]) = {}
      BY <1>1
    <2>3. UNION {{i} \X (1 .. off[i]) : i \in DOMAIN off} = {}
      BY <2>2
    <2>4. DOMAIN delivered = {}
      BY <1>1
    <2> QED BY <2>1, <2>3, <2>4 DEF Concatenated
  <1> QED BY <1>1, <1>2, <1>3, <1>4, StreamsAssumption DEF DeliverInv

LEMMA DeliverInvNext == ReadInv /\ DeliverInv /\ [Next]_vars => DeliverInv'
  <1> SUFFICES ASSUME ReadInv, DeliverInv, [Next]_vars PROVE DeliverInv'
    OBVIOUS
  <1>0. /\ call \in Calls(call.data, call.err) /\ Nil # "EOF"
        /\ call.pc \in {"inner", "ret"} => err = Nil
        /\ call.data \in Seq(Bytes) /\ delivered \in Seq(Bytes)
    BY StreamsAssumption DEF ReadInv, DeliverInv
  \* what the other goroutine and the context do
  <1>1. ASSUME UNCHANGED <<lens, off, rest, err, call, delivered>>
        PROVE  DeliverInv'
    BY <1>1 DEF DeliverInv, Position, Concatenated
  <1>2. CASE CallRead
    <2>1. PICK b \in Bufs :
            call' = [pc |-> "check", buf |-> b, data |-> <<>>, err |-> Nil,
                     late |-> cancelled]
      BY <1>2 DEF CallRead
    <2>2. call'.pc = "check" /\ call'.data = <<>> /\ call.pc = "idle"
      BY <1>2, <2>1 DEF CallRead
    <2>3. UNCHANGED <<lens, off, rest, err, delivered>>
      BY <1>2 DEF CallRead, otherVars
    <2>4. Position' /\ <<>> \in Seq(Bytes)
      BY <2>3 DEF DeliverInv, Position
    <2> QED BY <2>2, <2>3, <2>4 DEF DeliverInv, Concatenated
  <1>3. CASE Check
    <2>1. /\ err' \in {err, "cancelled"} /\ UNCHANGED <<lens, off, rest, delivered>>
          /\ call.pc = "check"
      BY <1>3 DEF Check, otherVars
    <2>2. call'.pc \in {"idle", "inner"} /\ call'.data = call.data
      BY <1>0, <1>3 DEF Check, Calls
    <2>3. Position' /\ call.data = <<>>
      BY <2>1 DEF DeliverInv, Position
    <2> QED BY <1>0, <2>1, <2>2, <2>3 DEF DeliverInv, Concatenated
  <1>4. CASE InnerRead
    <2>1. call.pc = "inner" /\ rest <= Len(lens) /\ err' = err
          /\ UNCHANGED <<lens, delivered>>
      BY <1>4 DEF InnerRead, otherVars, Readers
    <2>2. PICK r \in Results(rest, call.buf) :
            /\ off' = [off EXCEPT ![rest] = @ + r[1]]
            /\ rest' = IF r[2] = "EOF" THEN rest + 1 ELSE rest
            /\ call' = [call EXCEPT
                  !.data = More(rest, r[1]),
                  !.err = IF r[2] = "EOF"
                             /\ (IF r[2] = "EOF" THEN rest + 1 ELSE rest)
                                    <= Len(Readers)
                          THEN Nil ELSE r[2],
                  !.pc = IF r[1] > 0 \/ r[2] # "EOF" THEN "ret" ELSE "inner"]
      BY <1>4 DEF InnerRead, More
    <2>3. PICK n \in Nat : n = r[1] /\ off[rest] + n <= lens[rest]
                /\ (r[2] = "EOF" => off[rest] + n = lens[rest])
      <3>1. rest \in DOMAIN lens /\ off[rest] \in Nat /\ off[rest] <= lens[rest]
        BY <2>1 DEF DeliverInv, Position
      <3>2. CASE closed[rest] # <<>>
        <4>1. r = <<0, "closed">>
          BY <2>2, <3>2 DEF Results
        <4> QED BY <3>1, <4>1
      <3>3. CASE closed[rest] = <<>>
        <4>1. r \in (0 .. call.buf) \X {Nil, "EOF", "failed"}
              /\ off[rest] + r[1] <= Readers[rest]
              /\ (r[2] = "EOF" => off[rest] + r[1] = Readers[rest])
          BY <2>2, <3>3 DEF Results
        <4>2. call.buf \in Nat
          BY <1>0, StreamsAssumption DEF Calls
        <4> QED BY <4>1, <4>2 DEF Readers
      <3> QED BY <3>2, <3>3
    <2>4. /\ lens \in Seq(Nat) /\ off \in [DOMAIN lens -> Nat]
          /\ rest \in DOMAIN lens /\ rest \in Nat /\ off[rest] \in Nat
          /\ DOMAIN lens = 1 .. Len(lens) /\ Len(lens) \in Nat
      BY <2>1 DEF DeliverInv, Position
    <2>5. off' = [off EXCEPT ![rest] = @ + n]
      BY <2>2, <2>3
    <2>6. /\ off' \in [DOMAIN lens -> Nat] /\ off'[rest] = off[rest] + n
          /\ \A i \in DOMAIN lens : i # rest => off'[i] = off[i]
      BY <2>4, <2>5
    <2>7. Position'
      <3>1. rest' \in 1 .. Len(lens) + 1 /\ rest' \in {rest, rest + 1}
            /\ (rest' = rest + 1 => off'[rest] = lens[rest])
        BY <2>2, <2>3, <2>4, <2>6
      <3>2. \A i \in DOMAIN lens :
                /\ off'[i] <= lens[i]
                /\ i < rest' => off'[i] = lens[i]
                /\ i > rest' => off'[i] = 0
        <4> SUFFICES ASSUME NEW i \in DOMAIN lens
                     PROVE  /\ off'[i] <= lens[i]
                            /\ i < rest' => off'[i] = lens[i]
                            /\ i > rest' => off'[i] = 0
          OBVIOUS
        <4>1. /\ i \in Nat /\ off[i] <= lens[i]
              /\ i < rest => off[i] = lens[i]
              /\ i > rest => off[i] = 0
          BY <2>4 DEF DeliverInv, Position
        <4>2. CASE i = rest
          BY <2>3, <2>4, <2>6, <3>1, <4>1, <4>2
        <4>3. CASE i # rest
          BY <2>4, <2>6, <3>1, <4>1, <4>3
        <4> QED BY <4>2, <4>3
      <3> QED BY <2>1, <2>4, <2>6, <3>1, <3>2 DEF Position
    <2>8. Concatenated(delivered \o More(rest, n), off')
      <3>1. Concatenated(delivered, off)
        BY <2>1 DEF DeliverInv
      <3>2. \A i \in DOMAIN lens : i > rest => off[i] = 0
        BY DEF DeliverInv, Position
      <3> QED BY <1>0, <2>4, <2>5, <3>1, <3>2, Continues
    <2>9. /\ call'.data = More(rest, n) /\ More(rest, n) \in Seq(Bytes)
          /\ call'.pc = IF n > 0 \/ r[2] # "EOF" THEN "ret" ELSE "inner"
      <3>1. /\ call'.data = More(rest, r[1])
            /\ call'.pc = IF r[1] > 0 \/ r[2] # "EOF" THEN "ret" ELSE "inner"
        BY <1>0, <2>2 DEF Calls
      <3>2. \A k \in 1 .. n : <<rest, off[rest] + k>> \in Bytes
        BY <2>3, <2>4 DEF Bytes
      <3>3. More(rest, n) \in Seq(Bytes)
        BY <2>3, <3>2 DEF More
      <3> QED BY <2>3, <3>1, <3>3
    <2>10. call'.pc # "ret" => More(rest, n) = <<>>
      BY <2>3, <2>9 DEF More
    <2>11. call'.err = "EOF" => off' = lens
      <3> SUFFICES ASSUME call'.err = "EOF" PROVE off' = lens
        OBVIOUS
      <3>1. r[2] = "EOF" /\ rest = Len(lens)
        <4>1. call'.err = IF r[2] = "EOF"
                             /\ (IF r[2] = "EOF" THEN rest + 1 ELSE rest)
                                    <= Len(Readers)
                          THEN Nil ELSE r[2]
          BY <1>0, <2>2 DEF Calls
        <4>2. r[2] = "EOF"
          BY <1>0, <4>1
        <4>3. ~ (rest + 1 <= Len(lens))
          BY <1>0, <4>1, <4>2 DEF Readers
        <4> QED BY <2>4, <4>2, <4>3
      <3>2. \A i \in DOMAIN lens : off'[i] = lens[i]
        BY <2>3, <2>4, <2>6, <3>1 DEF DeliverInv, Position
      <3> QED BY <2>4, <2>6, <3>2, SameFunction
    <2>12. call'.pc # "ret" => Concatenated(delivered, off')
      <3> SUFFICES ASSUME call'.pc # "ret" PROVE Concatenated(delivered, off')
        OBVIOUS
      <3>1. delivered \o More(rest, n) = delivered
        BY <1>0, <2>10
      <3> QED BY <2>8, <3>1
    <2>13. call'.pc \in {"inner", "ret"} /\ err # "EOF"
      BY <1>0, <2>1, <2>9
    <2> QED BY <1>0, <2>1, <2>7, <2>8, <2>9, <2>10, <2>11, <2>12, <2>13
            DEF DeliverInv, Concatenated
  <1>5. CASE InnerEOF
    <2>1. /\ call.pc = "inner" /\ rest > Len(lens)
          /\ call' = [call EXCEPT !.err = "EOF", !.pc = "ret"]
          /\ UNCHANGED <<lens, off, rest, err, delivered>>
      BY <1>5 DEF InnerEOF, otherVars, Readers
    <2>2. call'.pc = "ret" /\ call'.data = <<>> /\ call.data = <<>>
      BY <1>0, <2>1 DEF DeliverInv, Calls
    <2>3. off = lens
      <3>1. lens \in Seq(Nat) /\ off \in [DOMAIN lens -> Nat]
            /\ rest \in Nat
        BY DEF DeliverInv, Position
      <3>2. \A i \in DOMAIN lens : i < rest
        BY <2>1, <3>1
      <3>3. \A i \in DOMAIN lens : off[i] = lens[i]
        BY <3>2 DEF DeliverInv, Position
      <3> QED BY <3>1, <3>3, SameFunction
    <2>4. Position' /\ delivered \o <<>> = delivered
      BY <1>0, <2>1 DEF DeliverInv, Position
    <2>5. call'.data \in Seq(Bytes) /\ delivered' \in Seq(Bytes)
      BY <1>0, <2>1, <2>2
    <2>6. (IF call.pc = "ret" THEN delivered \o call.data ELSE delivered)'
            = delivered
      BY <2>1, <2>2, <2>4
    <2>7. Concatenated(IF call.pc = "ret" THEN delivered \o call.data
                       ELSE delivered, off)'
      BY <2>1, <2>6 DEF DeliverInv, Concatenated
    <2>8. off' = lens' /\ call'.pc = "ret"
      BY <2>1, <2>2, <2>3
    <2> QED BY <2>4, <2>5, <2>7, <2>8 DEF DeliverInv
  <1>6. CASE ReadRet
    <2>1. /\ call.pc = "ret" /\ err' = call.err
          /\ delivered' = delivered \o call.data
          /\ call' = [call EXCEPT !.pc = "idle"]
          /\ UNCHANGED <<lens, off, rest>>
      BY <1>6 DEF ReadRet, otherVars
    <2>2. call'.pc = "idle" /\ call'.data = call.data
          /\ delivered' \in Seq(Bytes)
      BY <1>0, <2>1 DEF Calls
    <2>3. Position'
      BY <2>1 DEF DeliverInv, Position
    <2>4. Concatenated(delivered', off') /\ (err' = "EOF" => off' = lens')
      BY <2>1 DEF DeliverInv
    <2>5. call'.data \in Seq(Bytes)
      BY <1>0, <2>2
    <2>6. (IF call.pc = "ret" THEN delivered \o call.data ELSE delivered)'
            = delivered'
      BY <2>2
    <2>7. Concatenated(IF call.pc = "ret" THEN delivered \o call.data
                       ELSE delivered, off)'
      BY <2>4, <2>6 DEF Concatenated
    <2>8. /\ Position' /\ (call.data \in Seq(Bytes))'
          /\ (delivered \in Seq(Bytes))'
          /\ (call.pc \in {"check", "inner"} => call.data = <<>>)'
          /\ (err = "EOF" => off = lens)'
          /\ (call.pc = "ret" /\ call.err = "EOF" => off = lens)'
      BY <2>2, <2>3, <2>4, <2>5
    <2> QED BY <2>7, <2>8 DEF DeliverInv
  <1>7. CASE Cancel \/ CallClose \/ CloseNext \/ CloseRet \/ UNCHANGED vars
    <2>1. UNCHANGED <<lens, off, rest, err, call, delivered>>
      BY <1>7 DEF Cancel, CallClose, CloseNext, CloseRet, vars, readVars,
                  otherVars
    <2> QED BY <1>1, <2>1
  <1> QED BY <1>2, <1>3, <1>4, <1>5, <1>6, <1>7 DEF Next, Reading

(***************************************************************************)
(* Whatever the readers return and whenever they are closed, Reads deliver *)
(* what was read, in the order of the readers, and io.EOF only once every  *)
(* byte was (multi_read_closer.go, cancellable.go).                        *)
(***************************************************************************)
THEOREM AllDelivered == Spec => []Delivered
  <1>1. ReadInv /\ DeliverInv => Delivered
    BY StreamsAssumption DEF ReadInv, DeliverInv, Delivered
  <1> QED BY <1>1, ReadInvInit, ReadInvNext, DeliverInvInit, DeliverInvNext,
             PTL DEF Spec
=============================================================================
