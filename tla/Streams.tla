------------------------------ MODULE Streams -------------------------------
(***************************************************************************)
(* The readers of package stream that have no offset: NewMultiReadCloser   *)
(* (multi_read_closer.go), which reads its readers one after the other and *)
(* closes them all, with the error it makes of theirs (serr), and          *)
(* NewCancellable (cancellable.go) on top of it, which stops when its      *)
(* context is cancelled and remembers its first error.                     *)
(*                                                                         *)
(* One goroutine reads, as NewCancellable requires.  Another one closes,   *)
(* and the context is cancelled at any time.  The readers are anyone's:    *)
(* Read may give fewer bytes than asked for, none, or an error, and fails  *)
(* after Close; Close may fail.  A byte is its reader and its offset.      *)
(***************************************************************************)
EXTENDS Integers, Sequences, SequencesExt

CONSTANTS
    ReaderLists,    \* sequences of the readers' lengths
    Bufs,           \* lengths of the buffers given to Read
    MaxCloses,      \* bound: calls of Close
    Nil

ASSUME StreamsAssumption ==
    /\ ReaderLists \subseteq Seq(Nat) /\ Bufs \subseteq Nat
    /\ MaxCloses \in Nat
    /\ Nil \notin {"EOF", "failed", "closed", "cancelled"}

VARIABLES
    lens,       \* the readers
    off,        \* how far each was read
    rest,       \* the first reader io.MultiReader has not finished
    cancelled,  \* ctx
    err,        \* cancellable.err
    call,       \* the reading goroutine
    delivered,  \* the bytes its Reads returned
    closers,    \* the readers Close closes
    close,      \* the closing goroutine
    closed      \* for each reader, what its Closes returned

readVars == <<off, rest, err, call, delivered>>
otherVars == <<lens, closers, cancelled, close, closed>>
vars == <<otherVars, readVars>>

-----------------------------------------------------------------------------
\* the readers in the order io.MultiReader has them (NewMultiReadCloser)
Readers == lens

\* fault: a cancelled context is not noticed
CtxIgnored == FALSE

CtxErr == cancelled

\* a goroutine that calls Read again and again
CallRead ==
    /\ call.pc = "idle"
    /\ \E b \in Bufs :
        call' = [pc |-> "check", buf |-> b, data |-> <<>>, err |-> Nil,
                 late |-> cancelled]
    /\ UNCHANGED <<off, rest, err, delivered, otherVars>>

\* fault: the error is not remembered
CheckForgets ==
    /\ call.pc = "check"
    /\ IF CtxErr
       THEN /\ err' = "cancelled"
            /\ call' = [call EXCEPT !.pc = "idle", !.err = err']
       ELSE call' = [call EXCEPT !.pc = "inner"] /\ UNCHANGED err
    /\ UNCHANGED <<off, rest, delivered, otherVars>>

\* Cancellable's Read, up to c.r.Read
Check ==
    /\ call.pc = "check"
    /\ err' = IF err = Nil /\ CtxErr THEN "cancelled" ELSE err
    /\ call' = IF err' # Nil THEN [call EXCEPT !.pc = "idle", !.err = err']
               ELSE [call EXCEPT !.pc = "inner"]
    /\ UNCHANGED <<off, rest, delivered, otherVars>>

\* what the Read of reader i may return: how many bytes, and an error
Results(i, buf) ==
    IF closed[i] # <<>> THEN {<<0, "closed">>}
    ELSE {r \in (0 .. buf) \X {Nil, "EOF", "failed"} :
            /\ off[i] + r[1] <= Readers[i]
            /\ r[2] = "EOF" => off[i] + r[1] = Readers[i]}

\* io.MultiReader: one Read of one reader; at its end the next is tried
InnerRead ==
    /\ call.pc = "inner" /\ rest <= Len(Readers)
    /\ \E r \in Results(rest, call.buf) :
        LET n == r[1]  e == r[2]
            next == IF e = "EOF" THEN rest + 1 ELSE rest
        IN
        /\ off' = [off EXCEPT ![rest] = @ + n]
        /\ rest' = next
        /\ call' = [call EXCEPT
                !.data = [k \in 1 .. n |-> <<rest, off[rest] + k>>],
                !.err = IF e = "EOF" /\ next <= Len(Readers) THEN Nil ELSE e,
                !.pc = IF n > 0 \/ e # "EOF" THEN "ret" ELSE "inner"]
    /\ UNCHANGED <<err, delivered, otherVars>>

InnerEOF ==
    /\ call.pc = "inner" /\ rest > Len(Readers)
    /\ call' = [call EXCEPT !.err = "EOF", !.pc = "ret"]
    /\ UNCHANGED <<off, rest, err, delivered, otherVars>>

\* fault: the bytes that come with an error are not returned
ReadRetErrOnly ==
    /\ call.pc = "ret"
    /\ err' = call.err
    /\ delivered' = IF call.err = Nil THEN delivered \o call.data ELSE delivered
    /\ call' = [call EXCEPT !.pc = "idle"]
    /\ UNCHANGED <<off, rest, otherVars>>

\* Cancellable's Read, after c.r.Read
ReadRet ==
    /\ call.pc = "ret"
    /\ err' = call.err
    /\ delivered' = delivered \o call.data
    /\ call' = [call EXCEPT !.pc = "idle"]
    /\ UNCHANGED <<off, rest, otherVars>>

Cancel ==
    /\ ~ cancelled
    /\ cancelled' = TRUE
    /\ UNCHANGED <<lens, closers, close, closed, readVars>>

-----------------------------------------------------------------------------
(***************************************************************************)
(* serr/multi_error.go                                                     *)
(***************************************************************************)
NewMultiErrorUnchecked(errs) == errs

\* nil errors are left out
NewMultiError(errs) ==
    LET filtered == SelectSeq(errs, LAMBDA e : e # Nil) IN
    IF filtered = <<>> THEN Nil ELSE NewMultiErrorUnchecked(filtered)

NewMultiErrorChecked(errs) ==
    IF \E i \in DOMAIN errs : errs[i] # Nil
    THEN NewMultiErrorUnchecked(errs) ELSE Nil

-----------------------------------------------------------------------------
(***************************************************************************)
(* Close of multiReadCloser, and of multiReadAtSeekCloser, which passes    *)
(* over the readers that are no io.Closer.                                 *)
(***************************************************************************)
CallClose ==
    /\ close.pc = "idle" /\ close.calls < MaxCloses
    /\ close' = [close EXCEPT !.pc = "closing", !.errs = <<>>, !.ret = Nil,
                              !.calls = @ + 1]
    /\ UNCHANGED <<lens, closers, cancelled, closed, readVars>>

\* fault: the loop ends at an error
CloseStops ==
    \/ Len(close.errs) = Len(closers)
    \/ \E i \in DOMAIN close.errs : close.errs[i] # Nil

CloseDone == Len(close.errs) = Len(closers)

CloseNext ==
    /\ close.pc = "closing" /\ ~ CloseDone
    /\ LET i == closers[Len(close.errs) + 1] IN
        \E e \in {Nil, <<"close", i>>} :
            /\ closed' = [closed EXCEPT ![i] = Append(@, e)]
            /\ close' = [close EXCEPT !.errs = Append(@, e)]
    /\ UNCHANGED <<lens, closers, cancelled, readVars>>

\* fault: the error has the errors only, and no longer whose they are
CloseErrFiltered == NewMultiError(close.errs)

CloseErr == NewMultiErrorChecked(close.errs)

CloseRet ==
    /\ close.pc = "closing" /\ CloseDone
    /\ close' = [close EXCEPT !.pc = "idle", !.ret = CloseErr]
    /\ UNCHANGED <<lens, closers, cancelled, closed, readVars>>

-----------------------------------------------------------------------------
Init ==
    /\ lens \in ReaderLists
    /\ closers \in {s \in SeqOf(DOMAIN lens, Len(lens)) :
                        \A j, k \in DOMAIN s : j < k => s[j] < s[k]}
    /\ off = [i \in DOMAIN lens |-> 0]
    /\ rest = 1
    /\ cancelled = FALSE
    /\ err = Nil
    /\ call = [pc |-> "idle", buf |-> 0, data |-> <<>>, err |-> Nil,
               late |-> FALSE]
    /\ delivered = <<>>
    /\ close = [pc |-> "idle", errs |-> <<>>, ret |-> Nil, calls |-> 0]
    /\ closed = [i \in DOMAIN lens |-> <<>>]

Reading == CallRead \/ Check \/ InnerRead \/ InnerEOF \/ ReadRet

Next == Reading \/ Cancel \/ CallClose \/ CloseNext \/ CloseRet

Spec == Init /\ [][Next]_vars

\* The reading goroutine is scheduled, calls Read again whatever the last
\* one returned, and the Read of a reader returns.  Nobody has to cancel.
FairSpec == Spec /\ WF_vars(Reading)

-----------------------------------------------------------------------------
Before(a, b) == a[1] < b[1] \/ (a[1] = b[1] /\ a[2] < b[2])

\* s is the first n[i] bytes of each reader i, one reader after the other
Concatenated(s, n) ==
    /\ \A j, k \in DOMAIN s : j < k => Before(s[j], s[k])
    /\ Range(s) = UNION {{i} \X (1 .. n[i]) : i \in DOMAIN n}

(***************************************************************************)
(* What Reads have returned is what was read, each reader's bytes in order *)
(* and after those of the reader before it; io.EOF comes only when all of  *)
(* them were returned, errors, short reads and a Close by another          *)
(* goroutine notwithstanding (multi_read_closer.go, cancellable.go).       *)
(***************************************************************************)
Delivered ==
    /\ call.pc # "ret" => Concatenated(delivered, off)
    /\ err = "EOF" => Concatenated(delivered, lens)

(***************************************************************************)
(* The first error is the answer of every later Read, and no Read that     *)
(* begins after it, or after the context was cancelled, takes anything     *)
(* from the readers (cancellable.go).                                      *)
(***************************************************************************)
Sticky ==
    [][ /\ err # Nil => err' = err /\ off' = off
        /\ call.late => off' = off
        /\ call.pc # "idle" /\ call'.pc = "idle" => call'.err = err' ]_vars

(***************************************************************************)
(* A Close that has returned has called Close once of every reader that    *)
(* has one, those after a reader whose Close failed included; it returns   *)
(* an error if one of them did, and positions tell whose it is             *)
(* (multi_read_closer.go, serr NewMultiErrorChecked).                      *)
(***************************************************************************)
CloseAll ==
    close.pc = "idle" =>
        /\ \A k \in DOMAIN closers : Len(closed[closers[k]]) = close.calls
        /\ LET last == [k \in DOMAIN closers |-> Last(closed[closers[k]])] IN
            close.calls > 0 =>
                close.ret = IF \A k \in DOMAIN closers : last[k] = Nil THEN Nil
                            ELSE last

(***************************************************************************)
(* Once the context is cancelled reading ends, even if the readers go on   *)
(* forever giving neither a byte nor an error (cancellable.go).            *)
(***************************************************************************)
Ends == cancelled ~> err # Nil
=============================================================================
