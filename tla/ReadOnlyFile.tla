---------------------------- MODULE ReadOnlyFile ----------------------------
(***************************************************************************)
(* What the view of a file of another filesystem promises: the bytes of    *)
(* the file, or of a range of it, with one offset per handle.  A range may *)
(* be said to be longer than the file is.  Only the owner of the file      *)
(* changes it.  A read that fails may have got some bytes before it did.   *)
(***************************************************************************)
EXTENDS Integers, Sequences

CONSTANTS
    Handles,    \* handles of the view
    Bufs,       \* lengths of the buffers read into
    Offsets     \* arguments of Seek and ReadAt

VARIABLES bytes, said, pos, got

viewVars == <<bytes, said, pos, got>>

Nothing == [bytes |-> <<>>, err |-> "nil"]

\* n bytes from offset o, or as many as there are
Slice(o, n) ==
    IF o >= Len(bytes) THEN <<>>
    ELSE SubSeq(bytes, o + 1, IF n < Len(bytes) - o THEN o + n ELSE Len(bytes))

\* all of the buffer, or the end of the file, or a failure
Full(o, n) ==
    \/ got' = [bytes |-> Slice(o, n), err |-> "nil"] /\ Len(got'.bytes) = n
    \/ got' = [bytes |-> Slice(o, n), err |-> "EOF"] /\ o + n >= Len(bytes)
    \/ \E k \in 0..n : got' = [bytes |-> Slice(o, k), err |-> "EIO"]

\* Read may get less than the buffer holds, though not nothing
Some(o, n) ==
    \/ Full(o, n)
    \/ \E k \in 1..n : got' = [bytes |-> Slice(o, k), err |-> "nil"]
                       /\ Len(got'.bytes) = k

Init ==
    /\ bytes \in Seq(Nat) /\ said \in Nat
    /\ pos = [h \in Handles |-> 0]
    /\ got = Nothing

Open(h) ==
    /\ pos' = [pos EXCEPT ![h] = 0]
    /\ got' = Nothing
    /\ UNCHANGED <<bytes, said>>

Read(h) ==
    /\ \E n \in Bufs : Some(pos[h], n)
    /\ pos' = [pos EXCEPT ![h] = @ + Len(got'.bytes)]
    /\ UNCHANGED <<bytes, said>>

\* there is nothing before the start either
ReadAt ==
    /\ \E n \in Bufs, o \in Offsets :
        \/ o >= 0 /\ Full(o, n)
        \/ o < 0 /\ got' = [bytes |-> <<>>, err |-> "EOF"]
    /\ UNCHANGED <<bytes, said, pos>>

\* relative to the start, to the offset or to the end there is said to be
Seek(h) ==
    /\ \E d \in Offsets, from \in {0, pos[h], said} :
        /\ from + d >= 0
        /\ pos' = [pos EXCEPT ![h] = from + d]
    /\ got' = Nothing
    /\ UNCHANGED <<bytes, said>>

\* a refusal, a write, a Stat, a Close: nothing is read or changed
Refuse == got' = Nothing /\ UNCHANGED <<bytes, said, pos>>

\* by the owner of the file; or another range is taken, before it is opened
Change ==
    /\ bytes' \in Seq(Nat) /\ said' \in Nat
    /\ got' = Nothing
    /\ UNCHANGED pos

Next ==
    \/ \E h \in Handles : Open(h) \/ Read(h) \/ Seek(h)
    \/ ReadAt \/ Refuse \/ Change

Spec == Init /\ [][Next]_viewVars
=============================================================================
