------------------------------ MODULE ByteFile ------------------------------
(***************************************************************************)
(* What a file of the in-memory allocator promises its users: a sequence   *)
(* of bytes that is zero from its size on, with one offset per handle.     *)
(* Writing past the end leaves zeros in the gap and truncating to a larger *)
(* size adds zeros, whatever the file held before it was shrunk.  There is *)
(* no capacity here and integers do not overflow.  An operation may fail,  *)
(* it then changes nothing.                                                *)
(***************************************************************************)
EXTENDS Integers, Sequences

CONSTANTS
    Handles,    \* open handles of the file
    Byte,       \* values of a byte, 0 among them
    Payloads,   \* what is written
    Counts,     \* lengths of the buffers read into
    Offsets,    \* arguments of Seek, ReadAt, WriteAt and Truncate
    MaxSize     \* no file grows beyond this size

VARIABLES data, size, pos, got

fileVars == <<data, size, pos, got>>

Index == 0..(MaxSize - 1)

\* how many bytes a read of n at offset o gets
Available(o, n) == IF o >= size THEN 0 ELSE IF n < size - o THEN n ELSE size - o

Slice(o, n) == [i \in 1..Available(o, n) |-> data[o + i - 1]]

Patch(o, p) ==
    /\ p # <<>>
    /\ o + Len(p) <= MaxSize
    /\ size' = IF o + Len(p) > size THEN o + Len(p) ELSE size
    /\ data' = [i \in Index |-> IF o <= i /\ i < o + Len(p) THEN p[i - o + 1]
                                ELSE data[i]]

Init ==
    /\ data = [i \in Index |-> 0]
    /\ size = 0
    /\ pos = [h \in Handles |-> 0]
    /\ got = <<>>

Read(h) ==
    /\ \E n \in Counts :
        /\ got' = Slice(pos[h], n)
        /\ pos' = [pos EXCEPT ![h] = @ + Available(@, n)]
    /\ UNCHANGED <<data, size>>

ReadAt ==
    /\ \E n \in Counts, o \in Offsets : o >= 0 /\ got' = Slice(o, n)
    /\ UNCHANGED <<data, size, pos>>

Write(h) ==
    /\ \E p \in Payloads :
        /\ Patch(pos[h], p)
        /\ pos' = [pos EXCEPT ![h] = @ + Len(p)]
    /\ UNCHANGED got

WriteAt ==
    /\ \E p \in Payloads, o \in Offsets : o >= 0 /\ Patch(o, p)
    /\ UNCHANGED <<pos, got>>

Truncate ==
    /\ \E n \in Offsets :
        /\ n >= 0 /\ n <= MaxSize
        /\ size' = n
        /\ data' = [i \in Index |-> IF i < n THEN data[i] ELSE 0]
    /\ UNCHANGED <<pos, got>>

\* relative to the start, to the offset or to the end
Seek(h) ==
    /\ \E d \in Offsets \cup {0}, from \in {0, pos[h], size} :
        /\ from + d >= 0
        /\ pos' = [pos EXCEPT ![h] = from + d]
    /\ UNCHANGED <<data, size, got>>

Next ==
    \/ \E h \in Handles : Read(h) \/ Write(h) \/ Seek(h)
    \/ ReadAt \/ WriteAt \/ Truncate

Spec == Init /\ [][Next]_fileVars
=============================================================================
