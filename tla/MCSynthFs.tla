----------------------------- MODULE MCSynthFs -----------------------------
(***************************************************************************)
(* Small instances of SynthFs for TLC.                                     *)
(***************************************************************************)
EXTENDS SynthFs

CONSTANTS a, b, t1, t2

\* one goroutine, every operation
SeqOps == [t \in Threads |-> OpNames]

\* one goroutine moves and removes, the other creates
CreateOps == {"Mkdir", "MkdirAll", "OpenFile"}
MoveOps == [t \in Threads |->
    IF t = t1 THEN {"Rename", "Remove", "RemoveAll"} ELSE CreateOps]

RW == {"r", "w", "x"}

AllPerm == {RW}

ConcPaths == {<<a>>, <<b>>, <<a, a>>, <<b, a>>}
DeepPaths == {<<>>, <<a>>, <<b>>, <<a, a>>, <<b, a>>, <<a, a, b>>}

Flag(acc, creat, excl, trunc) ==
    [acc |-> acc, creat |-> creat, excl |-> excl, trunc |-> trunc]
MCFlags == {Flag({"r"}, FALSE, FALSE, FALSE),
            Flag({"r", "w"}, TRUE, FALSE, TRUE),
            Flag({"w"}, TRUE, TRUE, FALSE)}
CreateFlags == {Flag({"r", "w"}, TRUE, FALSE, TRUE)}
=============================================================================
