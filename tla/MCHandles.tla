----------------------------- MODULE MCHandles -----------------------------
(***************************************************************************)
(* Small instances of Handles for TLC.                                     *)
(***************************************************************************)
EXTENDS Handles, TLC

\* goroutines, files and handles are not told apart
Symmetric == Permutations(Threads) \cup Permutations(Files)
             \cup Permutations(Handles)
=============================================================================
