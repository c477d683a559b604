----------------------------- MODULE EntryList ------------------------------
(***************************************************************************)
(* The list of entries of a directory, a container/list in the code, which *)
(* removes the element it is given in one operation.                       *)
(***************************************************************************)
EXTENDS Integers, Sequences, SequencesExt

\* list.Remove of the element that holds e
Unlist(list, e) ==
    IF \E i \in DOMAIN list : list[i] = e
    THEN RemoveAt(list, CHOOSE i \in DOMAIN list : list[i] = e)
    ELSE list
=============================================================================
