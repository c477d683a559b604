-------------------------------- MODULE Dirs --------------------------------
(***************************************************************************)
(* The directory tree of aferofs/synth: dirent.go, dir.go and the part of  *)
(* file.go a directory entry needs.                                        *)
(*                                                                         *)
(* A dirent is an element of Ents.  In Go it is a pointer to a struct that *)
(* is never written after its creation ("A readonly struct. no locks."),   *)
(* so its kind and name are set once, when it is allocated, and kept.      *)
(* A directory keeps its entries twice, in a list ordered by insertion     *)
(* and in a map by name; the operations below update both the way the Go   *)
(* methods do.  One operator is one critical section of dir.mu.            *)
(*                                                                         *)
(* A definition marked as a fault is the one that follows it with a        *)
(* mistake in it; no specification uses it.  README.md tells which         *)
(* property notices which fault.                                           *)
(***************************************************************************)
EXTENDS Integers, Sequences, FiniteSets, SequencesExt, EntryList

CONSTANTS
    Names,      \* components of a path
    Dot,        \* the component ".", the base name of the root
    Ents,       \* the dirents that can be allocated, the bound on the heap
    Root,       \* the dirent of the root directory
    Nil         \* the nil pointer

ASSUME DirsAssumption ==
    /\ Dot \notin Names
    /\ Root \in Ents
    /\ Nil \notin Ents

VARIABLES
    kind,       \* which of dirent.dir and dirent.file is set; "none" before allocation
    name,       \* dirent.name
    mode,       \* owner permission bits of dir.mode or virtualFileData.mode
    dirents,    \* dir.dirents, the list
    direntMap,  \* dir.direntMap, from names to entries of the list
    closes,     \* calls of FileView.Close made by the Fs, saturating at 2
    referredAs  \* the last name passed to FileView.Rename

treeVars == <<kind, name, mode, dirents, direntMap, closes, referredAs>>

Bits == {"r", "w", "x"}
EntNames == Names \cup {Dot}

(***************************************************************************)
(* Reads of a dirent.                                                      *)
(***************************************************************************)
Free == {e \in Ents : kind[e] = "none"}
Lookup(d, n) == direntMap[d][n]

\* fault: a file counts as one entry
LenOfFile(e) == IF kind[e] = "dir" THEN Len(dirents[e]) ELSE 1

Len0(e) == IF kind[e] = "dir" THEN Len(dirents[e]) ELSE 0
HasPerm(e, bits) == bits \subseteq mode[e]

\* fault: the last name is left out
ListNameShort(d) == [i \in 1..(Len(dirents[d]) - 1) |-> name[dirents[d][i]]]

ListName(d) == [i \in DOMAIN dirents[d] |-> name[dirents[d][i]]]

\* fault: the result of a failed lookup is not checked
SearchErrUnchecked(e) ==
    CASE e = Nil -> "ok"
      [] e # Nil /\ kind[e] # "dir" -> "ENOTDIR"
      [] OTHER -> "ok"

\* dirent.IsSearchableDir, the error of a walk that enters e
SearchErr(e) ==
    CASE e = Nil            -> "ENOENT"
      [] e # Nil /\ kind[e] # "dir" -> "ENOTDIR"
      [] e # Nil /\ kind[e] = "dir" /\ ~HasPerm(e, {"x"}) -> "EACCES"
      [] OTHER              -> "ok"

\* fault: the write permission is not asked for
WritableErrSearch(e) == SearchErr(e)

\* dirent.IsWritableDir
WritableErr(e) ==
    IF SearchErr(e) = "ok" /\ ~HasPerm(e, {"w"}) THEN "EACCES" ELSE SearchErr(e)

(***************************************************************************)
(* Everything in the directory e or below it, e included: what the         *)
(* recursion of dir.notifyClose visits.  It is the least set that contains *)
(* e and, with a directory, the entries of the directory.                  *)
(***************************************************************************)
Closed(S) == \A d \in S : \A i \in DOMAIN dirents[d] : dirents[d][i] \in S

Subtree(e) ==
    LET closed == {S \in {{e} \cup T : T \in SUBSET (Ents \ {e})} : Closed(S)}
    IN {x \in Ents : \A S \in closed : x \in S}

FilesUnder(e) == {f \in Subtree(e) : kind[f] = "file"}

(***************************************************************************)
(* Writes.                                                                 *)
(***************************************************************************)
\* newDirDirent and newFileDirent
NewDirent(e, k, n, m) ==
    /\ kind[e] = "none"
    /\ kind' = [kind EXCEPT ![e] = k]
    /\ name' = [name EXCEPT ![e] = n]
    /\ mode' = [mode EXCEPT ![e] = m]

\* fault: the replaced entry stays in the list
AddDirentKeepsOld(d, u) ==
    /\ dirents' = [dirents EXCEPT ![d] = Append(@, u)]
    /\ direntMap' = [direntMap EXCEPT ![d] = [@ EXCEPT ![name'[u]] = u]]

\* dir.AddDirent: an entry of the same name leaves the list; name' because
\* the entry may be created by the step that adds it
AddDirent(d, u) ==
    LET n == name'[u] IN
    /\ dirents' = [dirents EXCEPT ![d] = Append(Unlist(@, direntMap[d][n]), u)]
    /\ direntMap' = [direntMap EXCEPT ![d] = [@ EXCEPT ![n] = u]]

\* dir.RemoveName, and dir.RemoveDirent which is RemoveName of the dirent's name
RemoveName(d, n) ==
    /\ dirents' = [dirents EXCEPT ![d] = Unlist(@, direntMap[d][n])]
    /\ direntMap' = [direntMap EXCEPT ![d] = [@ EXCEPT ![n] = Nil]]

\* fault: the entries of a directory are not notified
NotifyCloseShallow(e) ==
    closes' = [f \in Ents |-> IF f = e /\ kind[f] = "file" /\ closes[f] < 2
                              THEN closes[f] + 1 ELSE closes[f]]

\* dirent.notifyClose: Close of the view, or of every view under a directory
NotifyClose(e) ==
    closes' = [f \in Ents |-> IF f \in FilesUnder(e) /\ closes[f] < 2
                              THEN closes[f] + 1 ELSE closes[f]]

TreeInit ==
    /\ kind = [e \in Ents |-> IF e = Root THEN "dir" ELSE "none"]
    /\ name = [e \in Ents |-> Dot]
    /\ mode = [e \in Ents |-> IF e = Root THEN Bits ELSE {}]
    /\ dirents = [e \in Ents |-> <<>>]
    /\ direntMap = [e \in Ents |-> [n \in EntNames |-> Nil]]
    /\ closes = [e \in Ents |-> 0]
    /\ referredAs = [e \in Ents |-> Nil]

-----------------------------------------------------------------------------
TreeTypeOK ==
    /\ kind \in [Ents -> {"none", "dir", "file"}]
    /\ name \in [Ents -> EntNames]
    /\ mode \in [Ents -> SUBSET Bits]
    /\ dirents \in [Ents -> Seq(Ents)]
    /\ direntMap \in [Ents -> [EntNames -> Ents \cup {Nil}]]
    /\ closes \in [Ents -> 0..2]
    /\ referredAs \in [Ents -> Seq(Names) \cup {Nil}]

(***************************************************************************)
(* dir.go, on the fields of dir: "dirents and direntMap hold same          *)
(* objects."  Both directions: what the map holds is listed under its own  *)
(* name, what is listed is what the map holds, and nothing is listed twice.*)
(***************************************************************************)
MapIsListed(d) ==
    \A n \in EntNames : direntMap[d][n] # Nil =>
        /\ name[direntMap[d][n]] = n
        /\ \E i \in DOMAIN dirents[d] : dirents[d][i] = direntMap[d][n]

ListIsMapped(d) ==
    \A i \in DOMAIN dirents[d] :
        direntMap[d][name[dirents[d][i]]] = dirents[d][i]

ListedOnce(d) ==
    \A i, j \in DOMAIN dirents[d] : dirents[d][i] = dirents[d][j] => i = j

DirsConsistent ==
    \A d \in Ents : MapIsListed(d) /\ ListIsMapped(d) /\ ListedOnce(d)

(***************************************************************************)
(* The entries form a tree: the root has no parent, an entry has at most   *)
(* one, only directories have entries, and no directory is inside itself.  *)
(* A cycle would make dir.notifyClose lock a directory it already holds.   *)
(***************************************************************************)
Parents(e) == {d \in Ents : e \in ToSet(dirents[d])}

TreeShape ==
    \A e \in Ents :
        /\ Cardinality(Parents(e)) <= (IF e = Root THEN 0 ELSE 1)
        /\ kind[e] # "dir" => dirents[e] = <<>>
        /\ \A d \in ToSet(dirents[e]) : e \notin Subtree(d)
=============================================================================
