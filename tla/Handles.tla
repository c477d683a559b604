------------------------------ MODULE Handles ------------------------------
(***************************************************************************)
(* What OpenFile of a synth.Fs returns: a Closable around a dirHandle, or  *)
(* around a virtualFile whose FileView keeps its content in a temporary    *)
(* file (file.go, fd.go, dir_handle.go, impl_tmpdir.go and closable).      *)
(*                                                                         *)
(* There is one directory.  A file is its dirent, its virtualFileData and  *)
(* its tmpDirFileView in one.  SynthFs tells how operations find entries;  *)
(* here an operation knows its file and the locks of the three parts and   *)
(* of the handles make the steps.                                          *)
(*                                                                         *)
(* A definition marked as a fault is the one that follows it with a        *)
(* mistake in it, for README.md's table of what the properties notice.     *)
(***************************************************************************)
EXTENDS Integers, Sequences, SequencesExt, EntryList

CONSTANTS
    Threads,    \* goroutines
    Files,      \* files that can be created, each once
    Handles,    \* handles that can be opened, each once
    Temps,      \* bound: temporary files that exist at a time
    Counts,     \* arguments of Readdir, 0 for all that are not positive
    Dir,        \* the directory
    Nil

ASSUME HandlesAssumption ==
    /\ Dir \notin Files
    /\ Nil \notin Files \cup Handles \cup Temps \cup Seq(Files) \cup {Dir}
    /\ Counts \subseteq Nat

VARIABLES
    entries,    \* dir.dirents
    known,      \* the files that have been allocated
    meta,       \* virtualFileData: initialized and where mode comes from
    path,       \* tmpDirFileView.path, Nil for ""
    dropped,    \* whether tmpDirFileView.Close was called
    stored,     \* the temporary files in the backing Fs
    handle,     \* Closable and what it wraps
    call        \* the operation of each goroutine

vars == <<entries, known, meta, path, dropped, stored, handle, call>>
fileVars == <<entries, known, meta, path, dropped, stored>>

NoCall == [pc |-> "idle", op |-> "none", f |-> Nil, h |-> Nil, temp |-> Nil,
           asked |-> 0, late |-> FALSE]

NoHandle == [on |-> Nil, closed |-> FALSE, returned |-> FALSE, temp |-> Nil,
             snapshot |-> Nil, off |-> 0, given |-> <<>>]

\* an operation returns; with which error is not kept
Idle(t) == call[t].pc = "idle"
Return(t) == call' = [call EXCEPT ![t] = NoCall]

\* handles that no OpenFile has returned or is about to return
FreeHandles == {h \in Handles :
    handle[h].on = Nil /\ \A t \in Threads : call[t].h # h}

-----------------------------------------------------------------------------
(***************************************************************************)
(* tmpDirFileView, each method under its mutex: what it leaves in path and *)
(* in the backing Fs, and its error.                                       *)
(***************************************************************************)
FreshTemps == {CHOOSE x \in Temps \ stored : TRUE : y \in Temps \ stored}

\* afero.TempFile fails, or gives a file that cannot be examined and is left
\* behind, or gives the file of this view
TempFile(f) ==
    {[path |-> path[f], stored |-> stored, err |-> "EIO"]}
    \cup {[path |-> y, stored |-> stored \cup {x},
           err |-> IF y = x THEN "ok" ELSE "EIO"] :
           x \in FreshTemps, y \in FreshTemps \cup {path[f]}}

\* fault: the path is not looked at
CreateAlways(f) == TempFile(f)

\* create
Create(f) ==
    IF path[f] = Nil THEN TempFile(f)
    ELSE {[path |-> path[f], stored |-> stored, err |-> "ok"]}

\* Open and Stat: create, then the call on the file; either may fail
View(f) == Create(f) \cup
    {[r EXCEPT !.err = e] : r \in Create(f), e \in {"ENOENT", "EIO"}}

Apply(f, r) == path' = [path EXCEPT ![f] = r.path] /\ stored' = r.stored

-----------------------------------------------------------------------------
(***************************************************************************)
(* newVirtualFileData, for AddFile and for openFile of a new file.  A view *)
(* that does not exist yet is taken, and initialised by the first Open.    *)
(***************************************************************************)
FromView == [initialized |-> TRUE, mode |-> "view"]

NewFile(t, f, next) ==
    \E r \in View(f) :
       /\ known' = known \cup {f}
       /\ Apply(f, r)
       /\ meta' = IF r.err # "ok" THEN meta
                  ELSE [meta EXCEPT ![f] = FromView]
       /\ call' = [call EXCEPT ![t] =
                     IF r.err \in {"ok", "ENOENT"} THEN next ELSE NoCall]
       /\ UNCHANGED <<entries, dropped, handle>>

AddFile(t) ==
    /\ Idle(t)
    /\ \E f \in Files \ known :
          NewFile(t, f, [NoCall EXCEPT !.pc = "link", !.op = "add", !.f = f])

CreateFile(t) ==
    /\ Idle(t)
    /\ \E f \in Files \ known, h \in FreeHandles :
          NewFile(t, f, [NoCall EXCEPT !.pc = "open", !.op = "create",
                                       !.f = f, !.h = h])

\* openFile of an entry: the mode bits decide, all of them zero at first
OpenFile(t) ==
    /\ Idle(t)
    /\ \E f \in ToSet(entries), h \in FreeHandles :
          IF meta[f].mode = "zero" THEN Return(t)
          ELSE call' = [call EXCEPT ![t] = [NoCall EXCEPT
                          !.pc = "open", !.op = "open", !.f = f, !.h = h]]
    /\ UNCHANGED <<fileVars, handle>>

\* virtualFileData.Open: the view first
ViewOpen(t) ==
    LET c == call[t] IN
    /\ c.pc = "open"
    /\ \E r \in View(c.f) :
       /\ Apply(c.f, r)
       /\ IF r.err # "ok" THEN Return(t)
          ELSE call' = [call EXCEPT ![t].pc = "init", ![t].temp = r.path]
    /\ UNCHANGED <<entries, known, meta, dropped, handle>>

\* then init: whether it is needed is asked under the read lock
InitCheck(t) ==
    LET c == call[t] IN
    /\ c.pc = "init"
    /\ call' = [call EXCEPT ![t].pc =
                  IF meta[c.f].initialized THEN "link" ELSE "store"]
    /\ UNCHANGED <<fileVars, handle>>

\* fault: it is not asked again
InitStoreUnchecked(t) ==
    /\ call[t].pc = "store"
    /\ meta' = [meta EXCEPT ![call[t].f] = FromView]
    /\ call' = [call EXCEPT ![t].pc = "link"]
    /\ UNCHANGED <<entries, known, path, dropped, stored, handle>>

\* and asked again under the write lock, because of the race in between
InitStore(t) ==
    LET c == call[t] IN
    /\ c.pc = "store"
    /\ \/ /\ meta' = IF meta[c.f].initialized THEN meta
                     ELSE [meta EXCEPT ![c.f] = FromView]
          /\ call' = [call EXCEPT ![t].pc = "link"]
       \/ /\ ~meta[c.f].initialized
          /\ Return(t)
          /\ UNCHANGED meta
    /\ UNCHANGED <<entries, known, path, dropped, stored, handle>>

\* nobody holds the read lock of the directory: all others take it for less
\* than a step
Unlocked == \A t \in Threads : call[t].pc # "list"

\* a new file gets its entry, an opened one its handle, and the call returns
Link(t) ==
    LET c == call[t] IN
    /\ c.pc = "link"
    /\ c.op # "open" => Unlocked
    /\ entries' = IF c.op = "open" THEN entries ELSE Append(entries, c.f)
    /\ handle' = IF c.op = "add" THEN handle
                 ELSE [handle EXCEPT ![c.h] =
                         [NoHandle EXCEPT !.on = c.f, !.temp = c.temp]]
    /\ Return(t)
    /\ UNCHANGED <<known, meta, path, dropped, stored>>

OpenDir(t) ==
    /\ Idle(t)
    /\ \E h \in FreeHandles : handle' = [handle EXCEPT ![h].on = Dir]
    /\ Return(t)
    /\ UNCHANGED fileVars

\* virtualFileData.Chmod
Chmod(t) ==
    /\ Idle(t)
    /\ \E f \in ToSet(entries) : meta' = [meta EXCEPT ![f].mode = "chmod"]
    /\ Return(t)
    /\ UNCHANGED <<entries, known, path, dropped, stored, handle>>

(***************************************************************************)
(* removeFromParent: Close of the view, then removal of the entry.  Close  *)
(* clears the path before it passes it to Remove, which therefore gets ""  *)
(* and removes no file; the error it may return is of no effect here.      *)
(***************************************************************************)
RemoveClose(t) ==
    /\ Idle(t)
    /\ \E f \in ToSet(entries) :
       /\ path' = [path EXCEPT ![f] = Nil]
       /\ stored' = stored \ {path'[f]}
       /\ dropped' = [dropped EXCEPT ![f] = TRUE]
       /\ call' = [call EXCEPT ![t] = [NoCall EXCEPT !.pc = "unlink",
                                            !.op = "remove", !.f = f]]
    /\ UNCHANGED <<entries, known, meta, handle>>

RemoveUnlink(t) ==
    /\ call[t].pc = "unlink"
    /\ Unlocked
    /\ entries' = Unlist(entries, call[t].f)
    /\ Return(t)
    /\ UNCHANGED <<known, meta, path, dropped, stored, handle>>

-----------------------------------------------------------------------------
(***************************************************************************)
(* Closable: each method of a handle asks beforeEach, then calls the same  *)
(* method of the file it wraps.  Name asks too, but has no error to return *)
(* and goes on whatever the answer.  Read stands for the methods, other    *)
(* than Name, that change nothing modelled here.                           *)
(***************************************************************************)
Methods == {"Read", "Name", "Readdir", "Seek", "Close"}

Refuses(h, op) == handle[h].closed /\ op # "Name"

BeforeEach(t) ==
    /\ Idle(t)
    /\ \E h \in Handles, op \in Methods :
       /\ handle[h].on # Nil
       /\ op \in {"Readdir", "Seek"} => handle[h].on = Dir
       /\ IF Refuses(h, op) THEN Return(t)
          ELSE call' = [call EXCEPT ![t] =
                 [NoCall EXCEPT
                    !.pc = IF op = "Close" THEN "close" ELSE "inner",
                    !.op = op, !.h = h, !.late = handle[h].returned]]
    /\ UNCHANGED <<fileVars, handle>>

\* fault: the flag is not set
SetClosedNot(t) ==
    /\ call[t].pc = "close"
    /\ call' = [call EXCEPT ![t].pc = "inner"]
    /\ UNCHANGED <<fileVars, handle>>

SetClosed(t) ==
    /\ call[t].pc = "close"
    /\ handle' = [handle EXCEPT ![call[t].h].closed = TRUE]
    /\ call' = [call EXCEPT ![t].pc = "inner"]
    /\ UNCHANGED fileVars

\* Read, Name and Close of the file inside
InnerCall(t) ==
    LET c == call[t] IN
    /\ c.pc = "inner" /\ c.op \in {"Read", "Name", "Close"}
    /\ handle' = [handle EXCEPT ![c.h].returned = @ \/ c.op = "Close"]
    /\ Return(t)
    /\ UNCHANGED fileVars

(***************************************************************************)
(* dirHandle, whose mutex Readdir holds while it makes a snapshot, under   *)
(* the read lock of the directory too.  Each view is asked for its Stat,   *)
(* which makes it create its file; one that fails ends the snapshot.       *)
(***************************************************************************)
HandleFree(h) == \A t \in Threads : ~(call[t].pc = "list" /\ call[t].h = h)

\* the end of a page of snapshot s, or -1 when slicing it panics
PageEnd(s, off, count) ==
    IF off > Len(s) THEN -1
    ELSE IF count = 0 \/ off + count > Len(s) THEN Len(s)
    ELSE off + count

\* a page is returned
Page(t, s) ==
    LET h == call[t].h
        off == handle[h].off IN
    \E count \in Counts :
       LET end == PageEnd(s, off, count) IN
       IF end = -1
       THEN call' = [call EXCEPT ![t].pc = "panic"] /\ UNCHANGED handle
       ELSE /\ handle' = [handle EXCEPT ![h].snapshot = s, ![h].off = end,
                   ![h].given = @ \o SubSeq(s, off + 1, end)]
            /\ Return(t)

\* Readdir
Readdir(t) ==
    LET c == call[t] IN
    /\ c.pc = "inner" /\ c.op = "Readdir" /\ HandleFree(c.h)
    /\ IF handle[c.h].snapshot # Nil THEN Page(t, handle[c.h].snapshot)
       ELSE call' = [call EXCEPT ![t].pc = "list"] /\ UNCHANGED handle
    /\ UNCHANGED fileVars

\* ListFileInfo: the next view is asked
ListAsk(t) ==
    LET c == call[t] IN
    /\ c.pc = "list" /\ c.asked < Len(entries)
    /\ \E r \in View(entries[c.asked + 1]) :
       /\ Apply(entries[c.asked + 1], r)
       /\ IF r.err # "ok" THEN Return(t)
          ELSE call' = [call EXCEPT ![t].asked = @ + 1]
    /\ UNCHANGED <<entries, known, meta, dropped, handle>>

ListEnd(t) ==
    /\ call[t].pc = "list" /\ call[t].asked = Len(entries)
    /\ Page(t, entries)
    /\ UNCHANGED fileVars

\* fault: the snapshot is dropped, the offset into it is not
SeekKeepsOffset(t) ==
    LET c == call[t] IN
    /\ c.pc = "inner" /\ c.op = "Seek" /\ HandleFree(c.h)
    /\ handle' = [handle EXCEPT ![c.h].snapshot = Nil, ![c.h].given = <<>>]
    /\ Return(t)
    /\ UNCHANGED fileVars

\* Seek, which does this whatever its arguments
Seek(t) ==
    LET c == call[t] IN
    /\ c.pc = "inner" /\ c.op = "Seek" /\ HandleFree(c.h)
    /\ handle' = [handle EXCEPT ![c.h].snapshot = Nil, ![c.h].off = 0,
                                ![c.h].given = <<>>]
    /\ Return(t)
    /\ UNCHANGED fileVars

-----------------------------------------------------------------------------
Init ==
    /\ entries = <<>>
    /\ known = {}
    /\ meta = [f \in Files |-> [initialized |-> FALSE, mode |-> "zero"]]
    /\ path = [f \in Files |-> Nil]
    /\ dropped = [f \in Files |-> FALSE]
    /\ stored = {}
    /\ handle = [h \in Handles |-> NoHandle]
    /\ call = [t \in Threads |-> NoCall]

Next == \E t \in Threads :
    \/ AddFile(t) \/ CreateFile(t) \/ OpenFile(t) \/ ViewOpen(t)
    \/ InitCheck(t) \/ InitStore(t) \/ Link(t) \/ OpenDir(t) \/ Chmod(t)
    \/ RemoveClose(t) \/ RemoveUnlink(t)
    \/ BeforeEach(t) \/ SetClosed(t) \/ InnerCall(t)
    \/ Readdir(t) \/ ListAsk(t) \/ ListEnd(t) \/ Seek(t)

Spec == Init /\ [][Next]_vars

-----------------------------------------------------------------------------
Steps == {"idle", "open", "init", "store", "link", "unlink", "close", "inner",
          "list", "panic"}
Ops == {"none", "add", "create", "open", "remove"} \cup Methods

MetaType == [initialized : BOOLEAN, mode : {"zero", "view", "chmod"}]
HandleType ==
    [on : Files \cup {Dir, Nil}, closed : BOOLEAN, returned : BOOLEAN,
     temp : Temps \cup {Nil}, snapshot : Seq(Files) \cup {Nil},
     off : Nat, given : Seq(Files)]
CallType ==
    [pc : Steps, op : Ops, f : Files \cup {Nil}, h : Handles \cup {Nil},
     temp : Temps \cup {Nil}, asked : Nat, late : BOOLEAN]

(***************************************************************************)
(* Every variable has its type; an entry is a file that was allocated, and *)
(* the offset of a directory handle is one into its snapshot.              *)
(***************************************************************************)
TypeOK ==
    /\ entries \in Seq(known) /\ known \subseteq Files
    /\ meta \in [Files -> MetaType]
    /\ path \in [Files -> stored \cup {Nil}]
    /\ dropped \in [Files -> BOOLEAN]
    /\ stored \subseteq Temps
    /\ handle \in [Handles -> HandleType]
    /\ call \in [Threads -> CallType]
    /\ \A h \in Handles : LET d == handle[h] IN
          d.off <= IF d.snapshot = Nil THEN 0 ELSE Len(d.snapshot)

(***************************************************************************)
(* Once a file is initialised, a Chmod is never undone by a first Open     *)
(* that was already past its check: file.go:75-78, "check agin: race".     *)
(***************************************************************************)
ModeKept == [][\A f \in Files : meta[f].initialized =>
                   /\ meta'[f].initialized
                   /\ meta[f].mode = "chmod" => meta'[f].mode = "chmod"]_vars

(***************************************************************************)
(* All handles of a file that was never removed are handles of one         *)
(* temporary file, and no other file has it: what is written through one   *)
(* is read through the others (impl_tmpdir.go:57-60).                      *)
(***************************************************************************)
OneTemp ==
    /\ \A h \in Handles : LET f == handle[h].on IN
          f \in Files /\ ~dropped[f] => handle[h].temp = path[f]
    /\ \A h, k \in Handles :
          handle[h].temp = handle[k].temp /\ handle[h].temp # Nil
              => handle[h].on = handle[k].on

(***************************************************************************)
(* A call that starts when Close of the handle has returned never reaches  *)
(* the file inside, whatever calls of Close and others are under way       *)
(* (closable/file.go:24-37).  Name is the exception: its generated body    *)
(* throws the error of beforeEach away and asks the file inside            *)
(* (file.closable[t].generate.go:17-21).                                   *)
(***************************************************************************)
LateRefused == \A t \in Threads :
    call[t].pc = "inner" /\ call[t].late => call[t].op = "Name"

(***************************************************************************)
(* The pages of Readdir since the last Seek are the snapshot up to the     *)
(* offset, no entry twice, while entries come and go; and no slice of the  *)
(* snapshot panics (dir_handle.go:42-69).                                  *)
(***************************************************************************)
PagesInOrder ==
    /\ \A h \in Handles : LET d == handle[h] IN
          /\ d.given = (IF d.snapshot = Nil THEN <<>>
                        ELSE SubSeq(d.snapshot, 1, d.off))
          /\ \A i, j \in DOMAIN d.given : d.given[i] = d.given[j] => i = j
    /\ \A t \in Threads : call[t].pc # "panic"

(***************************************************************************)
(* A Close of a view that has a temporary file removes that file           *)
(* (impl_tmpdir.go:50-52: "return b.fsys.Remove(b.path)").                 *)
(***************************************************************************)
ClosedIsRemoved == [][\A f \in Files :
    path[f] # Nil /\ path'[f] = Nil => path[f] \notin stored']_vars
=============================================================================
