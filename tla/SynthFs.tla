------------------------------ MODULE SynthFs ------------------------------
(***************************************************************************)
(* synth.Fs (aferofs/synth/fs.go and fs_link.go): the filesystem           *)
(* operations over the directory tree of Dirs.                             *)
(*                                                                         *)
(* Fs has no lock of its own.  Each call of a method of dir takes the lock *)
(* of that one directory and releases it, so an operation is a sequence of *)
(* small steps and the calls of several goroutines interleave between      *)
(* them.  A goroutine is a thread; call[t] holds the local variables of    *)
(* the operation it is in.  A step is one critical section that reads or   *)
(* writes the entries of a directory, together with the permission bits    *)
(* read next to it.  A loop of the code is one step per iteration.         *)
(*                                                                         *)
(* Paths are those fs.ValidPath accepts, as sequences of names; <<>> is    *)
(* ".", whose base name is Dot.                                            *)
(***************************************************************************)
EXTENDS Dirs

CONSTANTS
    Threads,    \* goroutines that use the Fs
    Ops,        \* Ops[t], the operations thread t may call
    Paths,      \* the paths operations are called with
    Perms,      \* the owner permission bits they are called with
    Flags,      \* the flags OpenFile is called with
    Umask,      \* fsys.umask
    HasAlloc,   \* whether fsys.allocator is set (New) or nil (NewNoAlloc)
    MaxNew      \* bound: dirents a call leaves for each of the other threads

ASSUME SynthAssumption ==
    /\ Paths \subseteq Seq(Names)
    /\ Perms \subseteq SUBSET Bits
    /\ Umask \subseteq Bits
    /\ HasAlloc \in BOOLEAN
    /\ Flags \subseteq [acc : SUBSET {"r", "w"}, creat : BOOLEAN,
                        excl : BOOLEAN, trunc : BOOLEAN]
    /\ MaxNew \in Nat

VARIABLE call
vars == <<treeVars, call>>

NoFlag == [acc |-> {}, creat |-> FALSE, excl |-> FALSE, trunc |-> FALSE]

NoCall == [op |-> "none", pc |-> "idle", path |-> <<>>, to |-> <<>>,
           flag |-> NoFlag, perm |-> {}, at |-> Root, base |-> Dot,
           rest |-> <<>>, next |-> "idle", ent |-> Nil, old |-> Nil,
           from |-> Root, link |-> Nil, stack |-> <<>>, err |-> "ok"]

Idle(t) == call[t].pc = "idle"
AllIdle == \A t \in Threads : Idle(t)

Base(p) == IF p = <<>> THEN Dot ELSE p[Len(p)]
Dir(p) == IF p = <<>> THEN <<>> ELSE SubSeq(p, 1, Len(p) - 1)

(***************************************************************************)
(* How a step leaves the operation: returned with err, or at another pc.   *)
(* RemoveAll first calls Remove and, unless that succeeds or finds         *)
(* nothing, tries again with removeAllFrom.                                *)
(***************************************************************************)
Done(err) == [NoCall EXCEPT !.err = err]

\* fault: removeAllFrom starts over on any error
ReturnRetries(c, err) ==
    IF c.op \notin {"RemoveAll", "removeAllFrom"} THEN Done(err)
    ELSE IF err \in {"ok", "ENOENT"} THEN Done("ok")
    ELSE [c EXCEPT !.pc = "again", !.ent = Nil]

Return(c, err) ==
    IF c.op # "RemoveAll" THEN Done(err)
    ELSE IF err \in {"ok", "ENOENT"} THEN Done("ok")
    ELSE [c EXCEPT !.pc = "again", !.ent = Nil]

\* what the caller of removeFromParent does with its error
AfterRemove(c, err) ==
    IF c.op # "removeAllFrom" THEN Return(c, err)
    ELSE IF err \in {"ok", "ENOENT", "ErrClosedWithError"}
         THEN [c EXCEPT !.pc = "next", !.ent = Nil]
    ELSE IF err = "ENOTEMPTY" THEN [c EXCEPT !.pc = "list"]
    ELSE Done(err)

(***************************************************************************)
(* findParent: the root must be searchable, then each component but the    *)
(* last is looked up and must be a searchable directory.  The walk goes on *)
(* at pc next, with the parent in at and the base name in base.            *)
(***************************************************************************)
Arrive(c) ==
    IF Len(c.rest) <= 1 THEN [c EXCEPT !.pc = c.next, !.rest = <<>>]
    ELSE [c EXCEPT !.pc = "walk"]

FindParent(c, p, next) ==
    IF p # <<>> /\ SearchErr(Root) # "ok" THEN Return(c, SearchErr(Root))
    ELSE Arrive([c EXCEPT !.at = Root, !.base = Base(p), !.rest = p,
                          !.next = next])

\* what find returns after findParent: nil when the base name is not there
Found(c) == IF c.base = Dot THEN c.at ELSE Lookup(c.at, c.base)

Walk(t) ==
    LET c == call[t]
        child == Lookup(c.at, Head(c.rest)) IN
    /\ c.pc = "walk"
    /\ call' = [call EXCEPT ![t] =
            IF SearchErr(child) # "ok" THEN Return(c, SearchErr(child))
            ELSE Arrive([c EXCEPT !.at = child, !.rest = Tail(c.rest)])]
    /\ UNCHANGED treeVars

(***************************************************************************)
(* mkdirAll, the loop: on to the next component, until none is left.       *)
(* addFile continues with find of the directory it made.                   *)
(***************************************************************************)
MkdirAllLoop(c, at, rest) ==
    IF rest # <<>> THEN [c EXCEPT !.pc = "mkdirAll", !.at = at, !.rest = rest]
    ELSE IF c.op = "MkdirAll" THEN Done("ok")
    ELSE FindParent(c, Dir(c.path), "add")

MkdirAll(c, p) ==
    IF p # <<>> /\ SearchErr(Root) # "ok" THEN Done(SearchErr(Root))
    ELSE MkdirAllLoop(c, Root, p)

-----------------------------------------------------------------------------
(***************************************************************************)
(* The call of an operation, up to its first access of a directory below   *)
(* the root.                                                               *)
(***************************************************************************)
Begin(t, op) == Idle(t) /\ op \in Ops[t]
Room(n) == Cardinality(Free) >= n + MaxNew * (Cardinality(Threads) - 1)
Fresh == CHOOSE e \in Ents : kind[e] = "none"

CallChmod(t) ==
    /\ Begin(t, "Chmod")
    /\ \E p \in Paths, m \in Perms :
          call' = [call EXCEPT ![t] =
            FindParent([NoCall EXCEPT !.op = "Chmod", !.path = p, !.perm = m],
                       p, "chmod")]
    /\ UNCHANGED treeVars

CallMkdir(t) ==
    /\ Begin(t, "Mkdir") /\ Room(1)
    /\ \E p \in Paths, m \in Perms :
          call' = [call EXCEPT ![t] =
            FindParent([NoCall EXCEPT !.op = "Mkdir", !.path = p, !.perm = m],
                       Dir(p), "mkdir")]
    /\ UNCHANGED treeVars

CallMkdirAll(t) ==
    /\ Begin(t, "MkdirAll")
    /\ \E p \in Paths, m \in Perms :
        /\ Room(Len(p))
        /\ call' = [call EXCEPT ![t] =
            MkdirAll([NoCall EXCEPT !.op = "MkdirAll", !.path = p, !.perm = m], p)]
    /\ UNCHANGED treeVars

CallOpenFile(t) ==
    /\ Begin(t, "OpenFile") /\ Room(1)
    /\ \E p \in Paths, fl \in Flags, m \in Perms :
          call' = [call EXCEPT ![t] =
            FindParent([NoCall EXCEPT !.op = "OpenFile", !.path = p,
                                      !.flag = fl, !.perm = m],
                       p, "open")]
    /\ UNCHANGED treeVars

CallRemove(t) ==
    /\ Begin(t, "Remove")
    /\ \E p \in Paths :
          call' = [call EXCEPT ![t] =
            FindParent([NoCall EXCEPT !.op = "Remove", !.path = p], p, "remove")]
    /\ UNCHANGED treeVars

CallRemoveAll(t) ==
    /\ Begin(t, "RemoveAll")
    /\ \E p \in Paths :
          call' = [call EXCEPT ![t] =
            IF p = <<>> THEN Done("EACCES")
            ELSE FindParent([NoCall EXCEPT !.op = "RemoveAll", !.path = p],
                            p, "remove")]
    /\ UNCHANGED treeVars

CallRename(t) ==
    /\ Begin(t, "Rename")
    /\ \E p, q \in Paths :
          call' = [call EXCEPT ![t] =
            IF p = q THEN Done("ok")
            ELSE IF p = <<>> \/ q = <<>> THEN Done("EBUSY")
            ELSE IF IsPrefix(p, q) THEN Done("EINVAL")
            ELSE FindParent([NoCall EXCEPT !.op = "Rename", !.path = p, !.to = q],
                            p, "renameOld")]
    /\ UNCHANGED treeVars

\* newFileDirent stats the view, which may fail or tell the file's mode
CallAddFile(t) ==
    /\ Begin(t, "AddFile")
    /\ \E p \in Paths :
        \/ /\ call' = [call EXCEPT ![t] = Done("EIO")]
           /\ UNCHANGED treeVars
        \/ /\ Room(Len(Dir(p)) + 1) /\ Free # {}
           /\ \E m \in Perms : NewDirent(Fresh, "file", Base(p), m)
           /\ call' = [call EXCEPT ![t] =
                MkdirAll([NoCall EXCEPT !.op = "AddFile", !.path = p,
                            !.perm = Bits, !.link = Fresh], Dir(p))]
           /\ UNCHANGED <<dirents, direntMap, closes, referredAs>>

CallReallocate(t) ==
    /\ Begin(t, "Reallocate")
    /\ \E p \in Paths :
        /\ Room(Len(Dir(p)) + 1)
        /\ call' = [call EXCEPT ![t] =
            FindParent([NoCall EXCEPT !.op = "Reallocate", !.path = p,
                                      !.perm = Bits],
                       p, "reallocate")]
    /\ UNCHANGED treeVars

-----------------------------------------------------------------------------
(***************************************************************************)
(* Chmod, Mkdir and MkdirAll.                                              *)
(***************************************************************************)
Chmod(t) ==
    LET c == call[t]
        e == Found(c) IN
    /\ c.pc = "chmod"
    /\ mode' = IF e = Nil THEN mode ELSE [mode EXCEPT ![e] = c.perm]
    /\ call' = [call EXCEPT ![t] = Done(IF e = Nil THEN "ENOENT" ELSE "ok")]
    /\ UNCHANGED <<kind, name, dirents, direntMap, closes, referredAs>>

MkdirErr(c, parent) ==
    CASE parent = Nil -> "ENOENT"
      [] parent # Nil /\ kind[parent] # "dir" -> "ENOTDIR"
      [] parent # Nil /\ kind[parent] = "dir" ->
            IF ~HasPerm(parent, {"w"}) THEN "EACCES"
            ELSE IF c.path = <<>> \/ Lookup(parent, Base(c.path)) # Nil
                 THEN "EEXIST"
            ELSE IF ~HasPerm(parent, {"x"}) THEN "EACCES" ELSE "ok"

MkdirCheck(t) ==
    LET c == call[t]
        parent == Found(c)
        err == MkdirErr(c, parent) IN
    /\ c.pc = "mkdir"
    /\ call' = [call EXCEPT ![t] =
            IF err # "ok" THEN Done(err)
            ELSE [c EXCEPT !.pc = "mkdirAdd", !.at = parent]]
    /\ UNCHANGED treeVars

MkdirAdd(t) ==
    LET c == call[t] IN
    /\ c.pc = "mkdirAdd"
    /\ Free # {}
    /\ NewDirent(Fresh, "dir", Base(c.path), c.perm \ Umask)
    /\ AddDirent(c.at, Fresh)
    /\ call' = [call EXCEPT ![t] = Done("ok")]
    /\ UNCHANGED <<closes, referredAs>>

MkdirAllLookup(t) ==
    LET c == call[t]
        child == Lookup(c.at, Head(c.rest)) IN
    /\ c.pc = "mkdirAll"
    /\ call' = [call EXCEPT ![t] =
            IF child = Nil THEN [c EXCEPT !.pc = "mkdirAllAdd"]
            ELSE IF SearchErr(child) # "ok" THEN Done(SearchErr(child))
            ELSE MkdirAllLoop(c, child, Tail(c.rest))]
    /\ UNCHANGED treeVars

\* the directory is there even when its permission then stops the loop
MkdirAllAdd(t) ==
    LET c == call[t]
        perm == c.perm \ Umask IN
    /\ c.pc = "mkdirAllAdd"
    /\ Free # {}
    /\ NewDirent(Fresh, "dir", Head(c.rest), perm)
    /\ AddDirent(c.at, Fresh)
    /\ call' = [call EXCEPT ![t] =
            IF "x" \notin perm THEN Done("EACCES")
            ELSE MkdirAllLoop(c, Fresh, Tail(c.rest))]
    /\ UNCHANGED <<closes, referredAs>>

-----------------------------------------------------------------------------
(***************************************************************************)
(* openFile.  A FileView may fail any call: Truncate(0) and Open of an     *)
(* existing view, Stat (newFileDirent) and Open of a new one.  A view that *)
(* was allocated and then failed is not kept.                              *)
(***************************************************************************)
OpenErr(c, ent) ==
    IF c.flag.excl THEN "EEXIST"
    ELSE IF ~HasPerm(ent, c.flag.acc) THEN "EACCES"
    ELSE IF kind[ent] = "dir" /\ ("w" \in c.flag.acc \/ c.flag.trunc)
         THEN "EISDIR"
    ELSE "ok"

CreateErr(c) ==
    IF ~c.flag.creat THEN "ENOENT"
    ELSE IF ~HasPerm(c.at, {"w", "x"}) THEN "EACCES"
    ELSE IF ~HasAlloc THEN "EROFS"
    ELSE "ok"

OpenExisting(t) ==
    LET c == call[t]
        ent == Found(c) IN
    /\ c.pc = "open"
    /\ ent # Nil
    /\ \E err \in (IF c.base # Dot /\ OpenErr(c, ent) # "ok"
                   THEN {OpenErr(c, ent)}
                   ELSE IF kind[ent] = "dir" THEN {"ok"} ELSE {"ok", "EIO"}) :
          call' = [call EXCEPT ![t] = Done(err)]
    /\ UNCHANGED treeVars

\* the new file gets perm as it is, the umask is for directories only
OpenCreate(t) ==
    LET c == call[t] IN
    /\ c.pc = "open"
    /\ Found(c) = Nil
    /\ \/ /\ call' = [call EXCEPT ![t] =
                Done(IF CreateErr(c) # "ok" THEN CreateErr(c) ELSE "EIO")]
          /\ UNCHANGED treeVars
       \/ /\ CreateErr(c) = "ok"
          /\ Free # {}
          /\ NewDirent(Fresh, "file", c.base, c.perm)
          /\ call' = [call EXCEPT ![t] = [c EXCEPT !.pc = "openLink",
                                                   !.link = Fresh]]
          /\ UNCHANGED <<dirents, direntMap, closes, referredAs>>

OpenLink(t) ==
    LET c == call[t] IN
    /\ c.pc = "openLink"
    /\ UNCHANGED <<kind, name, mode, closes, referredAs>>
    /\ AddDirent(c.at, c.link)
    /\ call' = [call EXCEPT ![t] = Done("ok")]

-----------------------------------------------------------------------------
(***************************************************************************)
(* removeFromParent, for Remove, RemoveAll and removeAllFrom: the checks,  *)
(* then notifyClose of the entry found, then removal of whatever has the   *)
(* name.                                                                   *)
(***************************************************************************)
RemoveErr(c) ==
    LET ent == Lookup(c.at, c.base) IN
    IF c.base = Dot THEN "EPERM"
    ELSE IF ~HasPerm(c.at, {"w", "x"}) THEN "EACCES"
    ELSE IF ent = Nil THEN "ENOENT"
    ELSE IF Len0(ent) > 0 THEN "ENOTEMPTY"
    ELSE "ok"

RemoveCheck(t) ==
    LET c == call[t] IN
    /\ c.pc = "remove"
    /\ call' = [call EXCEPT ![t] =
            IF RemoveErr(c) # "ok" THEN AfterRemove(c, RemoveErr(c))
            ELSE [c EXCEPT !.pc = "removeClose", !.ent = Lookup(c.at, c.base)]]
    /\ UNCHANGED treeVars

RemoveClose(t) ==
    LET c == call[t] IN
    /\ c.pc = "removeClose"
    /\ NotifyClose(c.ent)
    /\ \E err \in (IF kind[c.ent] = "file" THEN {"ok", "ErrClosedWithError"}
                   ELSE {"ok"}) :
          call' = [call EXCEPT ![t] = [c EXCEPT !.pc = "removeUnlink",
                                                !.err = err]]
    /\ UNCHANGED <<kind, name, mode, dirents, direntMap, referredAs>>

\* fault: an error of notifyClose returns before the entry is removed
RemoveUnlinkReturns(t) ==
    LET c == call[t] IN
    /\ c.pc = "removeUnlink"
    /\ IF c.err = "ok" THEN RemoveName(c.at, c.base)
       ELSE UNCHANGED <<dirents, direntMap>>
    /\ call' = [call EXCEPT ![t] = AfterRemove([c EXCEPT !.err = "ok"], c.err)]
    /\ UNCHANGED <<kind, name, mode, closes, referredAs>>

RemoveUnlink(t) ==
    LET c == call[t] IN
    /\ c.pc = "removeUnlink"
    /\ RemoveName(c.at, c.base)
    /\ call' = [call EXCEPT ![t] = AfterRemove([c EXCEPT !.err = "ok"], c.err)]
    /\ UNCHANGED <<kind, name, mode, closes, referredAs>>

\* removeAll after the first Remove: findParent again, then removeAllFrom
RemoveAllAgain(t) ==
    LET c == call[t] IN
    /\ c.pc = "again"
    /\ call' = [call EXCEPT ![t] =
            FindParent([c EXCEPT !.op = "removeAllFrom"], c.path, "remove")]
    /\ UNCHANGED treeVars

\* The directory that was not empty is looked up again.  Meanwhile it may be
\* gone or be a file, and dir.dir.ListName() panics.
RemoveAllList(t) ==
    LET c == call[t]
        d == Lookup(c.at, c.base) IN
    /\ c.pc = "list"
    /\ call' = [call EXCEPT ![t] =
            IF d = Nil \/ (d # Nil /\ kind[d] = "file") THEN Done("panic")
            ELSE [c EXCEPT !.pc = "next", !.ent = Nil,
                    !.stack = Append(@, [dir |-> d, names |-> ListName(d)])]]
    /\ UNCHANGED treeVars

\* the loop over the names; a directory is left as it is when they are done
RemoveAllNext(t) ==
    LET c == call[t]
        top == Last(c.stack) IN
    /\ c.pc = "next"
    /\ call' = [call EXCEPT ![t] =
            IF c.stack = <<>> THEN Done("ok")
            ELSE IF top.names = <<>> THEN [c EXCEPT !.stack = Front(@)]
            ELSE [c EXCEPT !.pc = "remove", !.at = top.dir,
                           !.base = Head(top.names),
                           !.stack = Append(Front(@),
                                [top EXCEPT !.names = Tail(@)])]]
    /\ UNCHANGED treeVars

-----------------------------------------------------------------------------
(***************************************************************************)
(* rename, after the walks to the two parents.                             *)
(***************************************************************************)
RenameOld(t) ==
    LET c == call[t]
        target == Lookup(c.at, c.base) IN
    /\ c.pc = "renameOld"
    /\ call' = [call EXCEPT ![t] =
            IF ~HasPerm(c.at, {"w"}) THEN Done("EACCES")
            ELSE IF target = Nil THEN Done("ENOENT")
            ELSE FindParent([c EXCEPT !.old = target, !.from = c.at],
                            c.to, "renameNew")]
    /\ UNCHANGED treeVars

RenameErr(old, new) ==
    IF kind[old] = "dir" /\ ~HasPerm(old, {"w"}) THEN "EACCES"
    ELSE IF new = Nil THEN "ok"
    ELSE IF kind[old] = "file" /\ kind[new] = "dir" THEN "EISDIR"
    ELSE IF kind[old] = "dir" /\ kind[new] = "file" THEN "ENOTDIR"
    ELSE IF kind[old] = "dir" /\ Len0(new) > 0 THEN "ENOTEMPTY"
    ELSE "ok"

RenameNew(t) ==
    LET c == call[t]
        err == IF ~HasPerm(c.at, {"w"}) THEN "EACCES"
               ELSE RenameErr(c.old, Lookup(c.at, c.base)) IN
    /\ c.pc = "renameNew"
    /\ call' = [call EXCEPT ![t] =
            IF err # "ok" THEN Done(err) ELSE [c EXCEPT !.pc = "renameUnlink"]]
    /\ UNCHANGED treeVars

\* fault: the old parent is asked to remove the new name
RenameUnlinkNew(t) ==
    LET c == call[t] IN
    /\ c.pc = "renameUnlink"
    /\ RemoveName(c.from, Base(c.to))
    /\ call' = [call EXCEPT ![t] = [c EXCEPT !.pc = "renameLink"]]
    /\ UNCHANGED <<kind, name, mode, closes, referredAs>>

RenameUnlink(t) ==
    LET c == call[t] IN
    /\ c.pc = "renameUnlink"
    /\ RemoveName(c.from, name[c.old])
    /\ call' = [call EXCEPT ![t] = [c EXCEPT !.pc = "renameLink"]]
    /\ UNCHANGED <<kind, name, mode, closes, referredAs>>

\* fault: the target is added to the directory it was in
RenameLinkOld(t) ==
    LET c == call[t] IN
    /\ c.pc = "renameLink"
    /\ UNCHANGED <<kind, name, mode, closes>>
    /\ AddDirent(c.from, c.old)
    /\ referredAs' = IF kind[c.old] = "file"
                     THEN [referredAs EXCEPT ![c.old] = c.to] ELSE referredAs
    /\ call' = [call EXCEPT ![t] = Done("ok")]

\* addDirent(oldTarget) adds the entry under the name it was created with;
\* AddDirent always returns nil, so that replaced.notifyClose is never called
RenameLink(t) ==
    LET c == call[t] IN
    /\ c.pc = "renameLink"
    /\ UNCHANGED <<kind, name, mode, closes>>
    /\ AddDirent(c.at, c.old)
    /\ referredAs' = IF kind[c.old] = "file"
                     THEN [referredAs EXCEPT ![c.old] = c.to] ELSE referredAs
    /\ call' = [call EXCEPT ![t] = Done("ok")]

-----------------------------------------------------------------------------
(***************************************************************************)
(* Reallocate up to the call of addFile: the views may fail to open, to    *)
(* copy and to stat; the new view is then dropped without Close.           *)
(***************************************************************************)
ReallocErr(e) ==
    CASE e = Nil -> "ENOENT"
      [] e # Nil /\ kind[e] # "file" -> "EBADF"
      [] OTHER -> "ok"

ReallocCopy(t) ==
    LET c == call[t]
        e == Found(c) IN
    /\ c.pc = "reallocate"
    /\ \/ /\ call' = [call EXCEPT ![t] =
                Done(IF ReallocErr(e) # "ok" THEN ReallocErr(e) ELSE "EIO")]
          /\ UNCHANGED treeVars
       \/ /\ ReallocErr(e) = "ok"
          /\ Free # {}
          /\ NewDirent(Fresh, "file", Base(c.path), Bits)
          /\ call' = [call EXCEPT ![t] =
                MkdirAll([c EXCEPT !.link = Fresh, !.old = e], Dir(c.path))]
          /\ UNCHANGED <<dirents, direntMap, closes, referredAs>>

(***************************************************************************)
(* addFile after MkdirAll and find of the parent directory.                *)
(***************************************************************************)
AddLookup(t) ==
    LET c == call[t]
        parent == Found(c)
        ent == Lookup(parent, Base(c.path)) IN
    /\ c.pc = "add"
    /\ call' = [call EXCEPT ![t] =
            IF WritableErr(parent) # "ok" THEN Done(WritableErr(parent))
            ELSE IF ent = Nil THEN [c EXCEPT !.pc = "addLink", !.at = parent]
            ELSE [c EXCEPT !.pc = "addClose", !.at = parent, !.ent = ent]]
    /\ UNCHANGED treeVars

AddClose(t) ==
    LET c == call[t] IN
    /\ c.pc = "addClose"
    /\ NotifyClose(c.ent)
    /\ call' = [call EXCEPT ![t] = [c EXCEPT !.pc = "addLink", !.ent = Nil]]
    /\ UNCHANGED <<kind, name, mode, dirents, direntMap, referredAs>>

AddLink(t) ==
    LET c == call[t] IN
    /\ c.pc = "addLink"
    /\ UNCHANGED <<kind, name, mode, closes, referredAs>>
    /\ AddDirent(c.at, c.link)
    /\ call' = [call EXCEPT ![t] =
            IF c.op = "AddFile" THEN Done("ok") ELSE [c EXCEPT !.pc = "meta"]]

\* copyMeta onto the new entry, then Close of the old view, for the second
\* time when addFile replaced it
ReallocMeta(t) ==
    LET c == call[t] IN
    /\ c.pc = "meta"
    /\ mode' = [mode EXCEPT ![c.link] = mode[c.old]]
    /\ NotifyClose(c.old)
    /\ \E err \in {"ok", "ErrClosedWithError"} :
          call' = [call EXCEPT ![t] = Done(err)]
    /\ UNCHANGED <<kind, name, dirents, direntMap, referredAs>>

-----------------------------------------------------------------------------
Call(t) ==
    \/ CallChmod(t) \/ CallMkdir(t) \/ CallMkdirAll(t) \/ CallOpenFile(t)
    \/ CallRemove(t) \/ CallRemoveAll(t) \/ CallRename(t) \/ CallAddFile(t)
    \/ CallReallocate(t)

Step(t) ==
    \/ Walk(t) \/ Chmod(t)
    \/ MkdirCheck(t) \/ MkdirAdd(t) \/ MkdirAllLookup(t) \/ MkdirAllAdd(t)
    \/ OpenExisting(t) \/ OpenCreate(t) \/ OpenLink(t)
    \/ RemoveCheck(t) \/ RemoveClose(t) \/ RemoveUnlink(t)
    \/ RemoveAllAgain(t) \/ RemoveAllList(t) \/ RemoveAllNext(t)
    \/ RenameOld(t) \/ RenameNew(t) \/ RenameUnlink(t) \/ RenameLink(t)
    \/ ReallocCopy(t) \/ AddLookup(t) \/ AddClose(t) \/ AddLink(t)
    \/ ReallocMeta(t)

Init == TreeInit /\ call = [t \in Threads |-> NoCall]
Next == \E t \in Threads : Call(t) \/ Step(t)

Spec == Init /\ [][Next]_vars

\* The scheduler runs every goroutine and no critical section blocks for
\* ever, so a goroutine inside an operation keeps going.  Nothing makes one
\* call an operation.
FairSpec == Spec /\ \A t \in Threads : WF_vars(Step(t))

-----------------------------------------------------------------------------
(***************************************************************************)
(* Types.                                                                  *)
(***************************************************************************)
Errors == {"ok", "ENOENT", "ENOTDIR", "EACCES", "EEXIST", "EISDIR", "EROFS",
           "EPERM", "ENOTEMPTY", "EBUSY", "EINVAL", "EBADF", "EIO",
           "ErrClosedWithError", "panic"}

OpNames == {"Chmod", "Mkdir", "MkdirAll", "OpenFile", "Remove", "RemoveAll",
            "Rename", "AddFile", "Reallocate"}

\* where a walk can lead
Targets == {"chmod", "mkdir", "open", "remove", "renameOld", "renameNew",
            "reallocate", "add"}

PCs == Targets \cup
    {"idle", "walk", "mkdirAdd", "mkdirAll", "mkdirAllAdd", "openLink",
     "removeClose", "removeUnlink", "again", "list", "next", "renameUnlink",
     "renameLink", "addClose", "addLink", "meta"}

FlagType == [acc : SUBSET {"r", "w"}, creat : BOOLEAN, excl : BOOLEAN,
             trunc : BOOLEAN]

Calls == [op : OpNames \cup {"none", "removeAllFrom"}, pc : PCs,
          path : Seq(Names), to : Seq(Names), flag : FlagType,
          perm : SUBSET Bits, at : Ents, base : EntNames, rest : Seq(Names),
          next : Targets \cup {"idle"}, ent : Ents \cup {Nil},
          old : Ents \cup {Nil}, from : Ents, link : Ents \cup {Nil},
          stack : Seq([dir : Ents, names : Seq(EntNames)]), err : Errors]

TypeOK == TreeTypeOK /\ call \in [Threads -> Calls]

-----------------------------------------------------------------------------
(***************************************************************************)
(* What the operations promise.                                            *)
(***************************************************************************)
\* the entry a path leads to, permissions aside
Resolve(p) ==
    LET step[k \in Nat] ==
          IF k = 0 THEN Root
          ELSE IF step[k - 1] = Nil THEN Nil
          ELSE direntMap[step[k - 1]][p[k]]
    IN step[Len(p)]

Reachable(e) == e \in Subtree(Root)

\* FileView.Close tells the backing storage "that this FileView is no longer
\* referred by name": a file that can be reached by name once no operation is
\* running has not been closed, and none is closed twice but by the last step
\* of Reallocate.  Remove, RemoveAll, AddFile and Reallocate all close before
\* they unlink.
ViewsClosed ==
    [][ /\ AllIdle' => \A f \in FilesUnder(Root)' : closes'[f] = 0
        /\ \A f \in Ents : closes[f] > 0 /\ closes'[f] # closes[f] =>
            \E t \in Threads : call[t].pc = "meta" /\ call[t].old = f ]_vars

\* what a step of Rename may drop: the target, until it is linked again, and
\* then the entry it collides with, which is not closed
RenameDrops(t) ==
    LET c == call[t]
        new == Lookup(c.at, name[c.old]) IN
    IF call'[t] = c THEN {}
    ELSE IF c.pc = "renameUnlink" THEN FilesUnder(c.old)
    ELSE IF c.pc = "renameLink" /\ new # Nil THEN FilesUnder(new)
    ELSE {}

\* The other half of that promise: a file that a step makes unreachable was
\* closed, files deep in a replaced directory included.  Rename is the
\* exception, it drops the entry it collides with unclosed, but no other.
DroppedIsClosed ==
    [][ \A f \in FilesUnder(Root) :
          \/ Reachable(f)'
          \/ closes'[f] > 0
          \/ \E t \in Threads : f \in RenameDrops(t) ]_vars

\* When RemoveAll returns nil no file is left under the path, however deep
\* and whatever errors the views' Close returned.  (The directories are.)
RemoveAllClears ==
    [][ \A t \in Threads, p \in Paths :
          /\ call[t].op \in {"RemoveAll", "removeAllFrom"}
          /\ call[t].path = p
          /\ Idle(t)' /\ call'[t].err = "ok"
          => \/ Resolve(p)' = Nil
             \/ FilesUnder(Resolve(p))' = {} ]_vars

\* The entries of a directory change only while its owner may write it.
\* mkdirAll is the exception: it never asks for write permission.
WritePermission ==
    [][ \A d \in Ents : dirents'[d] # dirents[d] =>
            \/ "w" \in mode[d]
            \/ \E t \in Threads : call[t].pc = "mkdirAllAdd" /\ call[t].at = d
      ]_vars

\* When Rename returns, its target is in the directory it was moved to and in
\* no other, whatever was created between the unlink and the link: it is in
\* the tree if that directory still is.  A path to the directory and the name
\* the target was created with lead to it.  They do not lead to the new name:
\* the view of a file is told that it "is now referred as newname", and unless
\* newname ends in the old base name it is not (dir.AddDirent files a dirent
\* under its own name).
RenameKeepsTarget ==
    [][ \A t \in Threads, e, d \in Ents, p \in Paths :
          /\ call[t].pc = "renameLink" /\ Idle(t)'
          /\ call[t].old = e /\ call[t].at = d /\ call[t].to = p
          => /\ Parents(e)' = {d}
             /\ Reachable(d) => Reachable(e)'
             /\ Resolve(Dir(p)) = d => Resolve(Append(Dir(p), name[e]))' = e
             /\ kind[e] = "file" => referredAs'[e] = p ]_vars

\* RemoveAll never dereferences a directory that is gone.  It looks the
\* directory up a second time, so this needs that nobody else removes or
\* renames, or links a file, which may take the place of a directory.
NoPanic == \A t \in Threads : call[t].err # "panic"

\* An operation that has begun returns, whatever the others do meanwhile:
\* RemoveAll works on the names it listed, and no walk is longer than its path.
Returns == \A t \in Threads : ~Idle(t) ~> Idle(t)
=============================================================================
