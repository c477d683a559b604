------------------------------ MODULE Wrapper -------------------------------
(***************************************************************************)
(* The methods implwrapper generates for a type that wraps an afero.Fs and *)
(* for the files it returns, with the hooks of the two types that use it:  *)
(* ObservableFs (observable.go), which records every call before and after *)
(* it is passed on, and ValidPathFs (valid_path.go), which rewrites paths. *)
(*                                                                         *)
(* Goroutines call methods at the same time.  The history is written under *)
(* a mutex: the slice is read in one step and stored in the next.  A path  *)
(* is whether it starts with a slash, and its elements.  The wrapped Fs is *)
(* whatever takes the call; it may fail.                                   *)
(*                                                                         *)
(* A definition marked as a fault is the one that follows it with a        *)
(* mistake in it, for README.md's table of what the properties notice.     *)
(***************************************************************************)
EXTENDS Integers, Sequences, SequencesExt

CONSTANTS
    Callers,    \* goroutines
    Used,       \* for each wrapper, the methods called: of its Fs, its files
    Paths,      \* for each wrapper, the paths they are called with
    MaxCalls,   \* bound: for each wrapper, calls made
    Nil

wrappers == {"ObservableFs", "ValidPathFs"}

VARIABLES
    wrapper,    \* the type
    history,    \* ObservableFs.history
    mu,         \* who holds its mutex
    files,      \* whether callers have a wrapped file, and one that is not
    call,       \* the call of each goroutine
    calls,      \* how many were made: the name of the next
    effects     \* what happened to the wrapped Fs and files, and when

vars == <<wrapper, history, mu, files, call, calls, effects>>

-----------------------------------------------------------------------------
(***************************************************************************)
(* methods_def.go: fields of the methods that some hook modifies, by name  *)
(* and type.                                                               *)
(***************************************************************************)
NameF == <<"name", "string">>       PathF == <<"path", "string">>
OldF == <<"oldname", "string">>     NewF == <<"newname", "string">>
PermF == <<"perm", "fs.FileMode">>  ModeF == <<"mode", "fs.FileMode">>
FileF == <<"f", "afero.File">>      ErrF == <<"err", "error">>
FiF == <<"fi", "fs.FileInfo">>      FisF == <<"fi", "[]fs.FileInfo">>
PF == <<"p", "[]byte">>             OffF == <<"off", "int64">>
NF == <<"n", "int">>                StringF == <<"s", "string">>
NamesF == <<"s", "[]string">>       TimeF == <<"mtime", "time.Time">>

Method(arg, ret) == [arg |-> arg, ret |-> ret]

fsysMethods ==
    [m \in {"Create", "Open", "OpenFile", "Mkdir", "MkdirAll", "Remove",
            "RemoveAll", "Rename", "Stat", "Name", "Chmod", "Chown",
            "Chtimes"} |->
        CASE m \in {"Create", "Open"} -> Method({NameF}, {FileF, ErrF})
          [] m = "OpenFile" -> Method({NameF, PermF}, {FileF, ErrF})
          [] m = "Mkdir" -> Method({NameF, PermF}, {ErrF})
          [] m = "MkdirAll" -> Method({PathF, PermF}, {ErrF})
          [] m \in {"Remove", "Chown"} -> Method({NameF}, {ErrF})
          [] m = "RemoveAll" -> Method({PathF}, {ErrF})
          [] m = "Rename" -> Method({OldF, NewF}, {ErrF})
          [] m = "Stat" -> Method({NameF}, {FiF, ErrF})
          [] m = "Name" -> Method({}, {NameF})
          [] m = "Chmod" -> Method({NameF, ModeF}, {ErrF})
          [] m = "Chtimes" -> Method({NameF, TimeF}, {ErrF})]

fileMethods ==
    [m \in {"Close", "Sync", "Truncate", "Name", "Read", "Write", "ReadAt",
            "WriteAt", "Readdir", "Readdirnames", "Seek", "Stat",
            "WriteString"} |->
        CASE m \in {"Close", "Sync", "Truncate", "Seek"} -> Method({}, {ErrF})
          [] m = "Name" -> Method({}, {StringF})
          [] m \in {"Read", "Write"} -> Method({PF}, {NF, ErrF})
          [] m \in {"ReadAt", "WriteAt"} -> Method({PF, OffF}, {NF, ErrF})
          [] m = "Readdir" -> Method({}, {FisF, ErrF})
          [] m = "Readdirnames" -> Method({NF}, {NamesF, ErrF})
          [] m = "Stat" -> Method({}, {FiF, ErrF})
          [] m = "WriteString" -> Method({StringF}, {NF, ErrF})]

ASSUME WrapperAssumption ==
    /\ Nil \notin Callers
    /\ \A w \in wrappers :
        /\ MaxCalls[w] \in Nat
        /\ Paths[w] \subseteq [rooted : BOOLEAN, elems : Seq(STRING)]
        /\ Used[w].fs \subseteq DOMAIN fsysMethods
        /\ Used[w].file \subseteq DOMAIN fileMethods

-----------------------------------------------------------------------------
(***************************************************************************)
(* tmpl.go: the fields a hook modifies, and which hooks a method gets.     *)
(***************************************************************************)
Unnamed == <<"\"\"", "">>
modifiers ==
    {[f |-> f, hook |-> "modifyPath"] :
        f \in {{NameF, Unnamed}, {PathF, Unnamed}, {OldF, NewF}}}
    \cup {[f |-> {f}, hook |-> "modifyMode"] : f \in {PermF, ModeF}}
    \cup {[f |-> {<<"atime", "fs.FileMode">>, TimeF}, hook |-> "modifyTimes"]}
    \cup {[f |-> {f}, hook |-> "modifyFi"] : f \in {FiF, FisF}}
    \cup {[f |-> {h[1]}, hook |-> h[2]] :
            h \in {<<ErrF, "modifyErr">>, <<FileF, "modifyFile">>,
                   <<NamesF, "modifyDirnames">>, <<PF, "modifyP">>,
                   <<NF, "modifyN">>, <<OffF, "modifyOff">>,
                   <<StringF, "modifyString">>}}

\* the methods each type has that implFlags looks for
Hooks == [ObservableFs |-> {"beforeEach", "afterEach", "modifyFile"},
          ObservableFile |-> {"beforeEach", "afterEach"},
          ValidPathFs |-> {"modifyPath"}]

\* fault: every field of the modifier has to be there
MatchAll(mod, fields) == mod.f \subseteq fields

Match(mod, fields) == mod.f \cap fields # {}

\* whether the template calls hook of the type on the field, among fields
Modifies(type, hook, field, fields) ==
    /\ field \in fields /\ hook \in Hooks[type]
    /\ \E mod \in modifiers :
        mod.hook = hook /\ field \in mod.f /\ Match(mod, fields)

-----------------------------------------------------------------------------
(***************************************************************************)
(* valid_path.go                                                           *)
(***************************************************************************)
Path(rooted, elems) == [rooted |-> rooted, elems |-> elems]
Empty == Path(FALSE, <<>>)

\* path.Clean of the elements, one after the other
CleanNext(rooted, es, e) ==
    IF e \in {"", "."} THEN es
    ELSE IF e # ".." THEN Append(es, e)
    ELSE IF es # <<>> /\ Last(es) # ".." THEN Front(es)
    ELSE IF rooted THEN es ELSE Append(es, e)

Clean(p) ==
    LET es[k \in 0 .. Len(p.elems)] ==
          IF k = 0 THEN <<>> ELSE CleanNext(p.rooted, es[k - 1], p.elems[k])
    IN es[Len(p.elems)]

\* fault: a path that is not rooted is left as it is
ToFsPathRooted(p) == IF p.rooted THEN Path(FALSE, Clean(p)) ELSE p

toFsPath(p) ==
    IF p = Empty THEN p
    ELSE IF Clean(p) = <<>> /\ ~p.rooted THEN Path(FALSE, <<".">>)
    ELSE Path(FALSE, Clean(p))

modifyPath(method, p) == IF method = "Name" THEN p ELSE toFsPath(p)

\* the method's fields after the hooks: the paths among them
Modified(m, fields, vals) ==
    [f \in DOMAIN vals |->
        IF Modifies(wrapper, "modifyPath", f, fields)
        THEN modifyPath(m, vals[f]) ELSE vals[f]]

-----------------------------------------------------------------------------
(***************************************************************************)
(* A call.  on is what it is made on: the Fs, a wrapped file, or one that  *)
(* is not wrapped.                                                         *)
(***************************************************************************)
NoCall == [pc |-> "idle", id |-> 0, on |-> "fs", m |-> Nil, slice |-> <<>>,
           raw |-> <<>>, vals |-> <<>>, file |-> FALSE, err |-> FALSE]

TypeOf(on) == IF on = "fs" THEN wrapper ELSE "ObservableFile"
Wraps(on, hook) == on # "bare" /\ hook \in Hooks[TypeOf(on)]

Goto(c, pc) == call' = [call EXCEPT ![c].pc = pc]

PathFields == {NameF, PathF, OldF, NewF}

Call(c) ==
    /\ call[c].pc = "idle" /\ calls < MaxCalls[wrapper]
    /\ \E on \in {"fs"} \cup files :
        \E m \in IF on = "fs" THEN Used[wrapper].fs ELSE Used[wrapper].file :
            LET def == IF on = "fs" THEN fsysMethods[m] ELSE fileMethods[m] IN
            \E vals \in [def.arg \cap PathFields -> Paths[wrapper]] :
                call' = [call EXCEPT ![c] =
                    [NoCall EXCEPT
                        !.pc = IF Wraps(on, "beforeEach") THEN "before"
                               ELSE "inner",
                        !.id = calls + 1, !.on = on, !.m = m, !.raw = vals,
                        !.vals = IF on = "fs" THEN Modified(m, def.arg, vals)
                                 ELSE vals]]
    /\ calls' = calls + 1
    /\ UNCHANGED <<wrapper, history, mu, files, effects>>

\* fault: the history is read without the mutex
MuIgnored == TRUE

MuFree == mu = Nil

\* recordOp, called by beforeEach and by afterEach
RecordLock(c) ==
    /\ call[c].pc \in {"before", "after"}
    /\ MuFree
    /\ mu' = c
    /\ call' = [call EXCEPT ![c].slice = history,
                            ![c].pc = IF @ = "before" THEN "beforeAppend"
                                      ELSE "afterAppend"]
    /\ UNCHANGED <<wrapper, history, files, calls, effects>>

RecordAppend(c) ==
    /\ call[c].pc \in {"beforeAppend", "afterAppend"}
    /\ history' = Append(call[c].slice,
            [id |-> call[c].id, IsFsys |-> call[c].on = "fs",
             IsBefore |-> call[c].pc = "beforeAppend", Method |-> call[c].m])
    /\ mu' = Nil
    /\ call' = [call EXCEPT ![c].slice = <<>>,
                            ![c].pc = IF @ = "beforeAppend" THEN "inner"
                                      ELSE "ret"]
    /\ UNCHANGED <<wrapper, files, calls, effects>>

\* recv.inner.Method: only methods that return an error fail, and those of
\* the Fs that return a file return one if they do not; Name returns a name
InnerCall(c) ==
    LET k == call[c]
        def == IF k.on = "fs" THEN fsysMethods[k.m] ELSE fileMethods[k.m]
    IN
    /\ k.pc = "inner"
    /\ effects' = Append(effects, [id |-> k.id, at |-> Len(history)])
    /\ \E err \in IF ErrF \in def.ret THEN BOOLEAN ELSE {FALSE} :
        \E vals \in IF NameF \in def.ret THEN [{NameF} -> Paths[wrapper]] ELSE {k.vals} :
            call' = [call EXCEPT ![c].err = err,
                ![c].file = FileF \in def.ret /\ ~err,
                ![c].vals = vals,
                ![c].raw = IF NameF \in def.ret THEN vals ELSE @,
                ![c].pc = IF Wraps(k.on, "afterEach") THEN "after" ELSE "ret"]
    /\ UNCHANGED <<wrapper, history, mu, files, calls>>

\* fault: the file is returned as it is
WrapsFileNot(k) == FALSE

\* modifyFile of ObservableFs
WrapsFile(k) ==
    k.on = "fs" /\ Modifies(wrapper, "modifyFile", FileF, fsysMethods[k.m].ret)

\* what is left of the method; the caller of one that returned a file has it
Ret(c) ==
    LET k == call[c] IN
    /\ k.pc = "ret"
    /\ files' = IF k.file
                THEN files \cup {IF WrapsFile(k) THEN "wrapped" ELSE "bare"}
                ELSE files
    /\ call' = [call EXCEPT ![c] =
            [k EXCEPT !.pc = "idle",
                      !.vals = IF k.on = "fs"
                               THEN Modified(k.m, fsysMethods[k.m].ret, @)
                               ELSE @]]
    /\ UNCHANGED <<wrapper, history, mu, calls, effects>>

Init ==
    /\ wrapper \in wrappers
    /\ history = <<>> /\ effects = <<>>
    /\ mu = Nil
    /\ files = {}
    /\ call = [c \in Callers |-> NoCall]
    /\ calls = 0

Next == \E c \in Callers :
    Call(c) \/ RecordLock(c) \/ RecordAppend(c) \/ InnerCall(c) \/ Ret(c)

Spec == Init /\ [][Next]_vars

-----------------------------------------------------------------------------
(***************************************************************************)
(* Types: what the variables hold.  Only the holder of the mutex is inside *)
(* recordOp.                                                               *)
(***************************************************************************)
Recording == {"beforeAppend", "afterAppend"}

TypeOK ==
    /\ wrapper \in wrappers
    /\ calls \in 0 .. MaxCalls[wrapper]
    /\ files \subseteq {"wrapped", "bare"}
    /\ \A i \in DOMAIN history : history[i].id \in 1 .. calls
    /\ \A i \in DOMAIN effects : effects[i].at \in 0 .. Len(history)
    /\ mu \in Callers \cup {Nil}
    /\ \A c \in Callers :
        /\ call[c].pc \in Recording \cup {"idle", "before", "inner", "after",
                                          "ret"}
        /\ call[c].id \in 0 .. calls
        /\ call[c].pc \in Recording <=> mu = c

\* the i-th entry is the one recorded before, or after, call id
Entry(i, id, before) == history[i].id = id /\ history[i].IsBefore = before

\* the call still has to record its end
Ending == {"after", "afterAppend"}
Running(id) == \E c \in Callers : call[c].id = id /\ call[c].pc \in Ending

(***************************************************************************)
(* The history is complete and in order: whatever reached the wrapped Fs,  *)
(* or a file opened through the wrapper, was recorded once before it took  *)
(* effect and, when the call returns, once after, whatever other           *)
(* goroutines record meanwhile (observable.go recordOp, modifyFile).       *)
(***************************************************************************)
Recorded ==
    wrapper = "ObservableFs" =>
        \A i \in DOMAIN effects :
            LET id == effects[i].id IN
            /\ \E k \in 1 .. effects[i].at :
                \A j \in DOMAIN history : Entry(j, id, TRUE) <=> j = k
            /\ \/ /\ Running(id)
                  /\ \A j \in DOMAIN history : ~ Entry(j, id, FALSE)
               \/ /\ ~ Running(id)
                  /\ \E k \in effects[i].at + 1 .. Len(history) :
                      \A j \in DOMAIN history : Entry(j, id, FALSE) <=> j = k

-----------------------------------------------------------------------------
\* where a path leads from a directory, element by element
WalkNext(at, e) ==
    IF e \in {"", "."} THEN at
    ELSE IF e # ".." THEN Append(at, e)
    ELSE IF at = <<>> THEN at ELSE Front(at)

WalkAlong(from, elems) ==
    LET at[k \in 0 .. Len(elems)] ==
          IF k = 0 THEN from ELSE WalkNext(at[k - 1], elems[k])
    IN at[Len(elems)]

Walk(from, p) == WalkAlong(IF p.rooted THEN <<>> ELSE from, p.elems)

\* fs.ValidPath: what an fs.FS takes
ValidPath(p) ==
    /\ ~ p.rooted
    /\ \/ p.elems = <<".">>
       \/ /\ p.elems # <<>>
          /\ \A i \in DOMAIN p.elems : p.elems[i] \notin {"", ".", ".."}

\* a path that leaves the directory it starts from, and is else as ValidPath
\* has it
Above(p) ==
    /\ ~ p.rooted /\ p.elems # <<>> /\ p.elems[1] = ".."
    /\ \A i \in DOMAIN p.elems :
        /\ p.elems[i] \notin {"", "."}
        /\ p.elems[i] = ".." => \A j \in 1 .. i : p.elems[j] = ".."

\* the root, or no path at all
RootOrNone(p) == IF p.rooted THEN Walk(<<>>, p) = <<>> ELSE p = Empty

(***************************************************************************)
(* Every path the wrapped Fs is given leads where the caller's leads from  *)
(* there, a rooted one from the root, and fs.ValidPath takes it, but for   *)
(* two kinds: the root comes as the empty path, and a path that is not     *)
(* rooted and leaves its directory keeps the ".." it begins with.  So the  *)
(* "converts every path element into fs.FS style" of ValidPathFs is not    *)
(* true of these two, which an fs.FS refuses.  The two paths of Rename are *)
(* each converted, and the name of the Fs, which is not a path, is not     *)
(* (valid_path.go).                                                        *)
(***************************************************************************)
PathsConverted ==
    wrapper = "ValidPathFs" => \A c \in Callers :
        LET k == call[c] IN
        /\ k.pc = "inner" => \A f \in DOMAIN k.vals :
            /\ \/ ValidPath(k.vals[f])
               \/ k.vals[f] = Empty /\ RootOrNone(k.raw[f])
               \/ Above(k.vals[f]) /\ ~ k.raw[f].rooted
            /\ \A from \in {<<>>, <<"x">>, <<"x", "y", "z">>} :
                Walk(IF k.raw[f].rooted THEN <<>> ELSE from, k.vals[f])
                    = Walk(from, k.raw[f])
        /\ k.pc = "idle" /\ k.m = "Name" => k.vals = k.raw
=============================================================================
