# Verification of go-fsys-helper

TLA+ models of the stateful parts of `go-fsys-helper`: the synthetic
filesystem `aferofs/synth` with its views, the wrappers of package `aferofs`
and the generator that writes them, and the readers of `stream`. TLC checks
small instances; TLAPS proves the invariants (two of the tree and those of the
in-memory file under an assumption), four action properties and both refinements
for every instance.

## The system

| component | state | operations | modelled by |
|---|---|---|---|
| directory tree: `synth/dirent.go`, `dir.go` | per directory a list and a map of entries, mode; per file a view and its mode | lookup, AddDirent, RemoveName, ListName, notifyClose, notifyRename | `Dirs` |
| `synth.Fs`: `fs.go`, `fs_link.go` | the root, umask, allocator; the locals of every operation under way | Chmod, Mkdir, MkdirAll, OpenFile, Remove, RemoveAll, Rename, AddFile, Reallocate | `SynthFs` |
| `FileView` (interface) | outside: what was closed, what it was last renamed to | Open, Stat, Truncate, Close, Rename, each may fail | environment in `SynthFs` |
| in-memory files: `impl_inmem_file.go` | a byte slice with its capacity; per handle an offset and a flag | Read, ReadAt, Seek, Truncate, Write, WriteAt | `MemFile`, abstractly `ByteFile` |
| concatenated readers: `stream/multi_read_at_closer.go` | the readers with their start offsets, `idx`, `off` | Read, Seek, ReadAt, search | `MultiReadAt` |
| metadata of a file: `virtualFileData` | mode, times, initialised or not | Chmod, Open, Stat | `Handles`; its mode also in `Dirs` |
| temporary views: `impl_tmpdir.go` | path of the temporary file; the files in the backing `Fs` | Open, Stat, Close | `Handles` |
| open directories, `Closable` handles: `dir_handle.go`, `fd.go`, `internal/closable` | snapshot and offset; closed | Readdir, Seek; Close | `Handles` |
| linked and ranged views: `impl_fslink.go`; `FsFile` | per view its ranges; per handle an offset; the open `fs.File`s | NewFsFileView, NewRangedFileView, Open, Stat, Truncate, Close, Rename; Read, ReadAt, Seek, Write | `Views`, abstractly `ReadOnlyFile` |
| `ObservableFs`, `ValidPathFs` and the methods generated for them | the history and its mutex | every method of `afero.Fs` and `afero.File` | `Wrapper` |
| `cancellable`, `multiReadCloser`, `serr` | a sticky error; the readers left | Read, Close | `Streams` |
| `implwrapper` and `applygoimports` | the pipe, the processes and the file of each target | `generate`, `write`, `newCmdPipeReader` | `Generate` |
| `IoFs`, `IoFsAdapter`, `operation.go`, `errdef` | none | delegation, refusals, error wrapping | what `FsFile` needs, in `Views` |
| clock, buffer pool, options, examples | none | wrappers of the standard library, records | not modelled |

How they interact. `Fs` walks the tree from the root, calling `lookup` of one
directory after the other, and changes it with `AddDirent` and `RemoveName`.
**It has no lock of its own**: each method of a directory takes that
directory's mutex and releases it. An entry holds a `FileView`; the `Fs` calls
`Open`, `Stat` and `Truncate` on it for the user, and `Close` and `Rename` to
tell it that its name changed or went away. The in-memory allocator supplies
views whose handles share one `memFile`, protected by its own mutex; the
temporary one, views that make a file in another `Fs` when they are first asked
for something. What `OpenFile` returns is a `Closable` around the file or the
`dirHandle`; a `dirHandle` lists its directory by asking every view for its
Stat, under the mutex of the handle and the read lock of the directory.
A linked view opens files of an `fs.FS` through `FsFile`, and a ranged one files
of any view, through an `io.SectionReader`. `stream` is independent; its readers
are whatever implements `io.Reader` or `io.ReaderAt`. The wrappers pass each call
on to an `Fs` of anyone's; their methods are written by `implwrapper`, which runs
`goimports` on the text that its template produces at the same time.

What is hard about it: operations interleave between their lookups and their
updates; views fail in the middle of a removal; RemoveAll works on names it
listed earlier; a rename is two steps in two directories; the slice of a file
reuses capacity with old bytes in it; offsets are 64 bits wide and indices may
be 32; readers hold less or more than they say; ranges are of ranges, of a file
somebody else cuts; a pipe has two ends that may go away in either order. `PROJECT.json` lists each of
these hazards with its line and the properties that watch it.

What makes each component correct:

* the tree: both views of a directory agree, and the entries form a tree;
* `Fs`: a file that can be reached has not been closed, one that leaves the
  tree has, and only once; RemoveAll leaves no file behind; what is renamed
  arrives and is nowhere else; entries change only with permission; every
  operation returns;
* in-memory files: they are zero-padded byte sequences, nothing that was cut
  off comes back, and no offset panics;
* handles: one that is closed refuses all but Name; the handles of a file share its content;
  the pages of a directory are those of one moment; a mode that was set stays;
* concatenated readers: each byte is the one that belongs at its offset, EOF
  means the end, and ReadAt returns;
* linked and ranged views: they are read-only files with the bytes of the range,
  and what is opened to find out whether a range is possible is closed, whether
  it is or not;
* wrappers: every call is recorded once on either side of what it does; a path
  reaches the wrapped `Fs` in the form of `fs.ValidPath` unless it names the root
  or leaves its directory, and leads where the caller's does;
* stream readers: the bytes come complete and in order up to the first error,
  which stays; Close reaches every reader and says whose error is whose;
* generator: a file it does not complain about is complete, and it ends.

## Modules

`EntryList` is the one operation on the list of a directory that a proof has
to know. `Dirs` holds the tree. A dirent is an element of `Ents`, its kind and name are
set when it is allocated and never again, as in the Go struct, which is never
written after it is made. `dirents` and `direntMap` are the list and the map
of `dir`. `closes` and `referredAs` record what the views have been told.
`Subtree` is what the recursion of `notifyClose` visits: the least set that has
the entry in it and, with a directory, its entries.

`SynthFs` holds the operations. `call[t]` has the local variables of the
operation goroutine `t` is in; `pc` says where it is. `CallX` is the start of
operation X up to its first access of a directory below the root; `Walk` is
one iteration of the loop of findParent; the other actions are the critical
sections that follow, in the order of the code:

| code | actions |
|---|---|
| `mkdir` | `MkdirCheck`, `MkdirAdd` |
| `mkdirAll` | `MkdirAllLookup`, `MkdirAllAdd` |
| `openFile` | `OpenExisting`, or `OpenCreate` and `OpenLink` |
| `removeFromParent` | `RemoveCheck`, `RemoveClose`, `RemoveUnlink` |
| `removeAll`, `removeAllFrom` | the former, `RemoveAllAgain`, `RemoveAllList`, `RemoveAllNext` |
| `rename` | `RenameOld`, `RenameNew`, `RenameUnlink`, `RenameLink` |
| `addFile` | `CallAddFile`, the steps of `mkdirAll`, `AddLookup`, `AddClose`, `AddLink` |
| `Reallocate` | `ReallocCopy`, the steps of `addFile`, `ReallocMeta` |

`removeAllFrom` is recursive; its activation records are `stack`. Where views
may fail (`Open`, `Stat`, `Truncate`, `Close`) both outcomes are possible.

`MemFile` is the slice of a `memFile` with length, capacity and the array
behind it, and the handles. `Wrap` is the value a sum has in a signed integer
of the given width. Each method of `memFile` is one step, as its mutex makes
it; a `Write` in append mode is two (`AppendSeek`, `AppendWrite`), because it
asks for the length and writes in two critical sections. `ByteFile` is what a
user of the file expects, with no capacity, no widths and no append mode; the
refinement mapping of `MemFile!File` takes the size from the length of the
slice, the bytes from its array and the positions from the offsets.

`MultiReadAt` holds the readers, with the size each is said to have and the
length it has. A byte is the pair of its reader and its position in it.
`ReaderReadAt` is the contract of `io.ReaderAt`. `Read` and `Seek` are one
step, `ReadAt` one per iteration of its loop. `slices.BinarySearchFunc` is
external and given by its loop (`Bisect`), the comparison by the code's.

`Handles` holds what is opened. A file is its entry, its `virtualFileData` and
its temporary view in one, so that `path`, `meta` and `dropped` are functions
of files; there is one directory, whose list is `entries`. Where `SynthFs` has
the steps of finding an entry, `Handles` starts from the entry found and has
the steps of the locks further down:

| code | actions |
|---|---|
| `newVirtualFileData` | `AddFile`, `CreateFile` |
| `virtualFileData.Open`, `init` | `ViewOpen`, `InitCheck`, `InitStore` |
| end of `openFile` and `addFile` | `Link` |
| `newOpenHandle` of a directory | `OpenDir` |
| `removeFromParent` and `tmpDirFileView.Close` | `RemoveClose`, `RemoveUnlink` |
| methods of `Closable` | `BeforeEach`, `SetClosed`, then `InnerCall`, `Readdir` or `Seek` |
| `dirHandle.Readdir`, `dir.ListFileInfo` | `Readdir`, `ListAsk` per entry, `ListEnd` |

A step under a lock that ends with the step needs no variable for the lock. The
two locks a listing holds over several steps are `Unlocked` and `HandleFree`.

`Views` holds the views of a file in an `fs.FS`. A view is the list of its
ranges, innermost first; its methods call those of the view inside, so that each
operation recurses over the list. Which interfaces the file has is chosen when
it is made: it may be a directory, refuse ReadAt or Seek, or shrink and grow
whenever its owner likes. `NewRanged` does all that `NewRangedFileView` does:
`ProbeResults` is its Open, ReadAt of one byte and Close. `ReadOnlyFile` is what a
user expects of a handle: a window of a file, positions from its start, EOF at
its end and never a write. The refinement mapping of `Views!File` takes the
window as the intersection of the ranges.

`Wrapper` has the methods as the template makes them out of `methods_def.go`: a
hook before the call and one after it, which a method gets for those of its
fields that have the name and type the hook asks for. The two
types differ in their hooks only. `ObservableFs` reads the slice of its history
in one step and stores it in the next, twice for each call, under its mutex;
`ValidPathFs` converts paths, sequences of elements with or without a slash in
front.

`Streams` holds `multiReadCloser` under a `cancellable`, with one goroutine that
reads, one that closes and a context that is cancelled at some time. A Read is
its check, then one step for each reader `io.MultiReader` asks, then its end. Close is one step for
each reader; `closers` are the readers it closes, all of them
for `multiReadCloser` and those that implement `io.Closer` for
`multiReadAtSeekCloser`.

`Generate` has a record for each target, of the four processes that produce its
file: the template's goroutine (`TmplWrite`, `TmplEnd`), the copy `os/exec` makes
from the pipe to standard input (`CopyPiece`, `CopyEnd`), `goimports` (`Child*`),
and `generate` itself with `write` (`Main`). Any may fail at any step.

The `MC` modules hold the values of constants. The modules with `Proofs` in
their name hold the proofs, one for each of `SynthFs`, `Handles`, `MemFile`, `Views`,
`MultiReadAt`, `Wrapper`, `Streams` and `Generate`.

### What the models leave out

* Permission bits are read in the step of the lookup next to them, not under a
  lock of their own. Where several goroutines run nothing changes permissions
  (all modes are rwx and there is no Chmod), so nothing is lost; with one
  goroutine the order does not matter.
* `dir.notifyClose` visits a subtree in one step, though it locks one directory
  after the other on its way down.
* In `SynthFs` a view is asked for its mode once, when its entry is created;
  `Handles` has the views that do not exist yet at that time. Owners, times
  and `Stat` are not modelled.
* In `Handles` an operation starts from its entry, names are not reused, and
  the error an operation returns is not kept. `Read` stands for the methods of
  a file, other than `Name`, that change nothing modelled there: their generated
  bodies all return what `beforeEach` gives them. That of `Name`, which returns
  no error, goes on, and so does the model's (`Refuses`); `Truncate`, which makes a
  temporary file just as `Open` does, is left out.
* Paths are sequences of names that `fs.ValidPath` accepts; the operations
  reject others at once.
* `MemFile` has no mode or modification time. `MultiReadAt` uses integers
  without bound, and one goroutine: `Read` and `Seek` are not for concurrent
  use, and `ReadAt` shares nothing with them.
* `Views` has the size of Stat only, no names and no Readdir of an `FsFile`.
  Handles of it are not used after Close, which `Closable` sees to.
* `Wrapper` has one path or two for the arguments of a call, and no timestamps.
  The hooks of both types never fail, so the template's code for a hook that
  does is not reached.
* `Streams` has one goroutine that reads, as `NewCancellable` requires; buffers
  and readers are of a few bytes. How `serr` prints is left out.
* `Generate` counts text in pieces that `goimports` neither adds to nor takes
  from, and starts with the types already loaded. `ApplyGoimports` is called by
  nothing and is left out.

## Runs

All runs use two workers and finish in about two and a half minutes or less.

| run | instance | states | shows |
|---|---|---|---|
| `SynthSeq` | 1 goroutine, all operations, 6 paths up to depth 3, 4 dirents; a umask takes w away and Chmod gives it back | 336124 | `TypeOK`, `TreeShape`, `NoPanic`, `ViewsClosed`, `DroppedIsClosed`, `RemoveAllClears`, `WritePermission` |
| `SynthMove` | 2 goroutines, one renames and removes and one creates, on 4 paths in two directories, fair | 254910 | `DirsConsistent`, `TreeShape`, `ViewsClosed`, `RenameKeepsTarget`, `Returns` |
| `MemFile` | 2 handles, one appending; files of at most 3 bytes; int64 and int of 4 bits | 105440 | `TypeOK`, `SlackZero`, `NoBoundsPanic`, `Implements` |
| `Handles` | 2 goroutines, 2 files, 2 handles, 2 temporary files; pages of one entry or all; all symmetric but the temporary files | 1949036 | `TypeOK`, `OneTemp`, `LateRefused`, `PagesInOrder`, `ModeKept` |
| `MultiRead` | 0 to 3 readers of size 0 or 2, at most one of which lies; threshold 1, so that both searches run; fair | 26815 | `TypeOK`, `SearchesAgree`, `ReaderFound`, `BytesInPlace`, `ErrorTells`, `ReadAtReturns` |
| `Views` | a file of 0, 1 or 3 bytes that changes; up to 2 ranges, one around the other, beginning and ending in it, at its ends and beyond; int64 of 4 bits | 20950 | `TypeOK`, `PlainCloses`, `ProbeIsEnough`, `Implements` |
| `Wrapper` | 2 goroutines; 3 recorded calls of Fs and file methods, or one call of each method with every path of up to 3 elements | 622438 | `TypeOK`, `Recorded`, `PathsConverted` |
| `Streams` | up to 3 readers of 0 to 2 bytes, buffers of 0 to 2, Close called twice, fair | 279652 | `Delivered`, `CloseAll`, `Sticky`, `Ends` |
| `Generate` | up to 2 targets of 3 pieces each, any of which cannot be wrapped, fair | 1002 | `Complete`, `Ends` |

Three runs check what a comment or a check of the code says and find it
violated. Each is a finding in `PROJECT.json`.

| run | property | what happens |
|---|---|---|
| `RemoveRace` | `DroppedIsClosed` | a file created while a removal or another creation of its name is under way leaves the tree and is never closed |
| `TempFile` | `ClosedIsRemoved` | Close of a temporary view clears the path it then removes; the file stays |
| `RangedStat` | `StatIsOpenThenStat` | Stat of a ranged view reports the size n - off, Stat of its handle n |

The models show more that the code does and its documents do not say, or say
otherwise; no run is spent on these:

* a Rename to another base name tells the view that its file "is now referred as
  newname" (`inderfacedef.go:42-43`) and files the entry under the old one
  (`fs.go:552`, `dir.go:124`), so that `RenameKeepsTarget` finds it under that name
  in the new directory;
* `Name` of a closed handle asks the file inside (`file.closable[t].generate.go:17`
  leaves out what `beforeEach` returns), so that `LateRefused` is for the others;
* the `ValidPathFs` that "converts every path element into fs.FS style"
  (`valid_path.go:23-24`) makes the empty path of the root and keeps a leading
  ".."; `fs.ValidPath` takes neither, so that `PathsConverted` excepts both;
* `AddFile` of the root is not refused and adds an entry "." (`fs_link.go:37`);
* a last reader that is shorter than its size ends with `io.EOF`
  (`multi_read_at_closer.go:161`; `:31` has `io.ErrUnexpectedEOF`), and the Index in
  an error of Read counts the step to the reader twice (`:151`; `:22`);
* `removeAllFrom` dereferences nil when another goroutine removed or renamed its
  directory meanwhile, or replaced it by a file (`fs.go:451`), so that `NoPanic`
  is for one goroutine that removes beside others that make directories;
* two goroutines that rename can make a cycle of directories (`fs.go:548`);
* closing the handle of a ranged view leaves the file of the `fs.FS` open
  (`impl_fslink.go:163`), and so does a range made of a ranged view, so that
  `PlainCloses` lets a step of a ranged view leave one file open;
* with a 32 bit int, `WriteAt` overflows it after its checks (`impl_inmem_file.go:240`),
  so that `NoBoundsPanic` is for one as wide as an int64.

### Bounds, and why they are enough

* `Ents`, the dirents there can ever be: an entry that is removed is not used
  again, so the bound ends the runs. Four allow a directory below a directory
  with a file in it, or two directories with an entry to move, or a file
  replaced twice. `Room` and `MaxNew` keep an operation from starting that
  would run out of them half way; creation steps also wait for a free one.
* Paths: two names, up to three components: enough to collide, to nest, to
  move between directories, and to try to move a directory into itself.
* `closes` stops counting at 2, which tells once from more than once.
* `Int64Max`, `IntMax`, `MaxAlloc`: the code only compares and adds offsets,
  so widths of 4 bits have every overflow the real ones have. The run has
  `IntMax = Int64Max`; with a smaller `IntMax`, a 32 bit platform, TLC finds
  `NoBoundsPanic` violated by a sum that overflows int after the checks. `MaxAlloc` is
  both the largest slice the runtime gives and the largest capacity append
  chooses.
* `Temps`: when all temporary files exist, creating one fails, as it may at any
  time. Two are enough for two files to collide, and for one to get a second.
* Two handles of `Handles` are two on one file, or a file and its directory.
* `MaxOff` bounds Seek beyond the end, where no reader is asked any more.
* `MaxRanges`, `MaxFds`: two ranges are one around the other, and the code treats
  a third like the second; ranged handles leave files open without end, so
  there can be two at a time, enough to tell what stays open from what does not.
* `MaxCalls`: with three calls one goroutine may record a whole call between two
  steps of the other. Paths of three elements have every pair of "..", ".", ""
  and a name, at the front and behind one. One element of each kind would do;
  `toFsPath` only compares elements with these.
* `MaxCloses`, `Pieces`, `MaxTargets`: two Closes show that the second closes
  again and no less; of three pieces one is written, one in the pipe and
  one printed; two targets are one done and one at work.
* Deadlock is checked where a call may always follow. In `Wrapper` the calls end
  with `MaxCalls` and in `Generate` `generate` returns, so it is not.

### Faults

Beside a definition the modules hold variants of it with a mistake a
programmer might make, marked as faults. With one in place of the definition
the run finds the property violated, so each property depends on the code:

| fault | in place of | noticed by |
|---|---|---|
| `SearchErrUnchecked` | `SearchErr` | `TypeOK` (a nil directory) |
| `AddDirentKeepsOld` | `AddDirent` | `DirsConsistent` |
| `RenameUnlinkNew` | `RenameUnlink` | `TreeShape` |
| `RenameLinkOld` | `RenameLink` | `RenameKeepsTarget` |
| `RemoveUnlinkReturns` | `RemoveUnlink` | `ViewsClosed` |
| `NotifyCloseShallow` | `NotifyClose` | `DroppedIsClosed` |
| `ListNameShort` | `ListName` | `RemoveAllClears` |
| `WritableErrSearch` | `WritableErr` | `WritePermission` |
| `LenOfFile` | `Len0` | `NoPanic` |
| `ReturnRetries` | `Return` | `Returns` |
| `CreateAlways` | `Create` | `OneTemp` |
| `InitStoreUnchecked` | `InitStore` | `ModeKept` |
| `SetClosedNot` | `SetClosed` | `LateRefused` |
| `SeekKeepsOffset` | `Seek` of `Handles` | `PagesInOrder`, `TypeOK` of `Handles` |
| `GrowInPlace` | `Grow` | `TypeOK` of `MemFile` |
| `CutKeepsCapacity` | `Cut` | `SlackZero` |
| `OffsetOnlyTooLarge` | `TooLarge` | `NoBoundsPanic` |
| `PutAtStart` | `Put` | `Implements` of `MemFile` |
| `CompareStrict` | `Compare` | `SearchesAgree`, `TypeOK` of `MultiReadAt` |
| `SeekKeepsIdx` | `Seek` | `ReaderFound` |
| `ClassifyTrustsSize` | `Classify` | `BytesInPlace` |
| `ClassifyKeepsEOF`, `LoopEndsEarly` | `Classify`, `LoopEnds` | `ErrorTells` |
| `ClassifySkipsShort` | `Classify` | `ReadAtReturns` |
| `BadRangeNegative` | `BadRange` | `TypeOK` of `Views` |
| `ProbeResultsLeak` | `ProbeResults` | `PlainCloses` |
| `ProbeResultsIgnored` | `ProbeResults` | `ProbeIsEnough` |
| `SectionReadAtUncut`, `SeekFromZero` | `SectionReadAt`, `SeekFrom` | `Implements` of `Views` |
| `MuIgnored` | `MuFree` | `TypeOK`, `Recorded` |
| `WrapsFileNot` | `WrapsFile` | `Recorded` |
| `MatchAll`, `ToFsPathRooted` | `Match`, `toFsPath` | `PathsConverted` |
| `ReadRetErrOnly` | `ReadRet` | `Delivered` |
| `CloseStops`, `CloseErrFiltered` | `CloseDone`, `CloseErr` | `CloseAll` |
| `CheckForgets` | `Check` | `Sticky` |
| `CtxIgnored` | `CtxErr` | `Ends` of `Streams` |
| `WendPlain`, `WaitErrStatus` | `Wend`, `WaitErr` | `Complete` |
| `PrLeftOpen` | `PrClosed` | `Ends` of `Generate` |

### Fairness

`FairSpec` of `SynthFs` is weak fairness of the steps of each goroutine: the Go
scheduler runs every runnable goroutine, and no critical section blocks for
ever as long as the tree is one and the views return. Nothing makes a
goroutine call an operation. `FairSpec` of `MultiReadAt` is weak fairness of the
loop of `ReadAt`: its readers return. `FairSpec` of `Streams` is weak fairness of the
goroutine that reads, which is `io.ReadAll` or the like: it calls again until
there is an error, and the readers return. Nobody has to close or to cancel, and
`Ends` says what follows if somebody cancels.
`FairSpec` of `Generate` is weak fairness of `generate`, of the template, which is
finite, of the copy, and of `goimports` once its input is closed; before that it
may do nothing for ever.

## Proofs

`SynthFsProofs` proves, for any sets of goroutines, names, paths and dirents
and from `DirsAssumption` and `SynthAssumption` alone,

* `TypeCorrect`: `Spec => []TypeOK`;
* `DirsAgree`: `Spec => []DirsConsistent`, the comment of `dir.go` that
  "dirents and direntMap hold same objects" in every interleaving.

`DirsConsistent` speaks of names, and an unlinked entry has to keep its name
until it is linked again by the goroutine that holds it. The inductive
invariant `IInv` therefore adds that what is listed has been allocated
(`ListedAllocated`), that what a goroutine holds in `link` or `old` has been
too (`Held`), and that the locals a step uses are set at the step that uses
them (`Ready`). The proof has three layers: removal from a list keeps the
other elements (`RemoveAtElements`, `UnlistElements`); the two operations of a
directory keep both views in agreement (`AddDirentInv`, `RemoveNameInv`); each
action keeps `IInv`, by `LocalStep` when it leaves the tree alone, by
`SameLinksStep` when it changes no entries and by `TreeStep` otherwise.

* `WritesPermitted`: `Spec => WritePermission`, under `ChmodAlone`: if any
  goroutine may call Chmod there is only one. Without it the property fails,
  since an operation reads the bits of a directory and changes its entries some
  steps later.

For the last, `PInv` adds `Sound`, what an operation under way may rely on: the
directories in its locals are directories, and those it looked at before it
goes on to change them (`Checked`) are writable. `DirsStay` is what carries it
over the steps of the others: an entry never changes its kind, and nothing but
Chmod changes the mode of a directory (`Reallocate` changes that of a file).

Its second half goes on from `PInv` and proves

* `StaysATree`: `Spec => []TreeShape`, under `RenamesAlone`: no two goroutines
  rename;
* `RemoveAllFinds`: `Spec => []NoPanic`, under `RemovesAlone`: next to a goroutine
  that calls RemoveAll the others call no more than Chmod, Mkdir and MkdirAll.

TLC shows that both assumptions are needed: two goroutines that rename make a
cycle, and OpenFile beside RemoveAll puts a file in the place of a directory
between the two lookups.

`TreeShape` speaks of `Subtree`, and as it stands says nothing of what is in no
directory at the time. The inductive `TInv` has a form of it that steps can be
shown to keep (`Forest`): no entry has two parents, the root has none, and every
set of entries has one that none of the set contains. `ForestShape` says that a
forest has the tree shape. An entry that is put into a directory must have no
parent, and the directory must not be below it (`Linked`). For the entries an
operation makes that is `PendingApart`: nobody else knows them and nothing is in
them. For the target of a Rename it is the test of the two paths at its
beginning, several steps before: a `Trail` is what a walk went through, of which
what is still in the tree is still where it was, because only a Rename moves
anything. The walk to the new parent is on the trail of the walk to the old one as
far as the paths agree, and they part before the target (`Moving`). So it is
outside of the target (`Apart`) when the target is linked below it.

`NInv` says that an operation about to list a directory finds one under that
name (`Listing`): it was one when its removal failed with ENOTEMPTY, and the
steps of those who only make directories keep it one (`Making`).

`HandlesProofs` proves, from `HandlesAssumption` alone,

* `TypeCorrect`: `Spec => []TypeOK`;
* `ClosedRefuses`: `Spec => []LateRefused`, of every method but `Name`;
* `OneTempEach`: `Spec => []OneTemp`;
* `ModeIsKept`: `Spec => ModeKept`;
* `PagesStayInOrder`: `Spec => []PagesInOrder`.

None of these is inductive. `Held` says that an operation works on a file that
is known and a handle that is its own or is open; `Closing` that a handle
whose Close returned, or whose inner Close is about to be called, is flagged;
`Apart` that no two of the places a temporary file is remembered in (paths,
handles, locals) belong to different files; `Current` that what was opened of
a file not removed is what its view still has. Their conjunction with the types is
`IInv`. `GoesOn` shows
once that a step which opens no handle keeps all four, if it grows the files
(`FilesGrow`), reopens nothing (`HandlesStay`) and leaves the operation with
what it may use (`MayUse`); `FillHandle` does so for the two steps that open
one; each action then only has to meet their conditions. For the pages two more
are needed: `Once`, no file is in the directory twice or about to be, which is
what keeps a snapshot free of repetitions, and `Snapshots`, only one operation
makes the snapshot of a handle, and the pages given are its beginning.

`MemFileProofs` proves, from `MemFileAssumption` and `Wide` (an int is as wide
as an int64), for any width, bytes, payloads, offsets and handles,

* `TypeCorrect`, `CutStaysCut` and `BoundsHold`: `Spec => []TypeOK`,
  `[]SlackZero` and `[]NoBoundsPanic`;
* `MemFileImplements`: `Spec => Implements`, the refinement of `ByteFile`.

The three invariants are inductive together (`IInv`): the bytes read after the
length are zero only because cutting clears them, and a slice expression is in
bounds only because a sum that overflows is negative (`WrapFits`,
`WrapOverflows`) and so caught by the comparison after it. `GrowCorrect`,
`WriteAtCorrect` and `TruncateCorrect` say what the methods of `memFile` make of
a slice whose slack is zero; `Good`, a conclusion about each action, is that
the invariants hold after it and that it is a step of `ByteFile` or leaves it
as it is. `Wide` cannot be dropped: `NoBoundsPanic` fails without it.

`ViewsProofs` proves, from `ViewsAssumption` alone (lengths, offsets and ranges are
int64s), for any number of ranges one around the other, any file, buffers and
offsets,

* `TypeCorrect` and `ProbeSuffices`: `Spec => []TypeOK` and `[]ProbeIsEnough`;
* `NothingStaysOpen`: `Spec => PlainCloses`;
* `ViewImplements`: `Spec => Implements`, the refinement of `ReadOnlyFile`.

The inductive `VInv` adds to the types that an open handle is not before its range
(`Placed`), that finitely many handles are open and without a range one file for
each (`Counted`), and that a file which got a range can be read at an offset
(`Probed`). `PlainCloses` counts the open files that no open handle has, `Strays`;
`OneAtMost` is its step, and `StepStays` has it for each action: an Open adds a file
and a handle, a Close takes both, and the step that makes the first range has
closed the file it read. For the refinement, `Starts` and `ReadAtOf` are recursive functions
over the levels of a view; that they exist and follow their equations is proved by
induction (`FollowsExists`, `InductTo`, both from the well-foundedness of `<` on
Nat). `InFirstIs` says that the bytes in the first k ranges are those from the
start of the k-th to the least of the ends so far (`Ends`), so that the view is
one `Window` of the file (`ContentsIs`). `LevelAnswers` is the heart of it: what
ReadAt of the SectionReader at level k returns is a right answer (`Answers`) for
the room that is left in the first k ranges. One range more cuts the room to
what is left of it or leaves the buffer as it is (`RoomInRange`); a range that was
cut at math.MaxInt64 ends beyond every file. `ReadAnswers` is the same for Read,
where the buffer is cut at the upper limit and may come back shorter without an
error (`Part`). `StepIs` maps each action to one of `ReadOnlyFile` or to a step
that leaves it as it is.

`MultiReadAtProofs` proves, from `MultiReadAssumption` alone, for any list of
readers of any sizes and lengths, any buffers, offsets and threshold,

* `TypesHold`: `Spec => []TypeOK`;
* `SearchesAlwaysAgree`: `Spec => []SearchesAgree`;
* `ReadFindsItsReader`: `Spec => []ReaderFound`;
* `BytesStayInPlace`: `Spec => []BytesInPlace`;
* `ErrorsTell`: `Spec => []ErrorTells`.

`Accum` and `Bisect` are recursive functions, the loops of the code. That there is
such a function, and what it computes, is proved by induction in the form of
`Least`: a nonempty set of naturals has a least element, applied to the set of
inputs for which the claim were false (`Induct`). `AccumSums` is the result for
the sums, `BisectFinds` for the search: in readers sorted the way the comparison
asks (`ReadersSorted`, from `HeadsGrow`) it finds the first that is not before the
offset. With `HolderExists` and `HolderUnique`, one reader holds each offset before
the end, both searches find that reader. The invariant `MInv` says that the readers
lie one after the other (`Shape`), that idx has not passed the reader of off
(`Placed`), whatever Seek, short reads and failures left them at, and that the
rest of the buffer of a ReadAt ends at the upper limit or before (`Filling`);
`OneReaderSays` is what a call can get from one reader, whatever that holds.

`WrapperProofs` proves `TypeCorrect` and `HistoryComplete`: `Spec => []Recorded`.
Who is between `recordOp`'s read and its store holds the mutex and a slice that
is the history (`Locked`), so that no entry is lost. `Hooked` says that every
file of an `ObservableFs` is wrapped, from what the template makes of the
methods; `Begun` and `Ended` count the entries of a call before and after its
effect, told apart by their numbers (`Numbered`).

It also proves `EveryPathConverted`: `Spec => []PathsConverted`, for paths of any
length: what reaches the wrapped `Fs` leads where the caller's path does and is one
`fs.ValidPath` takes, the two exceptions above apart. `CleanedFits` is the second
half, from the normal form below. `Clean` and `Walk` go through the elements of a path; `FollowsExists` and
`FollowsSame` say, by the induction described above, that there is one function
that does so for any step (`CleanFollows`, `WalkFollows`). What is cleaned so
far is in normal form (`Cleaned`, kept by `CleanNextCleans`), and walking along
it leads to where walking along what it was made of does (`CleanNextLeads`): a
".." takes back the last element of both, because in normal form that is a name.
`toFsPathLeads` is the result for `toFsPath`; `PathInv` carries it from the call of a
method to the inner call, through the steps of `recordOp`, by
`PathFieldsModified`: whatever a method's fields are, each path among them has a
modifier.

`StreamsProofs` proves `FirstErrorStays`: `Spec => Sticky`, from what the reading
goroutine holds (`ReadInv`), `CloseReachesAll`: `Spec => []CloseAll`, and `AllDelivered`:
`Spec => []Delivered`. A Close under way has closed the readers before the one it
is at once more than those after it, and has their errors in their order
(`Progress`). For the bytes, `Position` says that the readers before the one at
hand are used up and those after it untouched, so that a Read's bytes come after
all that was delivered (`Continues`), and `DeliverInv` keeps the end of file, in
`err` or on its way there, to the point where every reader is used up.

`GenerateProofs` proves `TypeCorrect` and `OutputComplete`: `Spec => []Complete`.
`Agree` relates the four processes of one target: what was printed came from
what was read, and that from what the template sent, and success reported at
the end of the chain means that each link ended by itself. `Stage` says how far
`generate` is with each target. A step of a process keeps what `generate` has
already seen of it (`ProcessStep`).

What is left to TLC: liveness (`Returns`, `ReadAtReturns`, both `Ends`), which needs
fairness and ENABLED; the action properties of `SynthFs` about what is reachable
(`ViewsClosed`, `DroppedIsClosed`, `RemoveAllClears`, `RenameKeepsTarget`), which
need the forest and in addition who closes what when. The library's induction
theorems take an operator as a parameter, which the provers cannot instantiate:
`MultiReadAtProofs`, `WrapperProofs` and `ViewsProofs` do their inductions from sets
instead.

## Plan

1. Done: every module above, its run, and the theorems listed in `PROJECT.json`.
2. Left to model: the owner and times of a file; two goroutines that rename, or
   one that renames or makes files while another removes everything, for which
   `TreeShape` and `NoPanic` fail as the code has it.
3. Left to prove: `RenameKeepsTarget`, `RemoveAllClears`, `ViewsClosed` and
   `DroppedIsClosed` of `SynthFs` from `TInv`.
