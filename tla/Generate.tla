------------------------------ MODULE Generate ------------------------------
(***************************************************************************)
(* implwrapper's output (cmd/implwrapper/main.go): generate writes one     *)
(* file for each target type, through four processes that run at the same  *)
(* time for each of them.  A goroutine executes the template into an       *)
(* io.Pipe, a goroutine of os/exec copies the pipe to goimports, which is  *)
(* a process of its own, and write copies what that prints to the file     *)
(* (internal/applygoimports/format.go).                                    *)
(*                                                                         *)
(* Text is counted in pieces; goimports prints as many as it was given.    *)
(* Every one of the four can fail at any time.  A truncated text may well  *)
(* be one that goimports accepts.                                          *)
(***************************************************************************)
EXTENDS Integers, Sequences

CONSTANTS
    Targets,    \* sequences of targets: whether the type can be wrapped
    MaxTargets, \* bound: targets
    Pieces,     \* bound: pieces of the text of one target
    Nil

ASSUME GenerateAssumption ==
    /\ Targets \subseteq Seq(BOOLEAN)
    /\ MaxTargets \in Nat /\ \A t \in Targets : Len(t) <= MaxTargets
    /\ Pieces \in Nat /\ Nil \notin Nat

VARIABLES
    targets,    \* -fsys and -file
    pc,         \* of generate and write
    cur,        \* the target generate is at
    ok,         \* whether it has met no error
    job         \* for each target, its processes and its file

vars == <<targets, pc, cur, ok, job>>

\* writing is whether a piece is in the pipe: Write returns when it is taken;
\* wend is what CloseWithError of the writing side said, rclosed whether the
\* reading side was closed.
NoJob == [tmpl |-> "none", sent |-> 0, writing |-> FALSE, wend |-> "open",
          rclosed |-> FALSE,
          copier |-> "none", copyErr |-> FALSE,
          child |-> "none", stdin |-> 0, stdout |-> 0, status |-> FALSE,
          file |-> Nil]

Jobs == DOMAIN targets

-----------------------------------------------------------------------------
(***************************************************************************)
(* The goroutine that executes the template.                               *)
(***************************************************************************)
TmplWrite(i) ==
    /\ job[i].tmpl = "run" /\ ~ job[i].writing /\ job[i].sent < Pieces
    /\ ~ job[i].rclosed
    /\ job' = [job EXCEPT ![i].writing = TRUE]
    /\ UNCHANGED <<targets, pc, cur, ok>>

\* fault: the pipe is closed without the template's error
WendPlain(failed) == "EOF"

\* what the reading side gets after pw.CloseWithError(err)
Wend(failed) == IF failed THEN "error" ELSE "EOF"

\* the template is done, fails, or cannot write any more
TmplEnd(i) ==
    /\ job[i].tmpl = "run"
    /\ \E failed \in BOOLEAN :
        /\ ~ failed => job[i].sent = Pieces
        /\ job[i].writing => failed /\ job[i].rclosed
        /\ job' = [job EXCEPT ![i].tmpl = "end", ![i].writing = FALSE,
                              ![i].wend = Wend(failed)]
    /\ UNCHANGED <<targets, pc, cur, ok>>

-----------------------------------------------------------------------------
(***************************************************************************)
(* os/exec's copy from the pipe to goimports' standard input.              *)
(***************************************************************************)
\* a write to a process that has exited ends it, and is no error
CopyPiece(i) ==
    /\ job[i].copier = "run" /\ job[i].writing /\ ~ job[i].rclosed
    /\ job' = [job EXCEPT
            ![i].writing = FALSE, ![i].sent = @ + 1,
            ![i].stdin = IF job[i].child = "exit" THEN @ ELSE @ + 1,
            ![i].copier = IF job[i].child = "exit" THEN "end" ELSE @]
    /\ UNCHANGED <<targets, pc, cur, ok>>

CopyEnd(i) ==
    /\ job[i].copier = "run"
    /\ job[i].rclosed \/ job[i].wend # "open"
    /\ job' = [job EXCEPT ![i].copier = "end",
                          ![i].copyErr = job[i].rclosed \/ job[i].wend = "error"]
    /\ UNCHANGED <<targets, pc, cur, ok>>

-----------------------------------------------------------------------------
(***************************************************************************)
(* goimports: it reads all of its input before it prints.                  *)
(***************************************************************************)
ChildParse(i) ==
    /\ job[i].child = "read" /\ job[i].copier = "end"
    /\ job' = [job EXCEPT ![i].child = "print"]
    /\ UNCHANGED <<targets, pc, cur, ok>>

ChildPrint(i) ==
    /\ job[i].child = "print" /\ job[i].stdout < job[i].stdin
    /\ job' = [job EXCEPT ![i].stdout = @ + 1]
    /\ UNCHANGED <<targets, pc, cur, ok>>

\* it finishes, finds an error in its input, or is killed
ChildExit(i) ==
    /\ job[i].child \in {"read", "print"}
    /\ \E status \in BOOLEAN :
        /\ status => job[i].child = "print" /\ job[i].stdout = job[i].stdin
        /\ job' = [job EXCEPT ![i].child = "exit", ![i].status = status]
    /\ UNCHANGED <<targets, pc, cur, ok>>

-----------------------------------------------------------------------------
(***************************************************************************)
(* generate, and write for each target.                                    *)
(***************************************************************************)
Fail == pc' = "done" /\ ok' = FALSE

\* the next target, or that it is no struct with a field to wrap
Generate ==
    /\ pc = "generate"
    /\ IF cur > Len(targets) THEN pc' = "done" /\ UNCHANGED ok
       ELSE IF targets[cur] THEN pc' = "create" /\ UNCHANGED ok
       ELSE Fail
    /\ UNCHANGED <<targets, cur, job>>

\* os.Create empties the file
Create ==
    /\ pc = "create"
    /\ \/ Fail /\ UNCHANGED job
       \/ /\ pc' = "start"
          /\ job' = [job EXCEPT ![cur].file = 0, ![cur].tmpl = "run"]
          /\ UNCHANGED ok
    /\ UNCHANGED <<targets, cur>>

\* newCmdPipeReader
Start ==
    /\ pc = "start"
    /\ \/ /\ Fail
          /\ job' = [job EXCEPT ![cur].rclosed = TRUE]
       \/ /\ pc' = "copy"
          /\ job' = [job EXCEPT ![cur].child = "read", ![cur].copier = "run"]
          /\ UNCHANGED ok
    /\ UNCHANGED <<targets, cur>>

\* fault: the pipe is left open
PrLeftOpen == FALSE

\* whether pr is closed when nothing reads from it any more
PrClosed == TRUE

\* io.Copy to the file: one piece, which may fail, ...
Copy ==
    /\ pc = "copy" /\ job[cur].file < job[cur].stdout
    /\ \/ /\ Fail
          /\ job' = [job EXCEPT ![cur].rclosed = PrClosed]
       \/ /\ job' = [job EXCEPT ![cur].file = @ + 1]
          /\ UNCHANGED <<pc, ok>>
    /\ UNCHANGED <<targets, cur>>

\* ... or the end of the output
CopyEOF ==
    /\ pc = "copy"
    /\ job[cur].file = job[cur].stdout /\ job[cur].child = "exit"
    /\ pc' = "wait"
    /\ job' = [job EXCEPT ![cur].rclosed = PrClosed]
    /\ UNCHANGED <<targets, cur, ok>>

\* fault: only the exit status counts
WaitErrStatus(j) == ~ j.status

\* whether cmd.Wait fails
WaitErr(j) == ~ j.status \/ j.copyErr

\* r.Close: cmd.Wait waits for the process and for the copy
Wait ==
    /\ pc = "wait"
    /\ job[cur].child = "exit" /\ job[cur].copier = "end"
    /\ IF WaitErr(job[cur]) THEN Fail ELSE pc' = "sync" /\ UNCHANGED ok
    /\ UNCHANGED <<targets, cur, job>>

Sync ==
    /\ pc = "sync"
    /\ \/ Fail /\ UNCHANGED cur
       \/ pc' = "generate" /\ cur' = cur + 1 /\ UNCHANGED ok
    /\ UNCHANGED <<targets, job>>

Init ==
    /\ targets \in Targets
    /\ pc = "generate"
    /\ cur = 1
    /\ ok = TRUE
    /\ job = [i \in Jobs |-> NoJob]

Tmpl(i) == TmplWrite(i) \/ TmplEnd(i)
Copier(i) == CopyPiece(i) \/ CopyEnd(i)
Child(i) == ChildParse(i) \/ ChildPrint(i) \/ ChildExit(i)
Main == Generate \/ Create \/ Start \/ Copy \/ CopyEOF \/ Wait \/ Sync

Next == Main \/ \E i \in Jobs : Tmpl(i) \/ Copier(i) \/ Child(i)

Spec == Init /\ [][Next]_vars

\* Goroutines and processes are scheduled; goimports ends once it has its
\* input, and the template, which is finite, ends.
Fairness ==
    /\ WF_vars(Main)
    /\ \A i \in 1 .. MaxTargets :
        /\ WF_vars(i \in Jobs /\ Tmpl(i))
        /\ WF_vars(i \in Jobs /\ Copier(i))
        /\ WF_vars(i \in Jobs /\ job[i].copier = "end" /\ Child(i))

FairSpec == Spec /\ Fairness

-----------------------------------------------------------------------------
(***************************************************************************)
(* Types.  Only the target generate is at, and those before, have a job.   *)
(***************************************************************************)
Job ==
    [tmpl : {"none", "run", "end"}, sent : 0 .. Pieces, writing : BOOLEAN,
     wend : {"open", "error", "EOF"}, rclosed : BOOLEAN,
     copier : {"none", "run", "end"}, copyErr : BOOLEAN,
     child : {"none", "read", "print", "exit"},
     stdin : 0 .. Pieces, stdout : 0 .. Pieces, status : BOOLEAN,
     file : (0 .. Pieces) \cup {Nil}]

TypeOK ==
    /\ targets \in Targets
    /\ pc \in {"generate", "create", "start", "copy", "wait", "sync", "done"}
    /\ cur \in 1 .. Len(targets) + 1
    /\ ok \in BOOLEAN
    /\ job \in [Jobs -> Job]

(***************************************************************************)
(* The file of every target that generate has passed holds the whole text, *)
(* whatever the template, the pipe, goimports and the file did meanwhile,  *)
(* and nothing that was started for it is left running; the files of the   *)
(* targets it has not come to are as they were, an error or not            *)
(* (main.go generate and write).                                           *)
(***************************************************************************)
Complete ==
    \A i \in Jobs :
        /\ i < cur =>
            /\ job[i].file = Pieces
            /\ job[i].tmpl = "end" /\ job[i].copier = "end"
            /\ job[i].child = "exit"
        /\ i > cur => job[i] = NoJob
        /\ pc = "done" /\ ok => i < cur

(***************************************************************************)
(* generate returns, and no template goroutine stays behind in a Write to  *)
(* a pipe nobody reads (main.go write: pr.CloseWithError).                 *)
(***************************************************************************)
Ends == <>(pc = "done" /\ \A i \in Jobs : job[i].tmpl # "run")
=============================================================================
