--------------------------- MODULE GenerateProofs ---------------------------
(***************************************************************************)
(* For any targets and any length of their texts: the types of Generate,   *)
(* and that a target generate has passed is complete.                      *)
(***************************************************************************)
EXTENDS Generate, TLAPS

\* The four processes of one target agree: what goimports was given is what
\* the template sent as long as it reads, and what it printed in the end if
\* it says that it succeeded; a copy that ended without an error, and not
\* because goimports was gone, ended with the template.
Agree(j) ==
    /\ j.tmpl # "run" => ~ j.writing
    /\ j.writing => j.sent < Pieces
    /\ j.wend = "EOF" => j.tmpl = "end" /\ j.sent = Pieces
    /\ j.stdout <= j.stdin /\ j.stdin <= j.sent
    /\ j.child # "exit" \/ j.status => j.stdin = j.sent
    /\ j.child = "print" \/ j.status => j.copier = "end"
    /\ j.status => j.child = "exit" /\ j.stdout = j.stdin
    /\ j.child = "none" <=> j.copier = "none"
    /\ j.copier = "end" /\ ~ j.copyErr /\ (j.child # "exit" \/ j.status)
        => j.wend = "EOF"

Finished(j) ==
    /\ j.file = Pieces
    /\ j.tmpl = "end" /\ j.copier = "end" /\ j.child = "exit"

\* How far generate is with the target, when it is at this point of the code.
AtCur(at, j) ==
    /\ at \in {"generate", "create"} => j = NoJob
    /\ at = "start" => j.child = "none" /\ j.file = 0
    /\ at \in {"copy", "wait", "sync"} =>
        j.child # "none" /\ j.file # Nil /\ j.file <= j.stdout
    /\ at \in {"wait", "sync"} => j.child = "exit" /\ j.file = j.stdout
    /\ at = "sync" => j.copier = "end" /\ ~ WaitErr(j)

\* what generate waits for is not taken back when a process turns j into k
Keeps(j, k) ==
    /\ k.file = j.file
    /\ k.child = "none" <=> j.child = "none"
    /\ k.stdout >= j.stdout
    /\ j.child = "exit" =>
        k.child = "exit" /\ k.stdout = j.stdout /\ k.status = j.status
    /\ j.copier = "end" => k.copier = "end" /\ k.copyErr = j.copyErr

Stage(i) ==
    /\ i < cur => Finished(job[i])
    /\ i > cur => job[i] = NoJob
    /\ i = cur => AtCur(pc, job[i])

\* the inductive invariant
IInv ==
    /\ TypeOK
    /\ pc \notin {"generate", "done"} => cur \in Jobs
    /\ pc = "done" /\ ok => cur = Len(targets) + 1
    /\ \A i \in Jobs : Agree(job[i]) /\ Stage(i)

-----------------------------------------------------------------------------
(***************************************************************************)
(* The jobs are numbered from one, as targets is a sequence.               *)
(***************************************************************************)
LEMMA JobsNumbered ==
    ASSUME targets \in Targets
    PROVE  Len(targets) \in Nat /\ Jobs = 1 .. Len(targets)
  BY GenerateAssumption DEF Jobs

(***************************************************************************)
(* Nothing happens for a job that was not begun or is finished.            *)
(***************************************************************************)
LEMMA NoJobTypes == NoJob \in Job /\ Agree(NoJob)
  BY GenerateAssumption DEF NoJob, Job, Agree

(***************************************************************************)
(* A step of one of the processes of target i keeps IInv if their job      *)
(* agrees with itself afterwards and keeps what generate waits for.        *)
(***************************************************************************)
LEMMA ProcessStep ==
    ASSUME IInv, NEW i \in Jobs, NEW j,
           UNCHANGED <<targets, pc, cur, ok>>,
           job' = [job EXCEPT ![i] = j],
           j \in Job, Agree(j),
           ~ Finished(job[i]), job[i] # NoJob,
           Keeps(job[i], j)
    PROVE  IInv'
  <1> USE DEF IInv
  <1>1. targets' = targets /\ pc' = pc /\ cur' = cur /\ ok' = ok
    OBVIOUS
  <1>2. Jobs' = Jobs /\ job \in [Jobs -> Job]
    BY <1>1 DEF Jobs, TypeOK
  <1>3. job' \in [Jobs -> Job]
    BY <1>2
  <1>4. TypeOK'
    BY <1>1, <1>2, <1>3 DEF TypeOK
  <1>5. ASSUME NEW k \in Jobs PROVE Agree(job'[k]) /\ Stage(k)'
    <2>1. CASE k # i
      <3>1. job'[k] = job[k]
        BY <1>2, <2>1
      <3> QED BY <3>1, <1>1 DEF Stage, AtCur
    <2>2. CASE k = i
      <3>1. job'[k] = j
        BY <1>2, <2>2
      <3>2. Stage(i)
        OBVIOUS
      <3>3. ~ (i < cur) /\ ~ (i > cur)
        BY <3>2 DEF Stage
      <3>4. i = cur => AtCur(pc', j)
        <4> SUFFICES ASSUME i = cur PROVE AtCur(pc', j)
          OBVIOUS
        <4>1. AtCur(pc, job[i])
          BY <3>2 DEF Stage
        <4>2. job[i] \in Job
          BY <1>2
        <4> QED BY <4>1, <4>2, <1>1, GenerateAssumption
                DEF Keeps, AtCur, Job, WaitErr
      <3> QED BY <3>1, <3>3, <3>4, <2>2, <1>1 DEF Stage
    <2> QED BY <2>1, <2>2
  <1> QED BY <1>1, <1>2, <1>4, <1>5

-----------------------------------------------------------------------------
(***************************************************************************)
(* The steps of the processes.                                             *)
(***************************************************************************)
LEMMA TmplKeeps ==
    ASSUME IInv, NEW i \in Jobs, Tmpl(i)
    PROVE  IInv'
  <1>1. job[i] \in Job /\ Agree(job[i])
    BY DEF IInv, TypeOK
  <1>2. job[i].tmpl = "run" /\ ~ Finished(job[i]) /\ job[i] # NoJob
    BY DEF Tmpl, TmplWrite, TmplEnd, Finished, NoJob
  <1>3. CASE TmplWrite(i)
    <2> DEFINE j == [job[i] EXCEPT !.writing = TRUE]
    <2>1. j \in Job /\ Agree(j)
      BY <1>1, <1>3, GenerateAssumption DEF TmplWrite, Job, Agree
    <2>2. job' = [job EXCEPT ![i] = j]
      BY <1>3 DEF TmplWrite
    <2>3. Keeps(job[i], j)
      BY <1>1, <1>2, <1>3, <2>1 DEF TmplWrite, Keeps, Job
    <2> HIDE DEF j
    <2> QED BY <1>2, <1>3, <2>1, <2>2, <2>3, ProcessStep DEF TmplWrite
  <1>4. CASE TmplEnd(i)
    <2>1. PICK failed \in BOOLEAN :
            /\ ~ failed => job[i].sent = Pieces
            /\ job[i].writing => failed /\ job[i].rclosed
            /\ job' = [job EXCEPT ![i].tmpl = "end", ![i].writing = FALSE,
                                  ![i].wend = Wend(failed)]
      BY <1>4 DEF TmplEnd
    <2> DEFINE j == [job[i] EXCEPT !.tmpl = "end", !.writing = FALSE,
                                   !.wend = Wend(failed)]
    <2>2. j \in Job /\ Agree(j)
      BY ZenonT(40), <1>1, <1>2, <2>1, GenerateAssumption DEF Wend, Job, Agree
    <2>3. job' = [job EXCEPT ![i] = j]
      BY <2>1
    <2>4. Keeps(job[i], j)
      BY <1>1, <1>2, <1>4, <2>2 DEF TmplEnd, Keeps, Job
    <2> HIDE DEF j
    <2> QED BY <1>2, <1>4, <2>2, <2>3, <2>4, ProcessStep DEF TmplEnd
  <1> QED BY <1>3, <1>4 DEF Tmpl

LEMMA CopierKeeps ==
    ASSUME IInv, NEW i \in Jobs, Copier(i)
    PROVE  IInv'
  <1>1. job[i] \in Job /\ Agree(job[i])
    BY DEF IInv, TypeOK
  <1>2. job[i].copier = "run" /\ ~ Finished(job[i]) /\ job[i] # NoJob
    BY DEF Copier, CopyPiece, CopyEnd, Finished, NoJob
  <1>3. CASE CopyPiece(i)
    <2> DEFINE gone == job[i].child = "exit"
               j == [job[i] EXCEPT
                        !.writing = FALSE, !.sent = @ + 1,
                        !.stdin = IF gone THEN @ ELSE @ + 1,
                        !.copier = IF gone THEN "end" ELSE @]
    <2>1. j \in Job /\ Agree(j)
      <3>1. /\ job[i].writing /\ job[i].sent < Pieces
            /\ job[i].tmpl = "run" /\ ~ job[i].status
        BY <1>1, <1>2, <1>3 DEF CopyPiece, Agree, Job
      <3>2. /\ job[i].sent + 1 \in 0 .. Pieces
            /\ job[i].stdin + 1 \in 0 .. Pieces
            /\ job[i].sent \in Nat /\ job[i].stdin \in Nat
            /\ job[i].stdout \in Nat /\ job[i].stdin <= job[i].sent
        BY <1>1, <3>1, GenerateAssumption DEF Job, Agree
      <3>3. j \in Job
        BY ZenonT(40), <1>1, <3>2 DEF Job
      <3>4. /\ j.writing = FALSE /\ j.sent = job[i].sent + 1
            /\ j.stdin = IF gone THEN job[i].stdin ELSE job[i].stdin + 1
            /\ j.copier = IF gone THEN "end" ELSE "run"
            /\ j.tmpl = job[i].tmpl /\ j.wend = job[i].wend
            /\ j.child = job[i].child /\ j.stdout = job[i].stdout
            /\ j.status = job[i].status /\ j.copyErr = job[i].copyErr
        BY <1>1, <1>2 DEF Job
      <3> HIDE DEF j
      <3>5. CASE gone
        BY <1>1, <1>2, <3>1, <3>2, <3>3, <3>4, <3>5 DEF Agree
      <3>6. CASE ~ gone
        BY <1>1, <1>2, <3>1, <3>2, <3>3, <3>4, <3>6 DEF Agree
      <3> QED BY <3>5, <3>6
    <2>2. job' = [job EXCEPT ![i] = j]
      BY <1>3 DEF CopyPiece
    <2>3. Keeps(job[i], j)
      BY <1>1, <1>2, <1>3, <2>1 DEF CopyPiece, Keeps, Job
    <2> HIDE DEF j
    <2> QED BY <1>2, <1>3, <2>1, <2>2, <2>3, ProcessStep DEF CopyPiece
  <1>4. CASE CopyEnd(i)
    <2> DEFINE j == [job[i] EXCEPT
                        !.copier = "end",
                        !.copyErr = job[i].rclosed \/ job[i].wend = "error"]
    <2>1. j \in Job /\ Agree(j)
      BY <1>1, <1>2, <1>4, GenerateAssumption DEF CopyEnd, Job, Agree
    <2>2. job' = [job EXCEPT ![i] = j]
      BY <1>4 DEF CopyEnd
    <2>3. Keeps(job[i], j)
      BY <1>1, <1>2, <1>4, <2>1 DEF CopyEnd, Keeps, Job
    <2> HIDE DEF j
    <2> QED BY <1>2, <1>4, <2>1, <2>2, <2>3, ProcessStep DEF CopyEnd
  <1> QED BY <1>3, <1>4 DEF Copier

LEMMA ChildKeeps ==
    ASSUME IInv, NEW i \in Jobs, Child(i)
    PROVE  IInv'
  <1>1. job[i] \in Job /\ Agree(job[i])
    BY DEF IInv, TypeOK
  <1>2. job[i].child \in {"read", "print"} /\ ~ Finished(job[i])
            /\ job[i] # NoJob
    BY DEF Child, ChildParse, ChildPrint, ChildExit, Finished, NoJob
  <1>3. CASE ChildParse(i)
    <2> DEFINE j == [job[i] EXCEPT !.child = "print"]
    <2>1. j \in Job /\ Agree(j)
      BY <1>1, <1>2, <1>3, GenerateAssumption DEF ChildParse, Job, Agree
    <2>2. job' = [job EXCEPT ![i] = j]
      BY <1>3 DEF ChildParse
    <2>3. Keeps(job[i], j)
      BY <1>1, <1>2, <1>3, <2>1 DEF ChildParse, Keeps, Job
    <2> HIDE DEF j
    <2> QED BY <1>2, <1>3, <2>1, <2>2, <2>3, ProcessStep DEF ChildParse
  <1>4. CASE ChildPrint(i)
    <2> DEFINE j == [job[i] EXCEPT !.stdout = @ + 1]
    <2>1. j \in Job /\ Agree(j)
      BY <1>1, <1>2, <1>4, GenerateAssumption DEF ChildPrint, Job, Agree
    <2>2. job' = [job EXCEPT ![i] = j]
      BY <1>4 DEF ChildPrint
    <2>3. Keeps(job[i], j)
      BY <1>1, <1>2, <1>4, <2>1 DEF ChildPrint, Keeps, Job
    <2> HIDE DEF j
    <2> QED BY <1>2, <1>4, <2>1, <2>2, <2>3, ProcessStep DEF ChildPrint
  <1>5. CASE ChildExit(i)
    <2>1. PICK status \in BOOLEAN :
            /\ status => job[i].child = "print" /\ job[i].stdout = job[i].stdin
            /\ job' = [job EXCEPT ![i].child = "exit", ![i].status = status]
      BY <1>5 DEF ChildExit
    <2> DEFINE j == [job[i] EXCEPT !.child = "exit", !.status = status]
    <2>2. j \in Job /\ Agree(j)
      BY <1>1, <1>2, <2>1, GenerateAssumption DEF Job, Agree
    <2>3. job' = [job EXCEPT ![i] = j]
      BY <2>1
    <2>4. Keeps(job[i], j)
      BY <1>1, <1>2, <1>5, <2>2 DEF ChildExit, Keeps, Job
    <2> HIDE DEF j
    <2> QED BY <1>2, <1>5, <2>2, <2>3, <2>4, ProcessStep DEF ChildExit
  <1> QED BY <1>3, <1>4, <1>5 DEF Child

-----------------------------------------------------------------------------
(***************************************************************************)
(* A step of generate changes at most the job it is at, which agrees with  *)
(* itself afterwards and with how far generate got, and goes on to the     *)
(* next one only when it is finished.                                      *)
(***************************************************************************)
LEMMA MainStep ==
    ASSUME IInv, cur \in Jobs, NEW j,
           targets' = targets, cur' = cur,
           pc' \in {"create", "start", "copy", "wait", "sync", "done"},
           ok' \in BOOLEAN, pc' = "done" => ~ ok',
           job' = [job EXCEPT ![cur] = j],
           j \in Job, Agree(j), AtCur(pc', j)
    PROVE  IInv'
  <1> USE DEF IInv
  <1>1. Jobs' = Jobs /\ job \in [Jobs -> Job]
    BY DEF Jobs, TypeOK
  <1>2. Len(targets) \in Nat /\ Jobs = 1 .. Len(targets)
    BY JobsNumbered DEF TypeOK
  <1>3. TypeOK'
    <2>1. job' \in [Jobs -> Job]
      BY <1>1
    <2> QED BY <1>1, <2>1 DEF TypeOK
  <1>4. ASSUME NEW k \in Jobs PROVE Agree(job'[k]) /\ Stage(k)'
    <2>1. CASE k # cur
      <3>1. job'[k] = job[k]
        BY <1>1, <2>1
      <3> QED BY <3>1, <2>1 DEF Stage
    <2>2. CASE k = cur
      <3>1. job'[k] = j
        BY <1>1, <2>2
      <3>2. ~ (k < cur) /\ ~ (k > cur)
        BY <1>2, <2>2
      <3> QED BY <3>1, <3>2 DEF Stage, AtCur
    <2> QED BY <2>1, <2>2
  <1> QED BY <1>1, <1>3, <1>4

LEMMA MainKeeps ==
    ASSUME IInv, Main
    PROVE  IInv'
  <1> USE DEF IInv
  <1>1. Len(targets) \in Nat /\ Jobs = 1 .. Len(targets)
    BY JobsNumbered DEF TypeOK
  <1>2. job \in [Jobs -> Job] /\ cur \in 1 .. Len(targets) + 1
    BY DEF TypeOK
  <1>3. CASE Generate
    <2>1. CASE cur > Len(targets)
      <3>1. IInv /\ cur = Len(targets) + 1 /\ pc' = "done"
            /\ UNCHANGED <<targets, cur, ok, job>>
        BY <1>1, <1>2, <1>3, <2>1 DEF Generate
      <3>2. Jobs' = Jobs
        BY <3>1 DEF Jobs
      <3>3. \A k \in Jobs : Stage(k)'
        BY <3>1, <1>1, <1>2 DEF Stage
      <3>4. TypeOK'
        BY <3>1, <3>2 DEF TypeOK
      <3> QED BY <3>1, <3>2, <3>3, <3>4
    <2>2. CASE ~ (cur > Len(targets))
      <3>1. cur \in Jobs
        BY <1>1, <1>2, <2>2
      <3>2. job[cur] = NoJob
        BY <3>1, <1>3, <1>1 DEF Generate, Stage, AtCur
      <3>3. job' = [job EXCEPT ![cur] = job[cur]]
        BY <1>2, <1>3, <3>1 DEF Generate
      <3>4. pc' \in {"create", "done"} /\ ok' \in BOOLEAN
            /\ (pc' = "done" => ~ ok')
        BY <1>3, <2>2 DEF Generate, Fail, TypeOK
      <3>5. AtCur(pc', job[cur])
        BY <3>2, <3>4, <1>3 DEF Generate, AtCur
      <3> QED BY <3>1, <3>2, <3>3, <3>4, <3>5, <1>3, NoJobTypes, MainStep
              DEF Generate
    <2> QED BY <2>1, <2>2
  <1>4. CASE Create
    <2>1. cur \in Jobs /\ job[cur] = NoJob
      BY <1>1, <1>4 DEF Create, Stage, AtCur
    <2>2. CASE Fail /\ UNCHANGED job
      <3>1. job' = [job EXCEPT ![cur] = NoJob]
        BY <1>2, <2>1, <2>2
      <3>2. AtCur(pc', NoJob)
        BY <2>2 DEF Fail, AtCur
      <3> QED BY <1>4, <2>1, <2>2, <3>1, <3>2, NoJobTypes, MainStep
              DEF Create, Fail
    <2>3. CASE ~ (Fail /\ UNCHANGED job)
      <3> DEFINE j == [NoJob EXCEPT !.file = 0, !.tmpl = "run"]
      <3>1. job' = [job EXCEPT ![cur] = j] /\ pc' = "start" /\ ok' = ok
        BY <1>4, <2>1, <2>3 DEF Create
      <3>2. j \in Job /\ Agree(j)
        <4>1. j \in Job
          <5>1. NoJob \in Job /\ 0 \in 0 .. Pieces
            BY NoJobTypes, GenerateAssumption
          <5> HIDE DEF NoJob
          <5> QED BY <5>1 DEF Job
        <4>2. /\ ~ j.writing /\ j.wend = "open" /\ j.sent = 0
              /\ j.stdin = 0 /\ j.stdout = 0 /\ ~ j.status
              /\ j.child = "none" /\ j.copier = "none"
          BY DEF NoJob
        <4> HIDE DEF j
        <4> QED BY <4>1, <4>2 DEF Agree
      <3>3. AtCur(pc', j)
        BY <3>1 DEF AtCur, NoJob
      <3> HIDE DEF j
      <3> QED BY <1>4, <2>1, <3>1, <3>2, <3>3, MainStep DEF Create, TypeOK
    <2> QED BY <2>2, <2>3
  <1>5. CASE Start
    <2>1. /\ cur \in Jobs /\ job[cur] \in Job /\ Agree(job[cur])
          /\ AtCur(pc, job[cur])
      BY <1>1, <1>2, <1>5 DEF Start, Stage
    <2>2. CASE Fail /\ job' = [job EXCEPT ![cur].rclosed = TRUE]
      <3> DEFINE j == [job[cur] EXCEPT !.rclosed = TRUE]
      <3>1. job' = [job EXCEPT ![cur] = j]
        BY <2>2
      <3>2. j \in Job /\ Agree(j)
        BY ZenonT(40), <2>1 DEF Job, Agree
      <3>3. AtCur(pc', j)
        BY <2>2 DEF Fail, AtCur
      <3> HIDE DEF j
      <3> QED BY <1>5, <2>1, <2>2, <3>1, <3>2, <3>3, MainStep DEF Start, Fail
    <2>3. CASE /\ pc' = "copy" /\ UNCHANGED ok
               /\ job' = [job EXCEPT ![cur].child = "read",
                                     ![cur].copier = "run"]
      <3> DEFINE j == [job[cur] EXCEPT !.child = "read", !.copier = "run"]
      <3>1. job' = [job EXCEPT ![cur] = j]
        BY <2>3
      <3>2. job[cur].child = "none" /\ job[cur].file = 0
        BY <2>1, <1>5 DEF Start, AtCur
      <3>3. j \in Job /\ Agree(j)
        <4>1. j \in Job
          BY <2>1 DEF Job
        <4>2. job[cur].copier = "none" /\ ~ job[cur].status
          BY <2>1, <3>2 DEF Agree, Job
        <4>3. /\ j.child = "read" /\ j.copier = "run"
              /\ j.writing = job[cur].writing /\ j.sent = job[cur].sent
              /\ j.tmpl = job[cur].tmpl /\ j.wend = job[cur].wend
              /\ j.stdin = job[cur].stdin /\ j.stdout = job[cur].stdout
              /\ j.status = job[cur].status /\ j.copyErr = job[cur].copyErr
          BY <2>1 DEF Job
        <4> HIDE DEF j
        <4> QED BY <2>1, <3>2, <4>1, <4>2, <4>3 DEF Agree
      <3>4. AtCur(pc', j)
        BY <2>1, <2>3, <3>2, GenerateAssumption DEF AtCur, Agree, Job
      <3> HIDE DEF j
      <3> QED BY <1>5, <2>1, <2>3, <3>1, <3>3, <3>4, MainStep DEF Start, TypeOK
    <2> QED BY <1>5, <2>2, <2>3 DEF Start
  <1>6. CASE Copy
    <2>1. /\ cur \in Jobs /\ job[cur] \in Job /\ Agree(job[cur])
          /\ AtCur(pc, job[cur])
      BY <1>1, <1>2, <1>6 DEF Copy, Stage
    <2>2. CASE Fail /\ job' = [job EXCEPT ![cur].rclosed = PrClosed]
      <3> DEFINE j == [job[cur] EXCEPT !.rclosed = PrClosed]
      <3>1. job' = [job EXCEPT ![cur] = j]
        BY <2>2
      <3>2. j \in Job /\ Agree(j)
        BY ZenonT(40), <2>1 DEF Job, Agree, PrClosed
      <3>3. AtCur(pc', j)
        BY <2>2 DEF Fail, AtCur
      <3> HIDE DEF j
      <3> QED BY <1>6, <2>1, <2>2, <3>1, <3>2, <3>3, MainStep DEF Copy, Fail
    <2>3. CASE UNCHANGED <<pc, ok>> /\ job' = [job EXCEPT ![cur].file = @ + 1]
      <3> DEFINE j == [job[cur] EXCEPT !.file = @ + 1]
      <3>1. job' = [job EXCEPT ![cur] = j]
        BY <2>3
      <3>2. /\ job[cur].child # "none" /\ job[cur].file \in 0 .. Pieces
            /\ job[cur].file < job[cur].stdout
        BY <2>1, <1>6, GenerateAssumption DEF Copy, AtCur, Job
      <3>3. j \in Job /\ Agree(j)
        BY SMTT(30), <2>1, <3>2, GenerateAssumption DEF Job, Agree
      <3>4. AtCur(pc', j)
        BY <1>6, <2>1, <2>3, <3>2, GenerateAssumption DEF Copy, AtCur, Job
      <3> HIDE DEF j
      <3> QED BY <1>6, <2>1, <2>3, <3>1, <3>3, <3>4, MainStep DEF Copy, TypeOK
    <2> QED BY <1>6, <2>2, <2>3 DEF Copy
  <1>7. CASE CopyEOF
    <2>1. /\ cur \in Jobs /\ job[cur] \in Job /\ Agree(job[cur])
          /\ AtCur(pc, job[cur])
      BY <1>1, <1>2, <1>7 DEF CopyEOF, Stage
    <2> DEFINE j == [job[cur] EXCEPT !.rclosed = PrClosed]
    <2>2. job' = [job EXCEPT ![cur] = j]
      BY <1>7 DEF CopyEOF
    <2>3. j \in Job /\ Agree(j)
      BY ZenonT(40), <2>1 DEF Job, Agree, PrClosed
    <2>4. AtCur(pc', j)
      BY <1>7, <2>1 DEF CopyEOF, AtCur, Job
    <2> HIDE DEF j
    <2> QED BY <1>7, <2>1, <2>2, <2>3, <2>4, MainStep DEF CopyEOF, TypeOK
  <1>8. CASE Wait
    <2>1. /\ cur \in Jobs /\ job[cur] \in Job /\ Agree(job[cur])
          /\ AtCur(pc, job[cur])
      BY <1>1, <1>2, <1>8 DEF Wait, Stage
    <2>2. job' = [job EXCEPT ![cur] = job[cur]]
      BY <1>2, <1>8, <2>1 DEF Wait
    <2>3. AtCur(pc', job[cur]) /\ pc' \in {"sync", "done"} /\ ok' \in BOOLEAN
            /\ (pc' = "done" => ~ ok')
      BY <1>8, <2>1 DEF Wait, Fail, AtCur, TypeOK, WaitErr
    <2> QED BY <1>8, <2>1, <2>2, <2>3, MainStep DEF Wait
  <1>9. CASE Sync
    <2>1. /\ cur \in Jobs /\ job[cur] \in Job /\ Agree(job[cur])
          /\ AtCur(pc, job[cur])
      BY <1>1, <1>2, <1>9 DEF Sync, Stage
    <2>2. CASE Fail /\ UNCHANGED cur
      <3>1. job' = [job EXCEPT ![cur] = job[cur]]
        BY <1>2, <1>9, <2>1 DEF Sync
      <3>2. AtCur(pc', job[cur])
        BY <1>9, <2>2 DEF Sync, Fail, AtCur
      <3> QED BY <1>9, <2>1, <2>2, <3>1, <3>2, MainStep DEF Sync, Fail
    <2>3. CASE pc' = "generate" /\ cur' = cur + 1 /\ UNCHANGED ok
      <3>1. Finished(job[cur])
        BY <1>9, <2>1, GenerateAssumption
           DEF Sync, AtCur, Agree, Finished, WaitErr, Job
      <3>2. Jobs' = Jobs /\ job' = job /\ targets' = targets
        BY <1>9 DEF Sync, Jobs
      <3>3. \A k \in Jobs : Stage(k)'
        BY <1>1, <2>1, <2>3, <3>1, <3>2 DEF Stage, AtCur
      <3>4. TypeOK'
        BY <1>1, <2>1, <2>3, <3>2 DEF TypeOK
      <3> QED BY <2>3, <3>2, <3>3, <3>4
    <2> QED BY <1>9, <2>2, <2>3 DEF Sync
  <1> QED BY <1>3, <1>4, <1>5, <1>6, <1>7, <1>8, <1>9 DEF Main

-----------------------------------------------------------------------------
LEMMA InitInv == Init => IInv
  <1> SUFFICES ASSUME Init PROVE IInv
    OBVIOUS
  <1>1. Len(targets) \in Nat /\ Jobs = 1 .. Len(targets)
    BY JobsNumbered DEF Init
  <1>2. \A i \in Jobs : job[i] = NoJob
    BY DEF Init
  <1>3. TypeOK
    BY <1>1, NoJobTypes DEF Init, TypeOK
  <1>4. \A i \in Jobs : Stage(i)
    BY <1>1, <1>2 DEF Init, Stage, AtCur
  <1> QED BY <1>1, <1>2, <1>3, <1>4, NoJobTypes DEF Init, IInv

LEMMA StepInv == IInv /\ [Next]_vars => IInv'
  <1> SUFFICES ASSUME IInv, [Next]_vars PROVE IInv'
    OBVIOUS
  <1>1. CASE Main
    BY <1>1, MainKeeps
  <1>2. ASSUME NEW i \in Jobs, Tmpl(i) \/ Copier(i) \/ Child(i)
        PROVE  IInv'
    BY <1>2, TmplKeeps, CopierKeeps, ChildKeeps
  <1>3. CASE UNCHANGED vars
    BY <1>3 DEF vars, IInv, TypeOK, Jobs, Stage, AtCur
  <1> QED BY <1>1, <1>2, <1>3 DEF Next

THEOREM Inductive == Spec => []IInv
  BY InitInv, StepInv, PTL DEF Spec

(***************************************************************************)
(* The processes, the pipe and the file of every target keep their types,  *)
(* whichever of them fails and when.                                       *)
(***************************************************************************)
THEOREM TypeCorrect == Spec => []TypeOK
  <1>1. IInv => TypeOK
    BY DEF IInv
  <1> QED BY <1>1, Inductive, PTL

(***************************************************************************)
(* A target generate has passed has its whole text in its file and nothing *)
(* left running, however many pieces the text has (main.go).               *)
(***************************************************************************)
THEOREM OutputComplete == Spec => []Complete
  <1>1. IInv => Complete
    <2> SUFFICES ASSUME IInv, NEW i \in Jobs
                 PROVE  /\ i < cur => Finished(job[i])
                        /\ i > cur => job[i] = NoJob
                        /\ pc = "done" /\ ok => i < cur
      BY DEF Complete, Finished
    <2>1. Len(targets) \in Nat /\ Jobs = 1 .. Len(targets)
      BY JobsNumbered DEF IInv, TypeOK
    <2> QED BY <2>1 DEF IInv, Stage
  <1> QED BY <1>1, Inductive, PTL
=============================================================================
