---------------------------- MODULE HandlesProofs ----------------------------
(***************************************************************************)
(* Proofs about Handles: a closed handle stays closed to calls that come   *)
(* later, a mode that was set stays, the handles of a file share one       *)
(* temporary file, and the pages of a listing are those of one moment, for *)
(* any number of goroutines, files and handles.                            *)
(***************************************************************************)
EXTENDS Handles, SequenceTheorems, TLAPS

-----------------------------------------------------------------------------
(***************************************************************************)
(* What removal does to a list in which nothing is twice.                  *)
(***************************************************************************)
Injective(list) == \A i, j \in DOMAIN list : list[i] = list[j] => i = j

\* Removing the element at i shifts the later ones down by one.
LEMMA RemoveAtElements ==
    ASSUME NEW S, NEW list \in Seq(S), NEW i \in 1..Len(list)
    PROVE  /\ RemoveAt(list, i) \in Seq(S)
           /\ Len(RemoveAt(list, i)) = Len(list) - 1
           /\ \A j \in 1..(Len(list) - 1) :
                 RemoveAt(list, i)[j] = IF j < i THEN list[j] ELSE list[j + 1]
<1> DEFINE front == SubSeq(list, 1, i - 1)
           back == SubSeq(list, i + 1, Len(list))
<1>1. Len(list) \in Nat /\ i \in Nat /\ i >= 1 /\ i <= Len(list)
  OBVIOUS
<1>2. /\ front \in Seq(S)
      /\ Len(front) = i - 1
      /\ \A j \in 1..(i - 1) : front[j] = list[j]
  <2>1. CASE i = 1
    BY <2>1, <1>1
  <2>2. CASE i > 1
    BY <2>2, <1>1
  <2> QED BY <2>1, <2>2, <1>1
<1>3. /\ back \in Seq(S)
      /\ Len(back) = Len(list) - i
      /\ \A j \in 1..(Len(list) - i) : back[j] = list[i + j]
  BY <1>1
<1>4. RemoveAt(list, i) = front \o back
  BY DEF RemoveAt
<1> HIDE DEF front, back
<1>5. /\ front \o back \in Seq(S)
      /\ Len(front \o back) = Len(list) - 1
  <2>1. Len(front \o back) = Len(front) + Len(back)
    BY <1>2, <1>3, ConcatProperties
  <2>2. front \o back \in Seq(S)
    BY <1>2, <1>3, ConcatProperties
  <2> QED BY <2>1, <2>2, <1>1, <1>2, <1>3
<1>6. ASSUME NEW j \in 1..(Len(list) - 1)
      PROVE  (front \o back)[j] = IF j < i THEN list[j] ELSE list[j + 1]
  <2>1. j \in 1..(Len(front) + Len(back))
    BY <1>1, <1>2, <1>3
  <2>2. (front \o back)[j] = IF j <= Len(front) THEN front[j]
                             ELSE back[j - Len(front)]
    BY <2>1, <1>2, <1>3, ConcatProperties
  <2> QED BY <2>1, <2>2, <1>1, <1>2, <1>3
<1> QED BY <1>4, <1>5, <1>6

\* list.Remove of an element: exactly that element leaves, the order stays.
LEMMA UnlistElements ==
    ASSUME NEW S, NEW list \in Seq(S), Injective(list), NEW e
    PROVE  /\ Unlist(list, e) \in Seq(S)
           /\ Injective(Unlist(list, e))
           /\ \A k \in DOMAIN Unlist(list, e) :
                 /\ Unlist(list, e)[k] # e
                 /\ \E i \in DOMAIN list : list[i] = Unlist(list, e)[k]
           /\ \A i \in DOMAIN list : list[i] # e =>
                 \E k \in DOMAIN Unlist(list, e) : Unlist(list, e)[k] = list[i]
<1>1. CASE ~ \E i \in DOMAIN list : list[i] = e
  BY <1>1 DEF Unlist
<1>2. CASE \E i \in DOMAIN list : list[i] = e
  <2> DEFINE i == CHOOSE i \in DOMAIN list : list[i] = e
             r == RemoveAt(list, i)
  <2>1. i \in 1..Len(list) /\ list[i] = e
    BY <1>2
  <2> HIDE DEF i
  <2>2. Unlist(list, e) = r
    BY <1>2 DEF Unlist, i
  <2>3. /\ r \in Seq(S)
        /\ Len(r) = Len(list) - 1
        /\ \A j \in 1..(Len(list) - 1) :
              r[j] = IF j < i THEN list[j] ELSE list[j + 1]
    BY <2>1, RemoveAtElements
  <2> HIDE DEF r
  <2>4. DOMAIN r = 1..(Len(list) - 1) /\ DOMAIN list = 1..Len(list)
        /\ Len(list) \in Nat
    BY <2>3
  <2>5. Injective(r)
    BY SMTT(30), <2>1, <2>3, <2>4 DEF Injective
  <2>6. ASSUME NEW k \in DOMAIN r
        PROVE  r[k] # e /\ \E m \in DOMAIN list : list[m] = r[k]
    BY SMTT(30), <2>1, <2>3, <2>4, <2>6 DEF Injective
  <2>7. ASSUME NEW m \in DOMAIN list, list[m] # e
        PROVE  \E k \in DOMAIN r : r[k] = list[m]
    <3>1. CASE m < i
      <4>1. m \in DOMAIN r /\ r[m] = list[m]
        BY <2>1, <2>3, <2>4, <3>1
      <4> QED BY <4>1
    <3>2. CASE m > i
      <4>1. m - 1 \in DOMAIN r /\ r[m - 1] = list[m]
        BY <2>1, <2>3, <2>4, <3>2
      <4> QED BY <4>1
    <3>3. m # i
      BY <2>1, <2>7
    <3> QED BY <3>1, <3>2, <3>3, <2>1, <2>4
  <2> QED BY <2>2, <2>3, <2>5, <2>6, <2>7
<1> QED BY <1>1, <1>2

-----------------------------------------------------------------------------
(***************************************************************************)
(* The inductive invariant.                                                *)
(***************************************************************************)
\* an OpenFile that will fill a handle
Reserving(t) ==
    call[t].pc \in {"open", "init", "store", "link"} /\ call[t].op # "add"

\* a method of a handle
Using(t) == call[t].pc \in {"close", "inner", "list", "panic"}

\* the files and handles operations work on exist, or are theirs alone
Held ==
    /\ \A f \in Files : meta[f].initialized => f \in known
    /\ \A t \in Threads :
          call[t].pc \in {"open", "init", "store", "link"} =>
              call[t].f \in known
    /\ \A t \in Threads : Using(t) =>
          call[t].h \in Handles /\ handle[call[t].h].on # Nil
    /\ \A t \in Threads : Reserving(t) =>
          call[t].h \in Handles /\ handle[call[t].h].on = Nil
    /\ \A t, u \in Threads : Reserving(t) /\ Reserving(u) /\ t # u =>
          call[t].h # call[u].h

\* a call that began after a Close had returned is one of Name
Prompt(c) == c.late => c.op = "Name"
USE DEF Prompt

\* the flag is set when the file inside is closed, and no other call is late
Closing ==
    /\ \A h \in Handles : handle[h].returned => handle[h].closed
    /\ \A t \in Threads : Prompt(call[t])
    /\ \A t \in Threads : call[t].pc = "inner" /\ call[t].op = "Close" =>
          handle[call[t].h].closed

\* file f has or had the temporary file x
Owns(f, x) ==
    \/ path[f] = x
    \/ \E h \in Handles : handle[h].on = f /\ handle[h].temp = x
    \/ \E t \in Threads : call[t].f = f /\ call[t].temp = x

\* no two files do, and a temporary file that one of them has exists
Apart ==
    /\ \A f \in Files, x \in Temps : Owns(f, x) => x \in stored
    /\ \A f, g \in Files, x \in Temps : Owns(f, x) /\ Owns(g, x) => f = g

\* what was opened of a file that was not removed is what its view has now
Current ==
    /\ \A h \in Handles :
       /\ handle[h].on \in Files <=> handle[h].temp # Nil
       /\ handle[h].on \in Files /\ ~dropped[handle[h].on] =>
             handle[h].temp = path[handle[h].on]
    /\ \A t \in Threads :
       /\ Reserving(t) /\ call[t].pc # "open" => call[t].temp # Nil
       /\ call[t].temp # Nil => call[t].f \in Files
       /\ call[t].temp # Nil /\ ~dropped[call[t].f] =>
             call[t].temp = path[call[t].f]

IInv == TypeOK /\ Held /\ Closing /\ Apart /\ Current

-----------------------------------------------------------------------------
(***************************************************************************)
(* What the steps do to the operation that makes them.                     *)
(***************************************************************************)
\* operation t is c from now on
Becomes(t, c) ==
    /\ call' \in [Threads -> CallType]
    /\ call'[t] = c
    /\ \A u \in Threads : u # t => call'[u] = call[u]

LEMMA NoCallType == NoCall \in CallType
  BY DEF NoCall, CallType, Steps, Ops, Methods

LEMMA ReturnBecomes ==
    ASSUME TypeOK, NEW t \in Threads, Return(t)
    PROVE  Becomes(t, NoCall)
  BY NoCallType DEF TypeOK, Return, Becomes, CallType

(***************************************************************************)
(* A step of operation t, after which it is c, that may give one file a    *)
(* fresh temporary file, remove files, and close handles, but opens none.  *)
(* It keeps the invariant when c uses only what t may use.                 *)
(***************************************************************************)
FilesGrow ==
    /\ known \subseteq known'
    /\ stored \subseteq stored'
    /\ \A f \in Files : meta'[f].initialized => f \in known'
    /\ \A f \in Files : dropped[f] => dropped'[f]
    /\ \A f \in Files :
       \/ path'[f] = path[f]
       \/ path'[f] = Nil /\ dropped'[f]
       \/ path[f] = Nil /\ path'[f] \in stored' \ stored
    /\ \A f, g \in Files : f # g => path'[f] = path[f] \/ path'[g] = path[g]

HandlesStay ==
    \A h \in Handles :
       /\ handle'[h].on = handle[h].on
       /\ handle'[h].temp = handle[h].temp
       /\ handle[h].closed => handle'[h].closed
       /\ handle'[h].returned => handle'[h].closed

MayUse(t, c) ==
    /\ Prompt(c)
    /\ c.pc \in {"open", "init", "store", "link"} => c.f \in known'
    /\ c.pc \in {"close", "inner", "list", "panic"} =>
          c.h \in Handles /\ handle[c.h].on # Nil
    /\ c.pc \in {"open", "init", "store", "link"} /\ c.op # "add" =>
          /\ c.h \in Handles /\ handle[c.h].on = Nil
          /\ \A u \in Threads : u # t /\ Reserving(u) => call[u].h # c.h
          /\ c.pc # "open" => c.temp # Nil
    /\ c.pc = "inner" /\ c.op = "Close" => handle'[c.h].closed
    /\ \/ c.temp = Nil
       \/ c.temp = call[t].temp /\ c.f = call[t].f
       \/ c.f \in Files /\ c.temp = path'[c.f]

LEMMA GoesOn ==
    ASSUME IInv, TypeOK', NEW t \in Threads, NEW c \in CallType,
           Becomes(t, c), FilesGrow, HandlesStay, MayUse(t, c)
    PROVE  IInv'
<1> USE DEF Becomes
<1>1. Held'
  <2>1. ASSUME NEW u \in Threads,
               call'[u].pc \in {"open", "init", "store", "link"}
        PROVE  call'[u].f \in known'
    BY <2>1 DEF IInv, Held, MayUse, FilesGrow
  <2>2. ASSUME NEW u \in Threads, Using(u)'
        PROVE  call'[u].h \in Handles /\ handle'[call'[u].h].on # Nil
    BY <2>2 DEF IInv, Held, Using, MayUse, HandlesStay
  <2>3. ASSUME NEW u \in Threads, Reserving(u)'
        PROVE  call'[u].h \in Handles /\ handle'[call'[u].h].on = Nil
    BY <2>3 DEF IInv, Held, Reserving, MayUse, HandlesStay
  <2>4. ASSUME NEW u \in Threads, NEW v \in Threads,
               Reserving(u)', Reserving(v)', u # v
        PROVE  call'[u].h # call'[v].h
    BY <2>4 DEF IInv, Held, Reserving, MayUse
  <2> QED BY <2>1, <2>2, <2>3, <2>4 DEF Held, FilesGrow
<1>2. Closing'
  <2>1. ASSUME NEW u \in Threads
        PROVE  /\ Prompt(call'[u])
               /\ call'[u].pc = "inner" /\ call'[u].op = "Close" =>
                     handle'[call'[u].h].closed
    <3>1. CASE u = t
      BY <3>1 DEF MayUse
    <3>2. CASE u # t
      BY <3>2 DEF IInv, Held, Closing, Using, HandlesStay
    <3> QED BY <3>1, <3>2
  <2> QED BY <2>1 DEF Closing, HandlesStay
<1>3. ASSUME NEW f \in Files, NEW x \in Temps, Owns(f, x)'
      PROVE  Owns(f, x) \/ (x = path'[f] /\ x \in stored' \ stored)
  <2>1. CASE path'[f] = x
    BY <2>1, HandlesAssumption DEF Owns, FilesGrow
  <2>2. CASE \E h \in Handles : handle'[h].on = f /\ handle'[h].temp = x
    BY <2>2 DEF Owns, HandlesStay
  <2>3. CASE \E u \in Threads : call'[u].f = f /\ call'[u].temp = x
    <3>1. PICK u \in Threads : call'[u].f = f /\ call'[u].temp = x
      BY <2>3
    <3>2. CASE u # t
      BY <3>1, <3>2 DEF Owns
    <3>3. CASE u = t /\ x # path'[f]
      BY <3>1, <3>3, HandlesAssumption DEF Owns, MayUse
    <3> QED BY <3>1, <3>2, <3>3, <2>1
  <2> QED BY <1>3, <2>1, <2>2, <2>3 DEF Owns
<1>4. Apart'
  <2>1. ASSUME NEW f \in Files, NEW x \in Temps, Owns(f, x)'
        PROVE  x \in stored'
    BY <2>1, <1>3 DEF IInv, Apart, FilesGrow
  <2>2. ASSUME NEW f \in Files, NEW g \in Files, NEW x \in Temps,
               Owns(f, x)', Owns(g, x)', f # g
        PROVE  FALSE
    <3>1. /\ ~(Owns(f, x) /\ Owns(g, x))
          /\ Owns(f, x) \/ Owns(g, x) => x \in stored
      BY <2>2 DEF IInv, Apart
    <3>2. x \in stored' \ stored /\ x = path'[f] /\ x = path'[g]
      BY <3>1, <2>2, <1>3
    <3>3. path'[f] # path[f] /\ path'[g] # path[g]
      BY <3>2, HandlesAssumption DEF IInv, TypeOK
    <3> QED BY <3>3, <2>2 DEF FilesGrow
  <2> QED BY <2>1, <2>2 DEF Apart
\* the file of a path that is used stays as long as the view is not closed
<1>5. ASSUME NEW f \in Files, path[f] # Nil, ~dropped'[f]
      PROVE  path'[f] = path[f] /\ ~dropped[f]
  BY <1>5 DEF FilesGrow
<1>6. Current'
  <2>1. ASSUME NEW u \in Threads
        PROVE  /\ Reserving(u)' /\ call'[u].pc # "open" => call'[u].temp # Nil
               /\ call'[u].temp # Nil =>
                     /\ call'[u].f \in Files
                     /\ ~dropped'[call'[u].f] =>
                           call'[u].temp = path'[call'[u].f]
    <3>1. CASE u = t
      BY <3>1, <1>5 DEF IInv, Current, Reserving, MayUse, FilesGrow
    <3>2. CASE u # t
      BY <3>2, <1>5 DEF IInv, Current, Reserving, FilesGrow
    <3> QED BY <3>1, <3>2
  <2>2. ASSUME NEW h \in Handles
        PROVE  /\ handle'[h].on \in Files <=> handle'[h].temp # Nil
               /\ handle'[h].on \in Files /\ ~dropped'[handle'[h].on] =>
                     handle'[h].temp = path'[handle'[h].on]
    BY <1>5 DEF IInv, Current, HandlesStay, FilesGrow
  <2> QED BY <2>1, <2>2 DEF Current
<1> QED BY <1>1, <1>2, <1>4, <1>6 DEF IInv

-----------------------------------------------------------------------------
(***************************************************************************)
(* What a view gives: the temporary file it has, or a fresh one.           *)
(***************************************************************************)
LEMMA FreshTempsAreFresh == FreshTemps \subseteq Temps \ stored
  BY DEF FreshTemps

LEMMA ViewGives ==
    ASSUME TypeOK, NEW f \in Files, NEW r \in View(f)
    PROVE  /\ stored \subseteq r.stored /\ r.stored \subseteq Temps
           /\ r.path \in r.stored \cup {Nil}
           /\ \/ r.path = path[f]
              \/ path[f] = Nil /\ r.path \in r.stored \ stored
           /\ r.err = "ok" => r.path \in Temps
<1> DEFINE Gives(q) ==
       /\ stored \subseteq q.stored /\ q.stored \subseteq Temps
       /\ q.path \in q.stored \cup {Nil}
       /\ q.path = path[f] \/ (path[f] = Nil /\ q.path \in q.stored \ stored)
       /\ q.err = "ok" => q.path \in Temps
<1>1. path[f] \in stored \cup {Nil} /\ stored \subseteq Temps
  BY DEF TypeOK
<1>2. ASSUME NEW q \in TempFile(f), path[f] = Nil
      PROVE  Gives(q)
  <2>1. CASE q = [path |-> path[f], stored |-> stored, err |-> "EIO"]
    BY <2>1, <1>1
  <2>2. ASSUME NEW x \in FreshTemps, NEW y \in FreshTemps \cup {path[f]},
               q = [path |-> y, stored |-> stored \cup {x},
                    err |-> IF y = x THEN "ok" ELSE "EIO"]
        PROVE  Gives(q)
    <3>1. x \in Temps \ stored
      BY FreshTempsAreFresh
    <3>2. y = x \/ y = path[f]
      BY DEF FreshTemps
    <3> QED BY <3>1, <3>2, <2>2, <1>1, <1>2
  <2> QED BY <2>1, <2>2 DEF TempFile
<1>3. ASSUME NEW q \in Create(f)
      PROVE  Gives(q)
  BY <1>1, <1>2, HandlesAssumption DEF Create
<1>4. CASE r \in Create(f)
  BY <1>3, <1>4
<1>5. ASSUME NEW q \in Create(f), NEW e \in {"ENOENT", "EIO"},
             r = [q EXCEPT !.err = e]
      PROVE  Gives(r)
  <2>1. /\ q = [path |-> q.path, stored |-> q.stored, err |-> q.err]
    BY DEF Create, TempFile
  <2>2. r.path = q.path /\ r.stored = q.stored /\ r.err = e
    BY <2>1, <1>5
  <2> QED BY <2>2, <1>3
<1> QED BY <1>4, <1>5, <1>3 DEF View

LEMMA ApplyGrows ==
    ASSUME TypeOK, NEW f \in Files, NEW r \in View(f), Apply(f, r)
    PROVE  /\ path' \in [Files -> stored' \cup {Nil}] /\ stored' \subseteq Temps
           /\ path'[f] = r.path
           /\ stored \subseteq stored'
           /\ \A g \in Files : \/ path'[g] = path[g]
                               \/ path[g] = Nil /\ path'[g] \in stored' \ stored
           /\ \A g, h \in Files : g # h =>
                 path'[g] = path[g] \/ path'[h] = path[h]
  BY ViewGives DEF Apply, TypeOK

-----------------------------------------------------------------------------
(***************************************************************************)
(* Every action keeps the invariant.                                       *)
(***************************************************************************)
LEMMA NoCallMayUse == ASSUME NEW t PROVE MayUse(t, NoCall)
  BY DEF MayUse, NoCall

LEMMA SameFiles ==
    ASSUME IInv, UNCHANGED fileVars
    PROVE  FilesGrow
  BY DEF IInv, Held, FilesGrow, fileVars

LEMMA SameHandles ==
    ASSUME IInv, UNCHANGED handle
    PROVE  HandlesStay
  BY DEF IInv, Closing, HandlesStay

\* Steps that only change the local variables of the operation.
LEMMA LocalStep ==
    ASSUME IInv, NEW t \in Threads, NEW c \in CallType,
           UNCHANGED <<fileVars, handle>>, call' = [call EXCEPT ![t] = c],
           MayUse(t, c)
    PROVE  IInv'
<1>1. Becomes(t, c)
  BY DEF IInv, TypeOK, Becomes
<1>2. TypeOK'
  BY <1>1 DEF IInv, TypeOK, Becomes, fileVars
<1> QED BY <1>1, <1>2, SameFiles, SameHandles, GoesOn

LEMMA ReturnStep ==
    ASSUME IInv, NEW t \in Threads, UNCHANGED <<fileVars, handle>>, Return(t)
    PROVE  IInv'
  BY NoCallType, NoCallMayUse, LocalStep DEF Return

\* newVirtualFileData of file f, after which the operation is c or over.
LEMMA NewFileInv ==
    ASSUME IInv, NEW t \in Threads, NEW f \in Files \ known,
           NEW c \in CallType, NewFile(t, f, c),
           Prompt(c), c.f = f, c.temp = Nil,
           \/ c.pc = "link" /\ c.op = "add"
           \/ c.pc = "open" /\ c.op = "create" /\ c.h \in FreeHandles
    PROVE  IInv'
<1>1. PICK r \in View(f) :
         /\ known' = known \cup {f}
         /\ Apply(f, r)
         /\ meta' = IF r.err # "ok" THEN meta ELSE [meta EXCEPT ![f] = FromView]
         /\ call' = [call EXCEPT ![t] =
                       IF r.err \in {"ok", "ENOENT"} THEN c ELSE NoCall]
  BY DEF NewFile
<1> DEFINE d == IF r.err \in {"ok", "ENOENT"} THEN c ELSE NoCall
<1>2. UNCHANGED <<entries, dropped, handle>>
  BY DEF NewFile
<1>3. d \in CallType /\ Becomes(t, d)
  BY <1>1, NoCallType DEF IInv, TypeOK, Becomes
<1>4. TypeOK
  BY DEF IInv
<1>5. /\ path' \in [Files -> stored' \cup {Nil}] /\ stored' \subseteq Temps
      /\ stored \subseteq stored'
      /\ \A g \in Files : \/ path'[g] = path[g]
                          \/ path[g] = Nil /\ path'[g] \in stored' \ stored
      /\ \A g, h \in Files : g # h =>
            path'[g] = path[g] \/ path'[h] = path[h]
  BY <1>1, <1>4, ApplyGrows
<1>6. entries \in Seq(known') /\ known' \subseteq Files
  BY <1>1, <1>4 DEF TypeOK
<1>7. FromView \in MetaType
  BY DEF FromView, MetaType
<1>8. TypeOK'
  BY <1>1, <1>2, <1>3, <1>4, <1>5, <1>6, <1>7 DEF TypeOK, Becomes
<1>9. FilesGrow
  <2>1. \A g \in Files : meta'[g].initialized => g \in known'
    BY <1>1, <1>4 DEF IInv, Held, TypeOK
  <2> QED BY <2>1, <1>1, <1>2, <1>5 DEF FilesGrow
<1>10. HandlesStay
  BY <1>2, SameHandles
<1>11. MayUse(t, d)
  <2>1. c.op = "create" =>
           /\ c.h \in Handles /\ handle[c.h].on = Nil
           /\ \A u \in Threads : u # t => call[u].h # c.h
    BY DEF FreeHandles
  <2>2. MayUse(t, c)
    BY <1>1, <2>1 DEF MayUse
  <2> QED BY <2>2, NoCallMayUse
<1> QED BY <1>3, <1>8, <1>9, <1>10, <1>11, GoesOn

LEMMA AddFileInv ==
    ASSUME IInv, NEW t \in Threads, AddFile(t)
    PROVE  IInv'
<1>1. PICK f \in Files \ known :
         NewFile(t, f, [NoCall EXCEPT !.pc = "link", !.op = "add", !.f = f])
  BY DEF AddFile
<1> DEFINE c == [NoCall EXCEPT !.pc = "link", !.op = "add", !.f = f]
<1>2. /\ c \in CallType /\ Prompt(c) /\ c.f = f /\ c.temp = Nil
      /\ c.pc = "link" /\ c.op = "add"
  BY DEF NoCall, CallType, Steps, Ops, Methods
<1> QED BY <1>1, <1>2, NewFileInv

LEMMA CreateFileInv ==
    ASSUME IInv, NEW t \in Threads, CreateFile(t)
    PROVE  IInv'
<1>1. PICK f \in Files \ known, h \in FreeHandles :
         NewFile(t, f, [NoCall EXCEPT !.pc = "open", !.op = "create",
                                      !.f = f, !.h = h])
  BY DEF CreateFile
<1> DEFINE c == [NoCall EXCEPT !.pc = "open", !.op = "create",
                               !.f = f, !.h = h]
<1>2. /\ c \in CallType /\ Prompt(c) /\ c.f = f /\ c.temp = Nil
      /\ c.pc = "open" /\ c.op = "create" /\ c.h \in FreeHandles
  BY DEF NoCall, CallType, Steps, Ops, Methods, FreeHandles
<1> QED BY <1>1, <1>2, NewFileInv

LEMMA OpenFileInv ==
    ASSUME IInv, NEW t \in Threads, OpenFile(t)
    PROVE  IInv'
<1>1. PICK f \in ToSet(entries), h \in FreeHandles :
         IF meta[f].mode = "zero" THEN Return(t)
         ELSE call' = [call EXCEPT ![t] = [NoCall EXCEPT
                         !.pc = "open", !.op = "open", !.f = f, !.h = h]]
  BY DEF OpenFile
<1>2. UNCHANGED <<fileVars, handle>>
  BY DEF OpenFile
<1> DEFINE c == [NoCall EXCEPT !.pc = "open", !.op = "open", !.f = f, !.h = h]
<1>3. f \in known /\ f \in Files
  BY DEF IInv, TypeOK, ToSet
<1>4. c \in CallType
  BY <1>3 DEF NoCall, CallType, Steps, Ops, Methods, FreeHandles
<1>5. MayUse(t, c)
  BY <1>2, <1>3 DEF MayUse, NoCall, FreeHandles, fileVars
<1>6. CASE Return(t)
  BY <1>2, <1>6, ReturnStep
<1>7. CASE call' = [call EXCEPT ![t] = c]
  BY <1>2, <1>4, <1>5, <1>7, LocalStep
<1> QED BY <1>1, <1>6, <1>7

\* A view is asked; the operation goes on as c, or returns.
LEMMA AskView ==
    ASSUME IInv, NEW t \in Threads, NEW f \in Files, NEW r \in View(f),
           Apply(f, r), UNCHANGED <<entries, known, meta, dropped, handle>>,
           NEW c \in CallType, call' = [call EXCEPT ![t] = c], MayUse(t, c)
    PROVE  IInv'
<1>1. TypeOK
  BY DEF IInv
<1>2. Becomes(t, c)
  BY <1>1 DEF TypeOK, Becomes
<1>3. /\ path' \in [Files -> stored' \cup {Nil}] /\ stored' \subseteq Temps
      /\ stored \subseteq stored'
      /\ \A g \in Files : \/ path'[g] = path[g]
                          \/ path[g] = Nil /\ path'[g] \in stored' \ stored
      /\ \A g, h \in Files : g # h =>
            path'[g] = path[g] \/ path'[h] = path[h]
  BY <1>1, ApplyGrows
<1>4. TypeOK'
  BY <1>1, <1>2, <1>3 DEF TypeOK, Becomes
<1>5. FilesGrow
  BY <1>3 DEF IInv, Held, FilesGrow
<1> QED BY <1>2, <1>4, <1>5, SameHandles, GoesOn

LEMMA ViewOpenInv ==
    ASSUME IInv, NEW t \in Threads, ViewOpen(t)
    PROVE  IInv'
<1> DEFINE c == call[t]
<1>1. PICK r \in View(c.f) :
         /\ Apply(c.f, r)
         /\ IF r.err # "ok" THEN Return(t)
            ELSE call' = [call EXCEPT ![t].pc = "init", ![t].temp = r.path]
  BY DEF ViewOpen
<1>2. c.pc = "open" /\ UNCHANGED <<entries, known, meta, dropped, handle>>
  BY DEF ViewOpen
<1>3. TypeOK /\ c \in CallType /\ c.f \in known /\ c.f \in Files
  BY <1>2 DEF IInv, TypeOK, Held
<1>4. CASE Return(t)
  BY <1>1, <1>2, <1>3, <1>4, AskView, NoCallType, NoCallMayUse DEF Return
<1>5. CASE r.err = "ok"
  <2> DEFINE d == [c EXCEPT !.pc = "init", !.temp = r.path]
  <2>1. call' = [call EXCEPT ![t] = d]
    BY <1>1, <1>3, <1>5 DEF TypeOK
  <2>2. r.path \in Temps /\ path'[c.f] = r.path
    BY <1>1, <1>3, <1>5, ViewGives, ApplyGrows
  <2>3. /\ d \in CallType /\ d.f = c.f /\ d.h = c.h /\ d.op = c.op
        /\ d.pc = "init" /\ d.temp = r.path /\ d.late = c.late
    BY <1>3, <2>2 DEF CallType, Steps
  <2>4. Reserving(t) \/ c.op = "add"
    BY <1>2 DEF Reserving
  <2>5. c.op # "add" => /\ c.h \in Handles /\ handle[c.h].on = Nil
                        /\ \A u \in Threads : u # t /\ Reserving(u) =>
                              call[u].h # c.h
    BY <2>4 DEF IInv, Held
  <2>6. MayUse(t, d)
    BY <1>2, <1>3, <2>2, <2>3, <2>5, HandlesAssumption
    DEF MayUse, IInv, Closing
  <2> QED BY <1>1, <1>2, <1>3, <2>1, <2>3, <2>6, AskView
<1> QED BY <1>1, <1>4, <1>5

\* Between the steps of an OpenFile, its file and handle stay its own.
LEMMA StillReserved ==
    ASSUME IInv, NEW t \in Threads, NEW c \in CallType,
           call[t].pc \in {"init", "store"}, c.pc \in {"store", "link"},
           known \subseteq known',
           c.f = call[t].f, c.h = call[t].h, c.op = call[t].op,
           c.temp = call[t].temp, c.late = call[t].late
    PROVE  MayUse(t, c)
<1>1. Prompt(c) /\ c.f \in known'
  BY DEF IInv, Held, Closing
<1>2. CASE c.op = "add"
  BY <1>1, <1>2 DEF MayUse
<1>3. CASE c.op # "add"
  <2>1. Reserving(t)
    BY <1>3 DEF Reserving
  <2>2. /\ c.h \in Handles /\ handle[c.h].on = Nil /\ c.temp # Nil
        /\ \A u \in Threads : u # t /\ Reserving(u) => call[u].h # c.h
    BY <2>1 DEF IInv, Held, Current
  <2> QED BY <1>1, <2>2 DEF MayUse
<1> QED BY <1>2, <1>3

LEMMA InitCheckInv ==
    ASSUME IInv, NEW t \in Threads, InitCheck(t)
    PROVE  IInv'
<1> DEFINE c == call[t]
           d == [c EXCEPT !.pc = IF meta[c.f].initialized THEN "link"
                                 ELSE "store"]
<1>1. c \in CallType /\ c.pc = "init" /\ UNCHANGED <<fileVars, handle>>
  BY DEF InitCheck, IInv, TypeOK
<1>2. call' = [call EXCEPT ![t] = d]
  BY DEF InitCheck, IInv, TypeOK
<1>3. /\ d \in CallType /\ d.pc \in {"store", "link"}
      /\ d.f = c.f /\ d.h = c.h /\ d.op = c.op /\ d.temp = c.temp
      /\ d.late = c.late
  BY <1>1 DEF CallType, Steps
<1>4. MayUse(t, d)
  BY <1>1, <1>3, StillReserved DEF fileVars
<1> QED BY <1>1, <1>2, <1>3, <1>4, LocalStep

\* Steps that write the metadata of a known file, at most.
LEMMA MetaStep ==
    ASSUME IInv, NEW t \in Threads, NEW f \in known, NEW m \in MetaType,
           meta' = [meta EXCEPT ![f] = m],
           UNCHANGED <<entries, known, path, dropped, stored, handle>>,
           NEW c \in CallType, call' = [call EXCEPT ![t] = c], MayUse(t, c)
    PROVE  IInv'
<1>1. TypeOK /\ Becomes(t, c)
  BY DEF IInv, TypeOK, Becomes
<1>2. TypeOK'
  BY <1>1 DEF TypeOK, Becomes
<1>3. FilesGrow
  BY <1>1 DEF IInv, Held, TypeOK, FilesGrow
<1> QED BY <1>1, <1>2, <1>3, SameHandles, GoesOn

LEMMA InitStoreInv ==
    ASSUME IInv, NEW t \in Threads, InitStore(t)
    PROVE  IInv'
<1> DEFINE c == call[t]
           d == [c EXCEPT !.pc = "link"]
<1>1. /\ c \in CallType /\ c.pc = "store" /\ c.f \in known /\ c.f \in Files
      /\ meta \in [Files -> MetaType]
      /\ UNCHANGED <<entries, known, path, dropped, stored, handle>>
  BY DEF InitStore, IInv, TypeOK, Held
<1>2. CASE Return(t) /\ UNCHANGED meta
  BY <1>1, <1>2, ReturnStep DEF fileVars
<1>3. CASE /\ meta' = IF meta[c.f].initialized THEN meta
                      ELSE [meta EXCEPT ![c.f] = FromView]
           /\ call' = [call EXCEPT ![t].pc = "link"]
  <2>1. call' = [call EXCEPT ![t] = d]
    BY <1>3 DEF IInv, TypeOK
  <2>2. /\ d \in CallType /\ d.pc = "link"
        /\ d.f = c.f /\ d.h = c.h /\ d.op = c.op /\ d.temp = c.temp
        /\ d.late = c.late
    BY <1>1 DEF CallType, Steps
  <2>3. MayUse(t, d)
    BY <1>1, <2>2, StillReserved
  <2>4. meta' = [meta EXCEPT ![c.f] = meta'[c.f]] /\ meta'[c.f] \in MetaType
    BY <1>1, <1>3 DEF FromView, MetaType
  <2> QED BY <1>1, <2>1, <2>2, <2>3, <2>4, MetaStep
<1> QED BY <1>2, <1>3 DEF InitStore

LEMMA ChmodInv ==
    ASSUME IInv, NEW t \in Threads, Chmod(t)
    PROVE  IInv'
<1>1. PICK f \in ToSet(entries) : meta' = [meta EXCEPT ![f].mode = "chmod"]
  BY DEF Chmod
<1>2. /\ UNCHANGED <<entries, known, path, dropped, stored, handle>>
      /\ call' = [call EXCEPT ![t] = NoCall]
  BY DEF Chmod, Return
<1>3. f \in known /\ f \in Files /\ meta \in [Files -> MetaType]
  BY DEF IInv, TypeOK, ToSet
<1>4. /\ meta' = [meta EXCEPT ![f] = [meta[f] EXCEPT !.mode = "chmod"]]
      /\ [meta[f] EXCEPT !.mode = "chmod"] \in MetaType
  BY <1>1, <1>3 DEF MetaType
<1> QED BY <1>2, <1>3, <1>4, MetaStep, NoCallType, NoCallMayUse

LEMMA RemoveCloseInv ==
    ASSUME IInv, NEW t \in Threads, RemoveClose(t)
    PROVE  IInv'
<1>1. PICK f \in ToSet(entries) :
         /\ path' = [path EXCEPT ![f] = Nil]
         /\ stored' = stored \ {path'[f]}
         /\ dropped' = [dropped EXCEPT ![f] = TRUE]
         /\ call' = [call EXCEPT ![t] = [NoCall EXCEPT !.pc = "unlink",
                                              !.op = "remove", !.f = f]]
  BY DEF RemoveClose
<1>2. UNCHANGED <<entries, known, meta, handle>>
  BY DEF RemoveClose
<1> DEFINE c == [NoCall EXCEPT !.pc = "unlink", !.op = "remove", !.f = f]
<1>3. TypeOK /\ f \in Files
  BY DEF IInv, TypeOK, ToSet
<1>4. c \in CallType /\ MayUse(t, c)
  BY <1>3 DEF NoCall, CallType, Steps, Ops, Methods, MayUse
<1>5. Becomes(t, c)
  BY <1>1, <1>3, <1>4 DEF TypeOK, Becomes
<1>6. stored' = stored
  BY <1>1, <1>3, HandlesAssumption DEF TypeOK
<1>7. TypeOK'
  BY <1>1, <1>2, <1>3, <1>5, <1>6 DEF TypeOK, Becomes
<1>8. FilesGrow
  BY <1>1, <1>2, <1>3, <1>6 DEF IInv, Held, TypeOK, FilesGrow
<1> QED BY <1>2, <1>4, <1>5, <1>7, <1>8, SameHandles, GoesOn

LEMMA RemoveUnlinkInv ==
    ASSUME IInv, NEW t \in Threads, RemoveUnlink(t)
    PROVE  IInv'
<1>1. /\ entries' = Unlist(entries, call[t].f)
      /\ call' = [call EXCEPT ![t] = NoCall]
      /\ UNCHANGED <<known, meta, path, dropped, stored, handle>>
  BY DEF RemoveUnlink, Return
<1>2. TypeOK /\ Becomes(t, NoCall)
  BY <1>1, NoCallType DEF IInv, TypeOK, Becomes
<1>3. entries' \in Seq(known)
  <2>1. CASE \E i \in DOMAIN entries : entries[i] = call[t].f
    <3> DEFINE i == CHOOSE i \in DOMAIN entries : entries[i] = call[t].f
    <3>1. i \in 1..Len(entries)
      BY <2>1, <1>2 DEF TypeOK
    <3>2. entries' = RemoveAt(entries, i)
      BY <1>1, <2>1 DEF Unlist
    <3> HIDE DEF i
    <3> QED BY <3>1, <3>2, <1>2, RemoveAtElements DEF TypeOK
  <2>2. CASE ~\E i \in DOMAIN entries : entries[i] = call[t].f
    BY <1>1, <1>2, <2>2 DEF Unlist, TypeOK
  <2> QED BY <2>1, <2>2
<1>4. TypeOK'
  BY <1>1, <1>2, <1>3 DEF TypeOK, Becomes
<1>5. FilesGrow
  BY <1>1 DEF IInv, Held, FilesGrow
<1> QED BY <1>1, <1>2, <1>4, <1>5, NoCallType, NoCallMayUse, SameHandles, GoesOn

(***************************************************************************)
(* The two steps that fill a handle nobody else has, with value d.         *)
(***************************************************************************)
LEMMA FillHandle ==
    ASSUME IInv, TypeOK', NEW t \in Threads,
           NEW h \in Handles, handle[h].on = Nil,
           \A u \in Threads : u # t /\ Reserving(u) => call[u].h # h,
           NEW d \in HandleType, d.on # Nil, d.returned => d.closed,
           d.temp = Nil \/ (d.temp = call[t].temp /\ d.on = call[t].f),
           d.on \in Files <=> d.temp # Nil,
           handle' = [handle EXCEPT ![h] = d],
           Becomes(t, NoCall),
           UNCHANGED <<known, meta, path, dropped, stored>>
    PROVE  IInv'
<1> USE DEF Becomes
<1>1. handle'[h] = d /\ \A k \in Handles : k # h => handle'[k] = handle[k]
  BY DEF IInv, TypeOK
<1>2. /\ call'[t].pc = "idle" /\ call'[t].temp = Nil /\ Prompt(call'[t])
  BY DEF NoCall
<1>3. Held'
  <2>1. ASSUME NEW u \in Threads, Using(u)'
        PROVE  call'[u].h \in Handles /\ handle'[call'[u].h].on # Nil
    BY <1>1, <1>2, <2>1 DEF IInv, Held, Using
  <2>2. ASSUME NEW u \in Threads, Reserving(u)'
        PROVE  call'[u].h \in Handles /\ handle'[call'[u].h].on = Nil
    BY <1>1, <1>2, <2>2 DEF IInv, Held, Reserving
  <2>3. ASSUME NEW u \in Threads, NEW v \in Threads,
               Reserving(u)', Reserving(v)', u # v
        PROVE  call'[u].h # call'[v].h
    BY <1>2, <2>3 DEF IInv, Held, Reserving
  <2>4. ASSUME NEW u \in Threads,
               call'[u].pc \in {"open", "init", "store", "link"}
        PROVE  call'[u].f \in known'
    BY <1>2, <2>4 DEF IInv, Held
  <2> QED BY <2>1, <2>2, <2>3, <2>4 DEF IInv, Held
<1>4. Closing'
  <2>1. ASSUME NEW u \in Threads
        PROVE  /\ Prompt(call'[u])
               /\ call'[u].pc = "inner" /\ call'[u].op = "Close" =>
                     handle'[call'[u].h].closed
    BY <1>1, <1>2 DEF IInv, Closing, Held, Using
  <2> QED BY <1>1, <2>1 DEF IInv, Closing
<1>5. ASSUME NEW f \in Files, NEW x \in Temps, Owns(f, x)'
      PROVE  Owns(f, x)
  <2>1. CASE path'[f] = x
    BY <2>1 DEF Owns
  <2>2. CASE \E k \in Handles : handle'[k].on = f /\ handle'[k].temp = x
    BY <2>2, <1>1, HandlesAssumption DEF Owns
  <2>3. CASE \E u \in Threads : call'[u].f = f /\ call'[u].temp = x
    BY <2>3, <1>2, HandlesAssumption DEF Owns
  <2> QED BY <1>5, <2>1, <2>2, <2>3 DEF Owns
<1>6. Apart'
  BY <1>5 DEF IInv, Apart
<1>7. Current'
  <2>1. ASSUME NEW u \in Threads
        PROVE  /\ Reserving(u)' /\ call'[u].pc # "open" => call'[u].temp # Nil
               /\ call'[u].temp # Nil =>
                     /\ call'[u].f \in Files
                     /\ ~dropped'[call'[u].f] =>
                           call'[u].temp = path'[call'[u].f]
    BY <1>2 DEF IInv, Current, Reserving
  <2>2. ASSUME NEW k \in Handles
        PROVE  /\ handle'[k].on \in Files <=> handle'[k].temp # Nil
               /\ handle'[k].on \in Files /\ ~dropped'[handle'[k].on] =>
                     handle'[k].temp = path'[handle'[k].on]
    BY <1>1 DEF IInv, Current
  <2> QED BY <2>1, <2>2 DEF Current
<1> QED BY <1>3, <1>4, <1>6, <1>7 DEF IInv

LEMMA LinkInv ==
    ASSUME IInv, NEW t \in Threads, Link(t)
    PROVE  IInv'
<1> DEFINE c == call[t]
           d == [NoHandle EXCEPT !.on = c.f, !.temp = c.temp]
<1>1. /\ c.pc = "link"
      /\ entries' = IF c.op = "open" THEN entries ELSE Append(entries, c.f)
      /\ handle' = IF c.op = "add" THEN handle
                   ELSE [handle EXCEPT ![c.h] = d]
      /\ call' = [call EXCEPT ![t] = NoCall]
      /\ UNCHANGED <<known, meta, path, dropped, stored>>
  BY DEF Link, Return
<1>2. TypeOK /\ c \in CallType /\ c.f \in known /\ c.f \in Files
  BY <1>1 DEF IInv, TypeOK, Held
<1>3. Becomes(t, NoCall)
  BY <1>1, <1>2, NoCallType DEF TypeOK, Becomes
<1>4. /\ d \in HandleType /\ d.on = c.f /\ d.temp = c.temp /\ ~d.returned
      /\ d.snapshot = Nil /\ d.off = 0
  <2>1. NoHandle \in HandleType
    <3>1. <<>> \in Seq(Files)
      OBVIOUS
    <3> QED BY <3>1 DEF NoHandle, HandleType
  <2>2. NoHandle.snapshot = Nil /\ NoHandle.off = 0 /\ ~NoHandle.returned
    BY DEF NoHandle
  <2> QED BY <1>2, <2>1, <2>2 DEF HandleType, CallType
<1>5. entries' \in Seq(known)
  BY <1>1, <1>2 DEF TypeOK
<1>6. handle' \in [Handles -> HandleType]
  BY <1>1, <1>2, <1>4 DEF TypeOK
<1>7. TypeOK'
  BY <1>1, <1>2, <1>3, <1>4, <1>5, <1>6 DEF TypeOK, Becomes
<1>8. CASE c.op = "add"
  <2>1. FilesGrow
    BY <1>1 DEF IInv, Held, FilesGrow
  <2> QED BY <1>1, <1>3, <1>7, <1>8, <2>1, NoCallType, NoCallMayUse,
             SameHandles, GoesOn
<1>9. CASE c.op # "add"
  <2>1. Reserving(t)
    BY <1>1, <1>9 DEF Reserving
  <2>2. /\ c.h \in Handles /\ handle[c.h].on = Nil /\ c.temp # Nil
        /\ \A u \in Threads : u # t /\ Reserving(u) => call[u].h # c.h
    BY <1>1, <2>1 DEF IInv, Held, Current
  <2> QED BY <1>1, <1>2, <1>3, <1>4, <1>7, <1>9, <2>2, FillHandle,
             HandlesAssumption
<1> QED BY <1>8, <1>9

LEMMA OpenDirInv ==
    ASSUME IInv, NEW t \in Threads, OpenDir(t)
    PROVE  IInv'
<1>1. PICK h \in FreeHandles : handle' = [handle EXCEPT ![h].on = Dir]
  BY DEF OpenDir
<1>2. /\ call' = [call EXCEPT ![t] = NoCall]
      /\ UNCHANGED fileVars
  BY DEF OpenDir, Return
<1>3. /\ h \in Handles /\ handle[h].on = Nil
      /\ \A u \in Threads : call[u].h # h
  BY DEF FreeHandles
<1>4. TypeOK /\ Becomes(t, NoCall) /\ handle[h] \in HandleType
  BY <1>2, <1>3, NoCallType DEF IInv, TypeOK, Becomes
<1> DEFINE d == [handle[h] EXCEPT !.on = Dir]
<1>5. /\ handle[h].temp = Nil
  BY <1>3, HandlesAssumption DEF IInv, Current
<1>6. /\ d \in HandleType /\ d.on = Dir /\ d.temp = Nil
      /\ d.off = handle[h].off /\ d.snapshot = handle[h].snapshot
      /\ d.returned => d.closed
  BY <1>3, <1>4, <1>5 DEF HandleType, IInv, Closing
<1>7. handle' = [handle EXCEPT ![h] = d]
  BY <1>1, <1>4 DEF TypeOK
<1>8. TypeOK'
  BY <1>2, <1>3, <1>4, <1>6, <1>7 DEF TypeOK, Becomes, fileVars
<1> QED BY <1>2, <1>3, <1>4, <1>6, <1>7, <1>8, FillHandle,
           HandlesAssumption DEF fileVars

LEMMA BeforeEachInv ==
    ASSUME IInv, NEW t \in Threads, BeforeEach(t)
    PROVE  IInv'
<1>1. PICK h \in Handles, op \in Methods :
         /\ handle[h].on # Nil
         /\ IF Refuses(h, op) THEN Return(t)
            ELSE call' = [call EXCEPT ![t] =
                   [NoCall EXCEPT
                      !.pc = IF op = "Close" THEN "close" ELSE "inner",
                      !.op = op, !.h = h, !.late = handle[h].returned]]
  BY DEF BeforeEach
<1>2. UNCHANGED <<fileVars, handle>>
  BY DEF BeforeEach
<1> DEFINE c == [NoCall EXCEPT
                   !.pc = IF op = "Close" THEN "close" ELSE "inner",
                   !.op = op, !.h = h, !.late = handle[h].returned]
<1>3. CASE Refuses(h, op)
  BY <1>1, <1>2, <1>3, ReturnStep
<1>4. CASE ~Refuses(h, op)
  <2>1. handle[h].returned \in BOOLEAN /\ (op # "Name" => ~handle[h].returned)
    BY <1>4 DEF IInv, Closing, TypeOK, HandleType, Refuses
  <2>2. c \in CallType
    BY <2>1 DEF NoCall, CallType, Steps, Ops, Methods
  <2>3. MayUse(t, c)
    BY <1>1, <2>1 DEF MayUse, NoCall
  <2> QED BY <1>1, <1>2, <1>4, <2>2, <2>3, LocalStep
<1> QED BY <1>3, <1>4

\* Steps of a method that change the handle it is called on to d, and
\* continue as c; what the handle is opened on stays.
LEMMA HandleStep ==
    ASSUME IInv, NEW t \in Threads, NEW h \in Handles, UNCHANGED fileVars,
           NEW d \in HandleType, handle' = [handle EXCEPT ![h] = d],
           d.on = handle[h].on, d.temp = handle[h].temp,
           handle[h].closed => d.closed, d.returned => d.closed,
           d.off <= IF d.snapshot = Nil THEN 0 ELSE Len(d.snapshot),
           NEW c \in CallType, call' = [call EXCEPT ![t] = c], MayUse(t, c)
    PROVE  IInv'
<1>1. TypeOK /\ Becomes(t, c)
  BY DEF IInv, TypeOK, Becomes
<1>2. handle'[h] = d /\ \A k \in Handles : k # h => handle'[k] = handle[k]
  BY <1>1 DEF TypeOK
<1>3. TypeOK'
  <2>1. handle' \in [Handles -> HandleType]
    BY <1>1 DEF TypeOK
  <2>2. ASSUME NEW k \in Handles
        PROVE  handle'[k].off <= IF handle'[k].snapshot = Nil THEN 0
                                 ELSE Len(handle'[k].snapshot)
    BY <1>1, <1>2 DEF TypeOK
  <2> QED BY <1>1, <2>1, <2>2 DEF TypeOK, Becomes, fileVars
<1>4. HandlesStay
  BY <1>2 DEF IInv, Closing, HandlesStay
<1> QED BY <1>1, <1>3, <1>4, SameFiles, GoesOn

LEMMA SetClosedInv ==
    ASSUME IInv, NEW t \in Threads, SetClosed(t)
    PROVE  IInv'
<1> DEFINE c == call[t]
           d == [handle[c.h] EXCEPT !.closed = TRUE]
           n == [c EXCEPT !.pc = "inner"]
<1>1. c.pc = "close" /\ UNCHANGED fileVars
  BY DEF SetClosed
<1>2. /\ TypeOK /\ c \in CallType /\ Prompt(c)
      /\ c.h \in Handles /\ handle[c.h].on # Nil
      /\ handle[c.h] \in HandleType
      /\ handle[c.h].off <= IF handle[c.h].snapshot = Nil THEN 0
                            ELSE Len(handle[c.h].snapshot)
  BY <1>1 DEF IInv, TypeOK, Held, Closing, Using
<1>3. /\ handle' = [handle EXCEPT ![c.h] = d]
      /\ call' = [call EXCEPT ![t] = n]
  BY <1>2 DEF SetClosed, TypeOK
<1>4. /\ d \in HandleType /\ d.on = handle[c.h].on /\ d.closed
      /\ d.temp = handle[c.h].temp /\ d.off = handle[c.h].off
      /\ d.snapshot = handle[c.h].snapshot
  BY <1>2 DEF HandleType
<1>5. /\ n \in CallType /\ n.pc = "inner" /\ n.h = c.h /\ n.f = c.f
      /\ n.temp = c.temp /\ n.late = c.late /\ n.op = c.op
  BY <1>2 DEF CallType, Steps
<1>6. handle'[c.h].closed
  BY <1>2, <1>3, <1>4 DEF TypeOK
<1>7. MayUse(t, n)
  BY <1>2, <1>5, <1>6 DEF MayUse
<1> HIDE DEF d, n
<1> QED BY <1>1, <1>2, <1>3, <1>4, <1>5, <1>7, HandleStep

LEMMA InnerCallInv ==
    ASSUME IInv, NEW t \in Threads, InnerCall(t)
    PROVE  IInv'
<1> DEFINE c == call[t]
           h == c.h
           d == [handle[h] EXCEPT !.returned = @ \/ c.op = "Close"]
<1>1. c.pc = "inner" /\ UNCHANGED fileVars
  BY DEF InnerCall
<1>2. /\ TypeOK /\ c \in CallType /\ h \in Handles /\ handle[h] \in HandleType
      /\ handle[h].off <= IF handle[h].snapshot = Nil THEN 0
                          ELSE Len(handle[h].snapshot)
      /\ handle[h].returned \/ c.op = "Close" => handle[h].closed
  BY <1>1 DEF IInv, TypeOK, Held, Closing, Using
<1>3. /\ handle' = [handle EXCEPT ![h] = d]
      /\ call' = [call EXCEPT ![t] = NoCall]
  BY <1>2 DEF InnerCall, Return, TypeOK
<1>4. /\ d \in HandleType /\ d.on = handle[h].on /\ d.closed = handle[h].closed
      /\ d.temp = handle[h].temp /\ d.off = handle[h].off
      /\ d.snapshot = handle[h].snapshot
      /\ d.returned = (handle[h].returned \/ c.op = "Close")
  BY <1>2 DEF HandleType
<1> HIDE DEF d, h
<1> QED BY <1>1, <1>2, <1>3, <1>4, NoCallType, NoCallMayUse, HandleStep

\* A method of t on a handle, under way.
LEMMA UsedHandle ==
    ASSUME IInv, NEW t \in Threads, Using(t)
    PROVE  /\ call[t] \in CallType /\ Prompt(call[t]) /\ call[t].h \in Handles
           /\ handle[call[t].h].on # Nil /\ handle[call[t].h] \in HandleType
           /\ handle[call[t].h].returned => handle[call[t].h].closed
  BY DEF IInv, TypeOK, Held, Closing

LEMMA SeekInv ==
    ASSUME IInv, NEW t \in Threads, Seek(t)
    PROVE  IInv'
<1> DEFINE h == call[t].h
           d == [handle[h] EXCEPT !.snapshot = Nil, !.off = 0, !.given = <<>>]
<1>1. Using(t) /\ UNCHANGED fileVars
  BY DEF Seek, Using
<1>2. /\ TypeOK /\ h \in Handles /\ handle[h] \in HandleType
      /\ handle[h].returned => handle[h].closed
  BY <1>1, UsedHandle DEF IInv
<1>3. /\ handle' = [handle EXCEPT ![h] = d]
      /\ call' = [call EXCEPT ![t] = NoCall]
  BY <1>2 DEF Seek, Return, TypeOK
<1>4. /\ d \in HandleType /\ d.on = handle[h].on /\ d.closed = handle[h].closed
      /\ d.temp = handle[h].temp /\ d.off = 0 /\ d.snapshot = Nil
      /\ d.returned = handle[h].returned
  <2>1. <<>> \in Seq(Files)
    OBVIOUS
  <2> QED BY <1>2, <2>1 DEF HandleType
<1>5. /\ handle[h].closed => d.closed
      /\ d.returned => d.closed
      /\ d.off <= IF d.snapshot = Nil THEN 0 ELSE Len(d.snapshot)
  BY <1>2, <1>4
<1> HIDE DEF d, h
<1> QED BY <1>1, <1>2, <1>3, <1>4, <1>5, NoCallType, NoCallMayUse, HandleStep

\* A page of snapshot s of files, which is the one of the handle if it has one.
LEMMA PageInv ==
    ASSUME IInv, NEW t \in Threads, Using(t), UNCHANGED fileVars,
           NEW s \in Seq(Files), Page(t, s)
    PROVE  IInv'
<1> DEFINE h == call[t].h
           off == handle[h].off
<1>1. PICK count \in Counts :
         IF PageEnd(s, off, count) = -1
         THEN call' = [call EXCEPT ![t].pc = "panic"] /\ UNCHANGED handle
         ELSE /\ handle' = [handle EXCEPT ![h].snapshot = s,
                   ![h].off = PageEnd(s, off, count),
                   ![h].given = @ \o SubSeq(s, off + 1, PageEnd(s, off, count))]
              /\ Return(t)
  BY DEF Page
<1> DEFINE end == PageEnd(s, off, count)
<1>2. /\ TypeOK /\ h \in Handles /\ handle[h] \in HandleType
      /\ handle[h].returned => handle[h].closed
      /\ handle[h].on # Nil /\ Prompt(call[t]) /\ call[t] \in CallType
  BY UsedHandle DEF IInv
<1>3. CASE end = -1
  <2> DEFINE c == [call[t] EXCEPT !.pc = "panic"]
  <2>1. call' = [call EXCEPT ![t] = c]
    BY <1>1, <1>2, <1>3 DEF TypeOK
  <2>2. /\ c \in CallType /\ c.pc = "panic" /\ c.h = h /\ c.f = call[t].f
        /\ c.temp = call[t].temp /\ c.late = call[t].late
        /\ c.op = call[t].op
    BY <1>2 DEF CallType, Steps
  <2>3. MayUse(t, c)
    BY <1>2, <2>2 DEF MayUse
  <2> QED BY <1>1, <1>3, <2>1, <2>2, <2>3, LocalStep
<1>4. CASE end # -1
  <2> DEFINE d == [handle[h] EXCEPT !.snapshot = s, !.off = end,
                     !.given = @ \o SubSeq(s, off + 1, end)]
  <2>1. /\ off \in Nat /\ handle[h].given \in Seq(Files) /\ count \in Nat
        /\ Len(s) \in Nat
    BY <1>2, HandlesAssumption DEF HandleType
  <2>2. end \in Nat /\ off <= end /\ end <= Len(s)
    BY <1>4, <2>1 DEF PageEnd
  <2>3. SubSeq(s, off + 1, end) \in Seq(Files)
    BY <2>1, <2>2
  <2>4. handle[h].given \o SubSeq(s, off + 1, end) \in Seq(Files)
    BY <2>1, <2>3, ConcatProperties
  <2>5. /\ handle' = [handle EXCEPT ![h] = d]
        /\ call' = [call EXCEPT ![t] = NoCall]
    BY <1>1, <1>2, <1>4 DEF Return, TypeOK
  <2> HIDE DEF end
  <2>6. /\ d \in HandleType /\ d.on = handle[h].on
        /\ d.closed = handle[h].closed /\ d.temp = handle[h].temp
        /\ d.off = end /\ d.snapshot = s /\ d.returned = handle[h].returned
    BY <1>2, <2>2, <2>4 DEF HandleType
  <2>7. d.off <= IF d.snapshot = Nil THEN 0 ELSE Len(d.snapshot)
    BY <2>2, <2>6, HandlesAssumption
  <2> HIDE DEF d, h
  <2> QED BY <1>2, <2>5, <2>6, <2>7, NoCallType, NoCallMayUse, HandleStep
<1> QED BY <1>3, <1>4

LEMMA ReaddirInv ==
    ASSUME IInv, NEW t \in Threads, Readdir(t)
    PROVE  IInv'
<1> DEFINE c == call[t]
<1>1. Using(t) /\ c.pc = "inner" /\ c.op = "Readdir" /\ UNCHANGED fileVars
  BY DEF Readdir, Using
<1>2. /\ TypeOK /\ c.h \in Handles /\ handle[c.h] \in HandleType
      /\ handle[c.h].on # Nil /\ Prompt(c) /\ c \in CallType
  BY <1>1, UsedHandle DEF IInv
<1>3. CASE handle[c.h].snapshot # Nil
  <2>1. handle[c.h].snapshot \in Seq(Files)
    BY <1>2, <1>3 DEF HandleType
  <2> QED BY <1>1, <1>3, <2>1, PageInv DEF Readdir
<1>4. CASE handle[c.h].snapshot = Nil
  <2> DEFINE d == [c EXCEPT !.pc = "list"]
  <2>1. call' = [call EXCEPT ![t] = d] /\ UNCHANGED handle
    BY <1>2, <1>4 DEF Readdir, TypeOK
  <2>2. /\ d \in CallType /\ d.pc = "list" /\ d.h = c.h /\ d.f = c.f
        /\ d.temp = c.temp /\ d.late = c.late /\ d.op = c.op
    BY <1>2 DEF CallType, Steps
  <2>3. MayUse(t, d)
    BY <1>2, <2>2 DEF MayUse
  <2> QED BY <1>1, <2>1, <2>2, <2>3, LocalStep
<1> QED BY <1>3, <1>4

LEMMA ListAskInv ==
    ASSUME IInv, NEW t \in Threads, ListAsk(t)
    PROVE  IInv'
<1> DEFINE c == call[t]
           f == entries[c.asked + 1]
<1>1. PICK r \in View(f) :
         /\ Apply(f, r)
         /\ IF r.err # "ok" THEN Return(t)
            ELSE call' = [call EXCEPT ![t].asked = @ + 1]
  BY DEF ListAsk
<1>2. /\ Using(t) /\ c.pc = "list" /\ c.asked < Len(entries)
      /\ UNCHANGED <<entries, known, meta, dropped, handle>>
  BY DEF ListAsk, Using
<1>3. /\ TypeOK /\ c.h \in Handles /\ handle[c.h].on # Nil /\ Prompt(c)
      /\ c \in CallType
  BY <1>2, UsedHandle DEF IInv
<1>4. f \in Files
  BY <1>2, <1>3 DEF TypeOK, CallType
<1>5. CASE Return(t)
  BY <1>1, <1>2, <1>4, <1>5, AskView, NoCallType, NoCallMayUse DEF Return
<1>6. CASE r.err = "ok"
  <2> DEFINE d == [c EXCEPT !.asked = @ + 1]
  <2>1. call' = [call EXCEPT ![t] = d]
    BY <1>1, <1>3, <1>6 DEF TypeOK
  <2>2. /\ d \in CallType /\ d.pc = "list" /\ d.h = c.h /\ d.f = c.f
        /\ d.temp = c.temp /\ d.late = c.late /\ d.op = c.op
    BY <1>2, <1>3 DEF CallType
  <2>3. MayUse(t, d)
    BY <1>3, <2>2 DEF MayUse
  <2> HIDE DEF d, f
  <2> QED BY <1>1, <1>2, <1>4, <2>1, <2>2, <2>3, AskView
<1> QED BY <1>1, <1>5, <1>6

LEMMA ListEndInv ==
    ASSUME IInv, NEW t \in Threads, ListEnd(t)
    PROVE  IInv'
<1>1. Using(t) /\ UNCHANGED fileVars /\ Page(t, entries)
  BY DEF ListEnd, Using
<1>2. entries \in Seq(Files)
  BY DEF IInv, TypeOK
<1> QED BY <1>1, <1>2, PageInv

-----------------------------------------------------------------------------
(***************************************************************************)
(* The theorems.                                                           *)
(***************************************************************************)
LEMMA InitInv == ASSUME Init PROVE IInv
<1>1. NoHandle \in HandleType
  <2>1. <<>> \in Seq(Files)
    OBVIOUS
  <2> QED BY <2>1 DEF NoHandle, HandleType
<1>2. /\ NoHandle.on = Nil /\ NoHandle.temp = Nil /\ ~NoHandle.returned
      /\ NoHandle.off = 0 /\ NoHandle.snapshot = Nil
  BY DEF NoHandle
<1>3. NoCall.pc = "idle" /\ NoCall.temp = Nil /\ Prompt(NoCall)
  BY DEF NoCall
<1>4. TypeOK
  BY <1>1, <1>2, NoCallType DEF Init, TypeOK, MetaType
<1>5. Held
  BY <1>2, <1>3 DEF Init, Held, Using, Reserving
<1>6. Closing
  BY <1>2, <1>3 DEF Init, Closing
<1>7. Apart
  BY <1>2, <1>3, HandlesAssumption DEF Init, Apart, Owns
<1>8. Current
  BY <1>2, <1>3, HandlesAssumption DEF Init, Current, Reserving
<1> QED BY <1>4, <1>5, <1>6, <1>7, <1>8 DEF IInv

LEMMA NextInv == ASSUME IInv, [Next]_vars PROVE IInv'
<1>1. CASE UNCHANGED vars
  BY <1>1 DEF vars, IInv, TypeOK, Held, Closing, Apart, Owns, Current,
              Using, Reserving
<1>2. ASSUME NEW t \in Threads,
             \/ AddFile(t) \/ CreateFile(t) \/ OpenFile(t) \/ ViewOpen(t)
             \/ InitCheck(t) \/ InitStore(t) \/ Link(t) \/ OpenDir(t)
             \/ Chmod(t)
      PROVE  IInv'
  BY <1>2, AddFileInv, CreateFileInv, OpenFileInv, ViewOpenInv, InitCheckInv,
     InitStoreInv, LinkInv, OpenDirInv, ChmodInv
<1>3. ASSUME NEW t \in Threads,
             \/ RemoveClose(t) \/ RemoveUnlink(t) \/ BeforeEach(t)
             \/ SetClosed(t) \/ InnerCall(t) \/ Readdir(t) \/ ListAsk(t)
             \/ ListEnd(t) \/ Seek(t)
      PROVE  IInv'
  BY <1>3, RemoveCloseInv, RemoveUnlinkInv, BeforeEachInv, SetClosedInv,
     InnerCallInv, ReaddirInv, ListAskInv, ListEndInv, SeekInv
<1> QED BY <1>1, <1>2, <1>3 DEF Next

THEOREM Invariance == Spec => []IInv
<1>1. Init => IInv
  BY InitInv
<1>2. IInv /\ [Next]_vars => IInv'
  BY NextInv
<1> QED BY <1>1, <1>2, PTL DEF Spec

(***************************************************************************)
(* Every variable of the handles keeps its type, and the offset of a       *)
(* directory handle never passes the end of its snapshot.                  *)
(***************************************************************************)
THEOREM TypeCorrect == Spec => []TypeOK
<1>1. IInv => TypeOK
  BY DEF IInv
<1> QED BY <1>1, Invariance, PTL

(***************************************************************************)
(* No call made after Close has returned reaches the file inside, but for  *)
(* one of Name, which asks it all the same, however many goroutines close  *)
(* and use the handle at once: the flag is set before the file is closed   *)
(* and is never cleared (closable/file.go).                                *)
(***************************************************************************)
THEOREM ClosedRefuses == Spec => []LateRefused
<1>1. IInv => LateRefused
  BY DEF IInv, Closing, LateRefused
<1> QED BY <1>1, Invariance, PTL

(***************************************************************************)
(* All handles of a file that was not removed are on one temporary file,   *)
(* and no other file has it (impl_tmpdir.go).                              *)
(***************************************************************************)
THEOREM OneTempEach == Spec => []OneTemp
<1>1. ASSUME IInv PROVE OneTemp
  <2>1. ASSUME NEW h \in Handles, handle[h].on \in Files,
               ~dropped[handle[h].on]
        PROVE  handle[h].temp = path[handle[h].on]
    BY <1>1, <2>1 DEF IInv, Current
  <2>2. ASSUME NEW h \in Handles, NEW k \in Handles,
               handle[h].temp = handle[k].temp, handle[h].temp # Nil
        PROVE  handle[h].on = handle[k].on
    <3>1. /\ handle[h].on \in Files /\ handle[k].on \in Files
          /\ handle[h].temp \in Temps
      BY <1>1, <2>2 DEF IInv, TypeOK, HandleType, Current
    <3>2. /\ Owns(handle[h].on, handle[h].temp)
          /\ Owns(handle[k].on, handle[h].temp)
      BY <2>2 DEF Owns
    <3> QED BY <1>1, <3>1, <3>2 DEF IInv, Apart
  <2> QED BY <2>1, <2>2 DEF OneTemp
<1> QED BY <1>1, Invariance, PTL

(***************************************************************************)
(* Once a file is initialised, the mode a Chmod gave it is not undone by   *)
(* an Open that found it uninitialised before (file.go:64-94).             *)
(***************************************************************************)
THEOREM ModeIsKept == Spec => ModeKept
<1> DEFINE Kept == \A f \in Files : meta[f].initialized =>
                      /\ meta'[f].initialized
                      /\ meta[f].mode = "chmod" => meta'[f].mode = "chmod"
<1>1. ASSUME IInv, [Next]_vars PROVE Kept \/ UNCHANGED vars
  <2>1. CASE UNCHANGED meta
    BY <2>1
  <2>2. meta \in [Files -> MetaType]
    BY <1>1 DEF IInv, TypeOK
  <2>3. ASSUME NEW t \in Threads, NEW f \in Files \ known, NEW c,
               NewFile(t, f, c)
        PROVE  Kept
    BY <1>1, <2>2, <2>3 DEF IInv, Held, NewFile
  <2>4. ASSUME NEW t \in Threads, AddFile(t) \/ CreateFile(t)
        PROVE  Kept
    BY <2>3, <2>4 DEF AddFile, CreateFile
  <2>5. ASSUME NEW t \in Threads, InitStore(t)
        PROVE  Kept
    BY <2>2, <2>5 DEF InitStore
  <2>6. ASSUME NEW t \in Threads, Chmod(t)
        PROVE  Kept
    BY <2>2, <2>6 DEF Chmod, MetaType
  <2>7. ASSUME NEW t \in Threads,
               \/ OpenFile(t) \/ ViewOpen(t) \/ InitCheck(t) \/ Link(t)
               \/ OpenDir(t) \/ RemoveClose(t) \/ RemoveUnlink(t)
               \/ BeforeEach(t) \/ SetClosed(t) \/ InnerCall(t)
               \/ Readdir(t) \/ ListAsk(t) \/ ListEnd(t) \/ Seek(t)
        PROVE  UNCHANGED meta
    BY <2>7 DEF OpenFile, ViewOpen, InitCheck, Link, OpenDir, RemoveClose,
                RemoveUnlink, BeforeEach, SetClosed, InnerCall, Readdir,
                ListAsk, ListEnd, Seek, fileVars
  <2>8. CASE UNCHANGED vars
    BY <2>8
  <2> QED BY <1>1, <2>1, <2>4, <2>5, <2>6, <2>7, <2>8 DEF Next
<1>2. IInv /\ [Next]_vars => [Kept]_vars
  BY <1>1
<1> QED BY <1>2, Invariance, PTL DEF Spec, ModeKept

-----------------------------------------------------------------------------
(***************************************************************************)
(* The pages of a listing: the inductive invariant, on top of IInv.        *)
(***************************************************************************)
\* an operation that will add its file to the directory
Creating(t) ==
    call[t].pc \in {"open", "init", "store", "link"} /\ call[t].op # "open"

\* every file is in the directory once, or is about to be added by one
Once ==
    /\ Injective(entries)
    /\ \A t \in Threads : Creating(t) =>
          \A i \in DOMAIN entries : entries[i] # call[t].f
    /\ \A t, u \in Threads : Creating(t) /\ Creating(u) /\ t # u =>
          call[t].f # call[u].f

\* what the pages of a handle are of
Pages(d) ==
    /\ d.given = IF d.snapshot = Nil THEN <<>>
                 ELSE SubSeq(d.snapshot, 1, d.off)
    /\ d.snapshot # Nil => Injective(d.snapshot)

\* a snapshot is made by one operation, for a handle that has none
Snapshots ==
    /\ \A h \in Handles : Pages(handle[h])
    /\ \A t \in Threads : call[t].pc = "list" =>
          handle[call[t].h].snapshot = Nil
    /\ \A t, u \in Threads :
          call[t].pc = "list" /\ call[u].pc = "list" /\ t # u =>
              call[t].h # call[u].h
    /\ \A t \in Threads : call[t].pc # "panic"

PInv == IInv /\ Once /\ Snapshots

-----------------------------------------------------------------------------
(***************************************************************************)
(* Steps of operation t.                                                   *)
(***************************************************************************)
Others(t) == \A u \in Threads : u # t => call'[u] = call[u]

\* One that adds nothing to the directory.
LEMMA OnceGoesOn ==
    ASSUME Once, NEW t \in Threads, Others(t), Injective(entries'),
           \A i \in DOMAIN entries' :
              \E j \in DOMAIN entries : entries[j] = entries'[i],
           Creating(t)' => Creating(t) /\ call'[t].f = call[t].f
    PROVE  Once'
<1>1. \A u \in Threads :
         Creating(u)' => Creating(u) /\ call'[u].f = call[u].f
  BY DEF Others, Creating
<1> QED BY <1>1 DEF Once

\* One that lists nothing after it, and leaves no snapshot in a handle that
\* another operation lists.
LEMMA SnapshotsGoOn ==
    ASSUME Snapshots, NEW t \in Threads, Others(t),
           \A h \in Handles : Pages(handle'[h]),
           \A u \in Threads : u # t /\ call[u].pc = "list" =>
              handle'[call[u].h].snapshot = Nil,
           call'[t].pc \notin {"list", "panic"}
    PROVE  Snapshots'
  BY DEF Snapshots, Others, Pages

\* One that concerns neither the entries nor a snapshot.
Quiet(t) ==
    /\ Others(t)
    /\ entries' = entries
    /\ \A h \in Handles :
          /\ handle'[h].snapshot = handle[h].snapshot
          /\ handle'[h].off = handle[h].off
          /\ handle'[h].given = handle[h].given
    /\ Creating(t)' => Creating(t) /\ call'[t].f = call[t].f
    /\ call'[t].pc # "panic"
    /\ call'[t].pc = "list" => call[t].pc = "list" /\ call'[t].h = call[t].h

LEMMA QuietStep ==
    ASSUME PInv, NEW t \in Threads, Quiet(t)
    PROVE  Once' /\ Snapshots'
<1>1. Once'
  BY OnceGoesOn DEF PInv, Quiet, Once
<1>2. \A u \in Threads : call[u].pc = "list" => call[u].h \in Handles
  BY DEF PInv, IInv, Held, Using
<1>3. \A h \in Handles : Pages(handle'[h])
  BY DEF PInv, Snapshots, Quiet, Pages
<1>4. \A u \in Threads :
         /\ call'[u].pc # "panic"
         /\ call'[u].pc = "list" =>
               call[u].pc = "list" /\ call'[u].h = call[u].h
  BY DEF PInv, Snapshots, Quiet, Others
<1> QED BY <1>1, <1>2, <1>3, <1>4 DEF PInv, Snapshots, Quiet, Pages

\* One that returns, and concerns neither.
LEMMA QuietReturn ==
    ASSUME PInv, NEW t \in Threads, Return(t), entries' = entries,
           \A h \in Handles :
              /\ handle'[h].snapshot = handle[h].snapshot
              /\ handle'[h].off = handle[h].off
              /\ handle'[h].given = handle[h].given
    PROVE  Quiet(t)
<1>1. call' = [call EXCEPT ![t] = NoCall] /\ call \in [Threads -> CallType]
  BY DEF Return, PInv, IInv, TypeOK
<1>2. Others(t) /\ call'[t] = NoCall /\ NoCall.pc = "idle"
  BY <1>1 DEF Others, NoCall
<1> QED BY <1>2 DEF Quiet, Creating

\* One after which the operation is c.
LEMMA QuietGoesOn ==
    ASSUME PInv, NEW t \in Threads, NEW c \in CallType,
           call' = [call EXCEPT ![t] = c], entries' = entries,
           \A h \in Handles :
              /\ handle'[h].snapshot = handle[h].snapshot
              /\ handle'[h].off = handle[h].off
              /\ handle'[h].given = handle[h].given,
           c.pc \in {"open", "init", "store", "link"} /\ c.op # "open" =>
              Creating(t) /\ c.f = call[t].f,
           c.pc # "panic",
           c.pc = "list" => call[t].pc = "list" /\ c.h = call[t].h
    PROVE  Quiet(t)
<1>1. call \in [Threads -> CallType]
  BY DEF PInv, IInv, TypeOK
<1>2. Others(t) /\ call'[t] = c
  BY <1>1 DEF Others
<1> QED BY <1>2 DEF Quiet, Creating

-----------------------------------------------------------------------------
(***************************************************************************)
(* The actions that are quiet.                                             *)
(***************************************************************************)
LEMMA OpenFileQuiet ==
    ASSUME PInv, NEW t \in Threads, OpenFile(t)
    PROVE  Quiet(t)
<1>1. entries' = entries /\ UNCHANGED handle
  BY DEF OpenFile, fileVars
<1>2. CASE Return(t)
  BY <1>1, <1>2, QuietReturn
<1>3. CASE ~Return(t)
  <2>1. PICK f \in ToSet(entries) : \E h \in FreeHandles :
           call' = [call EXCEPT ![t] = [NoCall EXCEPT
                      !.pc = "open", !.op = "open", !.f = f, !.h = h]]
    BY <1>3 DEF OpenFile
  <2>2. PICK h \in FreeHandles :
           call' = [call EXCEPT ![t] = [NoCall EXCEPT
                      !.pc = "open", !.op = "open", !.f = f, !.h = h]]
    BY <2>1
  <2> DEFINE c == [NoCall EXCEPT !.pc = "open", !.op = "open",
                                 !.f = f, !.h = h]
  <2>3. f \in Files /\ h \in Handles
    BY DEF ToSet, FreeHandles, PInv, IInv, TypeOK
  <2>4. c \in CallType /\ c.pc = "open" /\ c.op = "open"
    BY <2>3, NoCallType DEF CallType, Steps, Ops, Methods
  <2>5. call' = [call EXCEPT ![t] = c]
    BY <2>2
  <2> HIDE DEF c
  <2> QED BY <1>1, <2>4, <2>5, QuietGoesOn
<1> QED BY <1>2, <1>3

LEMMA OpeningQuiet ==
    ASSUME PInv, NEW t \in Threads,
           ViewOpen(t) \/ InitCheck(t) \/ InitStore(t)
    PROVE  Quiet(t)
<1> DEFINE c == call[t]
<1>1. /\ c.pc \in {"open", "init", "store"}
      /\ entries' = entries /\ UNCHANGED handle
  BY DEF ViewOpen, InitCheck, InitStore, fileVars
<1>2. c \in CallType /\ call \in [Threads -> CallType]
  BY DEF PInv, IInv, TypeOK
<1>3. CASE Return(t)
  BY <1>1, <1>3, QuietReturn
<1>4. CASE ~Return(t)
  <2>1. /\ Others(t) /\ call'[t].pc \in {"init", "store", "link"}
        /\ call'[t].op = c.op /\ call'[t].f = c.f
    <3>1. CASE ViewOpen(t)
      BY <1>2, <1>4, <3>1 DEF ViewOpen, CallType, Others
    <3>2. CASE InitCheck(t)
      BY <1>2, <1>4, <3>2 DEF InitCheck, CallType, Others
    <3>3. CASE InitStore(t)
      BY <1>2, <1>4, <3>3 DEF InitStore, CallType, Others
    <3> QED BY <3>1, <3>2, <3>3
  <2> QED BY <1>1, <2>1 DEF Quiet, Creating
<1> QED BY <1>3, <1>4

LEMMA OpenDirQuiet ==
    ASSUME PInv, NEW t \in Threads, OpenDir(t)
    PROVE  Quiet(t)
<1>1. /\ Return(t) /\ entries' = entries
      /\ \E h \in FreeHandles : handle' = [handle EXCEPT ![h].on = Dir]
  BY DEF OpenDir, fileVars
<1>2. PICK h \in FreeHandles : handle' = [handle EXCEPT ![h].on = Dir]
  BY <1>1
<1>3. handle \in [Handles -> HandleType]
  BY DEF PInv, IInv, TypeOK
<1>4. \A k \in Handles :
         /\ handle'[k].snapshot = handle[k].snapshot
         /\ handle'[k].off = handle[k].off
         /\ handle'[k].given = handle[k].given
  BY <1>2, <1>3 DEF HandleType
<1> QED BY <1>1, <1>4, QuietReturn

LEMMA ChmodQuiet ==
    ASSUME PInv, NEW t \in Threads, Chmod(t)
    PROVE  Quiet(t)
<1>1. Return(t) /\ entries' = entries /\ UNCHANGED handle
  BY DEF Chmod
<1> QED BY <1>1, QuietReturn

LEMMA RemoveCloseQuiet ==
    ASSUME PInv, NEW t \in Threads, RemoveClose(t)
    PROVE  Quiet(t)
<1>1. PICK f \in ToSet(entries) :
         call' = [call EXCEPT ![t] = [NoCall EXCEPT !.pc = "unlink",
                                              !.op = "remove", !.f = f]]
  BY DEF RemoveClose
<1>2. entries' = entries /\ UNCHANGED handle
  BY DEF RemoveClose
<1> DEFINE c == [NoCall EXCEPT !.pc = "unlink", !.op = "remove", !.f = f]
<1>3. f \in Files
  BY DEF ToSet, PInv, IInv, TypeOK
<1>4. c \in CallType /\ c.pc = "unlink"
  BY <1>3, NoCallType DEF CallType, Steps, Ops, Methods
<1>5. call' = [call EXCEPT ![t] = c]
  BY <1>1
<1> HIDE DEF c
<1> QED BY <1>2, <1>4, <1>5, QuietGoesOn

LEMMA BeforeEachQuiet ==
    ASSUME PInv, NEW t \in Threads, BeforeEach(t)
    PROVE  Quiet(t)
<1>1. entries' = entries /\ UNCHANGED handle
  BY DEF BeforeEach, fileVars
<1>2. CASE Return(t)
  BY <1>1, <1>2, QuietReturn
<1>3. CASE ~Return(t)
  <2>1. PICK h \in Handles, op \in Methods :
           call' = [call EXCEPT ![t] =
             [NoCall EXCEPT !.pc = IF op = "Close" THEN "close" ELSE "inner",
                            !.op = op, !.h = h, !.late = handle[h].returned]]
    BY <1>3 DEF BeforeEach
  <2> DEFINE c == [NoCall EXCEPT
                     !.pc = IF op = "Close" THEN "close" ELSE "inner",
                     !.op = op, !.h = h, !.late = handle[h].returned]
  <2>2. handle[h].returned \in BOOLEAN
    BY DEF PInv, IInv, TypeOK, HandleType
  <2>3. c \in CallType /\ c.pc \in {"close", "inner"}
    BY <2>2, NoCallType DEF CallType, Steps, Ops, Methods
  <2>4. call' = [call EXCEPT ![t] = c]
    BY <2>1
  <2> HIDE DEF c
  <2> QED BY <1>1, <2>3, <2>4, QuietGoesOn
<1> QED BY <1>2, <1>3

LEMMA ClosingQuiet ==
    ASSUME PInv, NEW t \in Threads, SetClosed(t) \/ InnerCall(t)
    PROVE  Quiet(t)
<1>1. /\ call[t] \in CallType /\ call \in [Threads -> CallType]
      /\ handle \in [Handles -> HandleType] /\ entries' = entries
  BY DEF SetClosed, InnerCall, fileVars, PInv, IInv, TypeOK
<1>2. \A k \in Handles :
         /\ handle'[k].snapshot = handle[k].snapshot
         /\ handle'[k].off = handle[k].off
         /\ handle'[k].given = handle[k].given
  <2>1. CASE SetClosed(t)
    BY <1>1, <2>1 DEF SetClosed, HandleType
  <2>2. CASE InnerCall(t)
    <3> DEFINE h == call[t].h
               d == [handle[h] EXCEPT !.returned = @ \/ call[t].op = "Close"]
    <3>1. handle' = [handle EXCEPT ![h] = d]
      BY <1>1, <2>2 DEF InnerCall
    <3>2. ASSUME h \in Handles
          PROVE  /\ d.snapshot = handle[h].snapshot
                 /\ d.off = handle[h].off /\ d.given = handle[h].given
      BY <1>1, <3>2 DEF HandleType
    <3> HIDE DEF d
    <3> QED BY <1>1, <3>1, <3>2
  <2> QED BY <2>1, <2>2
<1>3. CASE Return(t)
  BY <1>1, <1>2, <1>3, QuietReturn
<1>4. CASE ~Return(t)
  <2>1. Others(t) /\ call'[t].pc = "inner"
    BY <1>1, <1>4 DEF SetClosed, InnerCall, Others, CallType
  <2> QED BY <1>1, <1>2, <2>1 DEF Quiet, Creating
<1> QED BY <1>3, <1>4

LEMMA ListAskQuiet ==
    ASSUME PInv, NEW t \in Threads, ListAsk(t)
    PROVE  Quiet(t)
<1>1. /\ call[t] \in CallType /\ call \in [Threads -> CallType]
      /\ call[t].pc = "list" /\ entries' = entries /\ UNCHANGED handle
  BY DEF ListAsk, PInv, IInv, TypeOK
<1>2. CASE Return(t)
  BY <1>1, <1>2, QuietReturn
<1>3. CASE ~Return(t)
  <2>1. /\ Others(t) /\ call'[t].pc = "list" /\ call'[t].h = call[t].h
        /\ call'[t].op = call[t].op
    BY <1>1, <1>3 DEF ListAsk, Others, CallType
  <2> QED BY <1>1, <2>1 DEF Quiet, Creating
<1> QED BY <1>2, <1>3

-----------------------------------------------------------------------------
(***************************************************************************)
(* Those that are not.  A new file is in no directory yet.                 *)
(***************************************************************************)
LEMMA NewFileOnce ==
    ASSUME PInv, NEW t \in Threads, NEW f \in Files \ known,
           NEW c \in CallType, c.f = f, c.pc \notin {"list", "panic"},
           NewFile(t, f, c)
    PROVE  Once' /\ Snapshots'
<1>1. /\ entries' = entries /\ UNCHANGED handle
      /\ \/ call' = [call EXCEPT ![t] = c]
         \/ call' = [call EXCEPT ![t] = NoCall]
  BY DEF NewFile
<1>2. /\ call \in [Threads -> CallType] /\ entries \in Seq(known)
      /\ \A u \in Threads : Creating(u) => call[u].f \in known
  BY DEF PInv, IInv, TypeOK, Held, Creating
<1>3. Others(t)
  BY <1>1, <1>2 DEF Others
<1>4. CASE call' = [call EXCEPT ![t] = c]
  <2>1. call'[t] = c
    BY <1>2, <1>4
  <2>2. \A i \in DOMAIN entries : entries[i] # f
    BY <1>2
  <2>3. \A u \in Threads : u # t =>
           (Creating(u)' <=> Creating(u)) /\ call'[u].f = call[u].f
    BY <1>3 DEF Others, Creating
  <2>4. Once'
    BY <1>1, <1>2, <2>1, <2>2, <2>3 DEF PInv, Once
  <2>5. Snapshots'
    BY <1>1, <1>3, <2>1, SnapshotsGoOn DEF PInv, Snapshots
  <2> QED BY <2>4, <2>5
<1>5. CASE call' = [call EXCEPT ![t] = NoCall]
  <2>1. Return(t)
    BY <1>5 DEF Return
  <2> QED BY <1>1, <2>1, QuietReturn, QuietStep
<1> QED BY <1>1, <1>4, <1>5

LEMMA AddFileOnce ==
    ASSUME PInv, NEW t \in Threads, AddFile(t)
    PROVE  Once' /\ Snapshots'
<1>1. PICK f \in Files \ known :
         NewFile(t, f, [NoCall EXCEPT !.pc = "link", !.op = "add", !.f = f])
  BY DEF AddFile
<1> DEFINE c == [NoCall EXCEPT !.pc = "link", !.op = "add", !.f = f]
<1>2. c \in CallType /\ c.f = f /\ c.pc = "link"
  BY NoCallType DEF CallType, Steps, Ops, Methods
<1>3. NewFile(t, f, c)
  BY <1>1
<1> HIDE DEF c
<1> QED BY <1>2, <1>3, NewFileOnce

LEMMA CreateFileOnce ==
    ASSUME PInv, NEW t \in Threads, CreateFile(t)
    PROVE  Once' /\ Snapshots'
<1>1. PICK f \in Files \ known, h \in FreeHandles :
         NewFile(t, f, [NoCall EXCEPT !.pc = "open", !.op = "create",
                                      !.f = f, !.h = h])
  BY DEF CreateFile
<1> DEFINE c == [NoCall EXCEPT !.pc = "open", !.op = "create",
                               !.f = f, !.h = h]
<1>2. c \in CallType /\ c.f = f /\ c.pc = "open"
  BY NoCallType DEF CallType, Steps, Ops, Methods, FreeHandles
<1>3. NewFile(t, f, c)
  BY <1>1
<1> HIDE DEF c
<1> QED BY <1>2, <1>3, NewFileOnce

\* The file that is added leaves the operation that created it, and the handle
\* that is filled was in use by nobody.
LEMMA LinkOnce ==
    ASSUME PInv, NEW t \in Threads, Link(t)
    PROVE  Once' /\ Snapshots'
<1> DEFINE c == call[t]
           d == [NoHandle EXCEPT !.on = c.f, !.temp = c.temp]
<1>1. /\ c.pc = "link"
      /\ entries' = IF c.op = "open" THEN entries ELSE Append(entries, c.f)
      /\ handle' = IF c.op = "add" THEN handle
                   ELSE [handle EXCEPT ![c.h] = d]
      /\ call' = [call EXCEPT ![t] = NoCall]
  BY DEF Link, Return
<1>2. /\ call \in [Threads -> CallType] /\ entries \in Seq(known)
      /\ handle \in [Handles -> HandleType] /\ c.f \in known
  BY <1>1 DEF PInv, IInv, TypeOK, Held
<1>3. Others(t) /\ call'[t].pc = "idle"
  BY <1>1, <1>2 DEF Others, NoCall
<1>4. Once'
  <2>1. CASE c.op = "open"
    BY <1>1, <1>3, <2>1, OnceGoesOn DEF PInv, Once, Creating
  <2>2. CASE c.op # "open"
    <3>1. Creating(t)
      BY <1>1, <2>2 DEF Creating
    <3>2. /\ DOMAIN entries = 1 .. Len(entries) /\ Len(entries) \in Nat
          /\ DOMAIN entries' = 1 .. Len(entries) + 1
          /\ \A i \in 1 .. Len(entries) : entries'[i] = entries[i]
          /\ entries'[Len(entries) + 1] = c.f
      BY <1>1, <1>2, <2>2
    <3>3. Injective(entries')
      BY <3>1, <3>2 DEF PInv, Once, Injective
    <3>4. \A u \in Threads : Creating(u)' =>
             u # t /\ Creating(u) /\ call'[u].f = call[u].f
      BY <1>3 DEF Others, Creating
    <3> HIDE DEF c
    <3>5. \A u \in Threads : u # t /\ Creating(u) => call[u].f # c.f
      BY <3>1 DEF PInv, Once, c
    <3> QED BY <3>2, <3>3, <3>4, <3>5 DEF PInv, Once
  <2> QED BY <2>1, <2>2
<1>5. d.snapshot = Nil /\ d.given = <<>> /\ Pages(d)
  BY DEF NoHandle, Pages
<1>6. \A h \in Handles : Pages(handle'[h])
  <2> HIDE DEF d
  <2> QED BY <1>1, <1>2, <1>5 DEF PInv, Snapshots
<1>7. \A u \in Threads : call[u].pc = "list" =>
         /\ call[u].h \in Handles
         /\ handle[call[u].h].snapshot = Nil
  BY DEF PInv, IInv, Held, Using, Snapshots
<1>8. \A h \in Handles : handle[h].snapshot = Nil =>
         handle'[h].snapshot = Nil
  <2> HIDE DEF d
  <2> QED BY <1>1, <1>2, <1>5
<1>9. Snapshots'
  BY <1>3, <1>6, <1>7, <1>8, SnapshotsGoOn DEF PInv
<1> QED BY <1>4, <1>9

LEMMA RemoveUnlinkOnce ==
    ASSUME PInv, NEW t \in Threads, RemoveUnlink(t)
    PROVE  Once' /\ Snapshots'
<1>1. /\ entries' = Unlist(entries, call[t].f) /\ UNCHANGED handle
      /\ call' = [call EXCEPT ![t] = NoCall]
  BY DEF RemoveUnlink, Return
<1>2. call \in [Threads -> CallType] /\ entries \in Seq(known)
      /\ Injective(entries)
  BY DEF PInv, IInv, TypeOK, Once
<1>3. Others(t) /\ call'[t].pc = "idle"
  BY <1>1, <1>2 DEF Others, NoCall
<1>4. /\ Injective(entries')
      /\ \A i \in DOMAIN entries' :
            \E j \in DOMAIN entries : entries[j] = entries'[i]
  BY <1>1, <1>2, UnlistElements
<1>5. Once'
  BY <1>3, <1>4, OnceGoesOn DEF PInv, Creating
<1>6. Snapshots'
  BY <1>1, <1>3, SnapshotsGoOn DEF PInv, Snapshots
<1> QED BY <1>5, <1>6

-----------------------------------------------------------------------------
(***************************************************************************)
(* Readdir and Seek, which have the mutex of the handle: nobody else makes *)
(* its snapshot.                                                           *)
(***************************************************************************)
\* One that returns and leaves d in its handle.
LEMMA OwnHandle ==
    ASSUME PInv, NEW t \in Threads, Using(t), Return(t), entries' = entries,
           NEW d, handle' = [handle EXCEPT ![call[t].h] = d], Pages(d),
           \A u \in Threads : u # t /\ call[u].pc = "list" =>
              call[u].h # call[t].h
    PROVE  Once' /\ Snapshots'
<1>1. /\ call \in [Threads -> CallType] /\ handle \in [Handles -> HandleType]
      /\ call[t].h \in Handles
  BY UsedHandle DEF PInv, IInv, TypeOK
<1>2. Others(t) /\ call'[t].pc = "idle"
  BY <1>1 DEF Return, Others, NoCall
<1>3. Once'
  BY <1>2, OnceGoesOn DEF PInv, Once, Creating
<1>4. \A h \in Handles : Pages(handle'[h])
  BY <1>1 DEF PInv, Snapshots
<1>5. \A u \in Threads : u # t /\ call[u].pc = "list" =>
         handle'[call[u].h].snapshot = Nil
  BY <1>1, UsedHandle DEF PInv, Snapshots, Using
<1>6. Snapshots'
  BY <1>2, <1>4, <1>5, SnapshotsGoOn DEF PInv
<1> QED BY <1>3, <1>6

LEMMA SeekOnce ==
    ASSUME PInv, NEW t \in Threads, Seek(t)
    PROVE  Once' /\ Snapshots'
<1> DEFINE h == call[t].h
           d == [handle[h] EXCEPT !.snapshot = Nil, !.off = 0, !.given = <<>>]
<1>1. /\ Using(t) /\ Return(t) /\ entries' = entries
      /\ \A u \in Threads : u # t /\ call[u].pc = "list" => call[u].h # h
  BY DEF Seek, Using, fileVars, HandleFree
<1>2. h \in Handles /\ handle[h] \in HandleType
      /\ handle \in [Handles -> HandleType]
  BY <1>1, UsedHandle DEF PInv, IInv, TypeOK
<1>3. handle' = [handle EXCEPT ![h] = d]
  BY <1>2 DEF Seek
<1>4. Pages(d)
  <2>1. d.snapshot = Nil /\ d.given = <<>>
    BY <1>2 DEF HandleType
  <2> HIDE DEF d
  <2> QED BY <2>1 DEF Pages
<1> HIDE DEF d
<1> QED BY <1>1, <1>3, <1>4, OwnHandle

\* A page of snapshot s ends where the next one begins.
LEMMA PageOnce ==
    ASSUME PInv, NEW t \in Threads, Using(t), entries' = entries,
           NEW s \in Seq(Files), Injective(s), Page(t, s),
           \/ handle[call[t].h].snapshot = s
           \/ handle[call[t].h].snapshot = Nil,
           \A u \in Threads : u # t /\ call[u].pc = "list" =>
              call[u].h # call[t].h
    PROVE  Once' /\ Snapshots'
<1> DEFINE h == call[t].h
           off == handle[h].off
<1>1. /\ h \in Handles /\ handle[h] \in HandleType /\ Pages(handle[h])
      /\ handle \in [Handles -> HandleType]
      /\ off <= IF handle[h].snapshot = Nil THEN 0
                ELSE Len(handle[h].snapshot)
  BY UsedHandle DEF PInv, IInv, TypeOK, Snapshots
<1>2. off \in Nat /\ Len(s) \in Nat /\ s # Nil /\ off <= Len(s)
  BY <1>1, HandlesAssumption DEF HandleType
<1>3. handle[h].given = SubSeq(s, 1, off)
  <2>1. CASE handle[h].snapshot = s
    BY <1>1, <1>2, <2>1 DEF Pages
  <2>2. CASE handle[h].snapshot = Nil
    <3>1. handle[h].given = <<>> /\ off = 0
      BY <1>1, <1>2, <2>2 DEF Pages
    <3> QED BY <3>1, SubSeqEmpty
  <2> QED BY <2>1, <2>2
<1>4. PICK count \in Counts :
         IF PageEnd(s, off, count) = -1
         THEN call' = [call EXCEPT ![t].pc = "panic"] /\ UNCHANGED handle
         ELSE /\ handle' = [handle EXCEPT ![h].snapshot = s,
                   ![h].off = PageEnd(s, off, count),
                   ![h].given = @ \o SubSeq(s, off + 1, PageEnd(s, off, count))]
              /\ Return(t)
  BY DEF Page
<1> DEFINE end == PageEnd(s, off, count)
           d == [handle[h] EXCEPT !.snapshot = s, !.off = end,
                     !.given = @ \o SubSeq(s, off + 1, end)]
<1>5. end \in Nat /\ off <= end /\ end <= Len(s)
  BY <1>2, HandlesAssumption DEF PageEnd
<1>6. handle' = [handle EXCEPT ![h] = d] /\ Return(t)
  <2>1. end # -1
    BY <1>5
  <2>2. /\ Return(t)
        /\ handle' = [handle EXCEPT ![h].snapshot = s, ![h].off = end,
                        ![h].given = @ \o SubSeq(s, off + 1, end)]
    BY <1>4, <2>1
  <2> HIDE DEF end
  <2> QED BY <1>1, <2>2
<1> HIDE DEF end
<1>7. Pages(d)
  <2>1. /\ d.snapshot = s /\ d.off = end
        /\ d.given = SubSeq(s, 1, off) \o SubSeq(s, off + 1, end)
    BY <1>1, <1>3 DEF HandleType
  <2>2. 1 \in 1 .. Len(s) + 1 /\ off \in 1 - 1 .. Len(s)
        /\ end \in off .. Len(s)
    BY <1>2, <1>5
  <2>3. d.given = SubSeq(s, 1, end)
    BY ZenonT(40), <2>1, <2>2, ConcatAdjacentSubSeq
  <2> HIDE DEF d
  <2> QED BY <1>2, <2>1, <2>3 DEF Pages
<1> HIDE DEF d
<1> QED BY <1>6, <1>7, OwnHandle

LEMMA ReaddirOnce ==
    ASSUME PInv, NEW t \in Threads, Readdir(t)
    PROVE  Once' /\ Snapshots'
<1> DEFINE c == call[t]
           h == c.h
<1>1. /\ Using(t) /\ c.pc = "inner" /\ entries' = entries
      /\ \A u \in Threads : u # t /\ call[u].pc = "list" => call[u].h # h
  BY DEF Readdir, Using, fileVars, HandleFree
<1>2. /\ h \in Handles /\ handle[h] \in HandleType
      /\ c \in CallType /\ call \in [Threads -> CallType]
  BY <1>1, UsedHandle DEF PInv, IInv, TypeOK
<1>3. CASE handle[h].snapshot # Nil
  <2>1. handle[h].snapshot \in Seq(Files) /\ Injective(handle[h].snapshot)
    BY <1>2, <1>3 DEF HandleType, PInv, Snapshots, Pages
  <2> QED BY <1>1, <1>3, <2>1, PageOnce DEF Readdir
<1>4. CASE handle[h].snapshot = Nil
  <2>1. call' = [call EXCEPT ![t].pc = "list"] /\ UNCHANGED handle
    BY <1>4 DEF Readdir
  <2>2. Others(t) /\ call'[t].pc = "list" /\ call'[t].h = h
    BY <1>2, <2>1 DEF Others, CallType
  <2>3. Once'
    <3>1. call'[t].op = c.op /\ call'[t].f = c.f
      BY <1>2, <2>1 DEF CallType
    <3> QED BY <1>1, <2>2, <3>1, OnceGoesOn DEF PInv, Once, Creating
  <2>4. \A u \in Threads : u # t => call'[u] = call[u]
    BY <2>2 DEF Others
  <2> HIDE DEF c, h
  <2>5. Snapshots'
    BY <1>1, <1>4, <2>1, <2>2, <2>4 DEF PInv, Snapshots, Pages
  <2> QED BY <2>3, <2>5
<1> QED BY <1>3, <1>4

LEMMA ListEndOnce ==
    ASSUME PInv, NEW t \in Threads, ListEnd(t)
    PROVE  Once' /\ Snapshots'
<1>1. /\ Using(t) /\ call[t].pc = "list" /\ entries' = entries
      /\ Page(t, entries)
  BY DEF ListEnd, Using, fileVars
<1>2. /\ entries \in Seq(Files) /\ Injective(entries)
      /\ handle[call[t].h].snapshot = Nil
      /\ \A u \in Threads : u # t /\ call[u].pc = "list" =>
            call[u].h # call[t].h
  BY <1>1 DEF PInv, IInv, TypeOK, Once, Snapshots
<1> QED BY <1>1, <1>2, PageOnce

-----------------------------------------------------------------------------
(***************************************************************************)
(* The theorem.                                                            *)
(***************************************************************************)
LEMMA InitPages == ASSUME Init PROVE PInv
<1>1. /\ NoHandle.given = <<>> /\ NoHandle.snapshot = Nil
      /\ NoCall.pc = "idle"
  BY DEF NoHandle, NoCall
<1>2. Injective(<<>>)
  BY DEF Injective
<1>3. Once
  BY <1>1, <1>2 DEF Init, Once, Creating
<1>4. Snapshots
  BY <1>1 DEF Init, Snapshots, Pages
<1> QED BY <1>3, <1>4, InitInv DEF PInv

LEMMA NextPages == ASSUME PInv, [Next]_vars PROVE PInv'
<1>1. ASSUME UNCHANGED vars PROVE Once' /\ Snapshots'
  BY <1>1 DEF vars, PInv, Once, Creating, Snapshots, Pages
<1>2. ASSUME NEW t \in Threads,
             \/ AddFile(t) \/ CreateFile(t) \/ Link(t) \/ RemoveUnlink(t)
             \/ Readdir(t) \/ ListEnd(t) \/ Seek(t)
      PROVE  Once' /\ Snapshots'
  BY <1>2, AddFileOnce, CreateFileOnce, LinkOnce, RemoveUnlinkOnce,
     ReaddirOnce, ListEndOnce, SeekOnce
<1>3. ASSUME NEW t \in Threads,
             \/ OpenFile(t) \/ ViewOpen(t) \/ InitCheck(t) \/ InitStore(t)
             \/ OpenDir(t) \/ Chmod(t) \/ RemoveClose(t) \/ BeforeEach(t)
             \/ SetClosed(t) \/ InnerCall(t) \/ ListAsk(t)
      PROVE  Once' /\ Snapshots'
  <2>1. Quiet(t)
    BY <1>3, OpenFileQuiet, OpeningQuiet, OpenDirQuiet, ChmodQuiet,
       RemoveCloseQuiet, BeforeEachQuiet, ClosingQuiet, ListAskQuiet
  <2> QED BY <2>1, QuietStep
<1>4. IInv'
  BY NextInv DEF PInv
<1>5. Once' /\ Snapshots'
  BY <1>1, <1>2, <1>3 DEF Next, PInv
<1> QED BY <1>4, <1>5 DEF PInv

(***************************************************************************)
(* The pages of Readdir since the last Seek are one snapshot of the        *)
(* directory up to the offset, without an entry twice, and slicing it      *)
(* never panics, however many goroutines list, seek, create and remove     *)
(* (dir_handle.go:42-69).                                                  *)
(***************************************************************************)
THEOREM PagesStayInOrder == Spec => []PagesInOrder
<1>1. ASSUME PInv PROVE PagesInOrder
  <2>1. ASSUME NEW h \in Handles
        PROVE  LET d == handle[h] IN
               /\ d.given = (IF d.snapshot = Nil THEN <<>>
                             ELSE SubSeq(d.snapshot, 1, d.off))
               /\ \A i, j \in DOMAIN d.given : d.given[i] = d.given[j] => i = j
    <3> DEFINE s == handle[h].snapshot
               off == handle[h].off
    <3>1. Pages(handle[h])
      BY <1>1 DEF PInv, Snapshots
    <3>2. CASE s = Nil
      BY <3>1, <3>2 DEF Pages
    <3>3. CASE s # Nil
      <4>1. s \in Seq(Files) /\ off \in Nat /\ off <= Len(s) /\ Injective(s)
        BY <1>1, <3>1, <3>3 DEF PInv, IInv, TypeOK, HandleType, Pages
      <4>2. /\ Len(SubSeq(s, 1, off)) = off
            /\ SubSeq(s, 1, off) \in Seq(Files)
            /\ \A i \in 1 .. off : SubSeq(s, 1, off)[i] = s[i]
        BY <4>1
      <4>3. handle[h].given = SubSeq(s, 1, off)
        BY <3>1, <3>3 DEF Pages
      <4> HIDE DEF s, off
      <4>4. Injective(SubSeq(s, 1, off))
        BY <4>1, <4>2 DEF Injective
      <4> QED BY <3>3, <4>3, <4>4 DEF Injective, s, off
    <3> QED BY <3>2, <3>3
  <2>2. \A t \in Threads : call[t].pc # "panic"
    BY <1>1 DEF PInv, Snapshots
  <2> QED BY <2>1, <2>2 DEF PagesInOrder
<1>2. PInv /\ [Next]_vars => PInv'
  BY NextPages
<1>3. Init => PInv
  BY InitPages
<1> QED BY <1>1, <1>2, <1>3, PTL DEF Spec
=============================================================================
