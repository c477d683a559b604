---------------------------- MODULE WrapperProofs ----------------------------
(***************************************************************************)
(* For any number of goroutines and calls, whatever methods they call: the *)
(* history ObservableFs keeps is complete and in order, and ValidPathFs    *)
(* converts every path it is given.                                        *)
(***************************************************************************)
EXTENDS Wrapper, SequenceTheorems, WellFoundedInduction, TLAPS

-----------------------------------------------------------------------------
(***************************************************************************)
(* What the template makes of the methods.                                 *)
(***************************************************************************)
(***************************************************************************)
(* No method of a file returns a file.                                     *)
(***************************************************************************)
LEMMA NoFileFromFile ==
    \A m \in DOMAIN fileMethods : FileF \notin fileMethods[m].ret
  <1> DEFINE Fields == {PF, OffF, NF, ErrF, StringF, NamesF, FiF, FisF}
  <1> SUFFICES ASSUME NEW m \in DOMAIN fileMethods
               PROVE  fileMethods[m].ret \subseteq Fields
    BY DEF FileF, PF, OffF, NF, ErrF, StringF, NamesF, FiF, FisF
  <1> HIDE DEF Fields
  <1>1. /\ {ErrF} \subseteq Fields /\ {StringF} \subseteq Fields
        /\ {NF, ErrF} \subseteq Fields /\ {FisF, ErrF} \subseteq Fields
        /\ {NamesF, ErrF} \subseteq Fields /\ {FiF, ErrF} \subseteq Fields
    BY DEF Fields
  <1> QED BY <1>1 DEF fileMethods, Method

(***************************************************************************)
(* A method of ObservableFs that returns a file returns a wrapped one.     *)
(***************************************************************************)
LEMMA FilesAreWrapped ==
    ASSUME NEW k, k.on = "fs", FileF \in fsysMethods[k.m].ret,
           wrapper = "ObservableFs"
    PROVE  WrapsFile(k)
  <1> DEFINE mod == [f |-> {FileF}, hook |-> "modifyFile"]
  <1>1. mod \in modifiers
    <2> DEFINE h == <<FileF, "modifyFile">>
    <2>1. mod = [f |-> {h[1]}, hook |-> h[2]]
      OBVIOUS
    <2> QED BY <2>1 DEF modifiers
  <1>2. FileF \in mod.f /\ mod.hook = "modifyFile"
        /\ Match(mod, fsysMethods[k.m].ret)
    BY DEF Match
  <1>3. "modifyFile" \in Hooks["ObservableFs"]
    BY DEF Hooks
  <1> QED BY <1>1, <1>2, <1>3 DEF WrapsFile, Modifies

-----------------------------------------------------------------------------
(***************************************************************************)
(* The inductive invariant.                                                *)
(***************************************************************************)
Methods == DOMAIN fsysMethods \cup DOMAIN fileMethods \cup {Nil}
Entries == [id : Nat, IsFsys : BOOLEAN, IsBefore : BOOLEAN, Method : Methods]
Effects == [id : Nat, at : Nat]

\* what a call holds; its paths are left open
Calls(raw, vals) ==
    [pc : {"idle", "before", "beforeAppend", "inner", "after", "afterAppend",
           "ret"},
     id : Nat, on : {"fs", "wrapped", "bare"}, m : Methods,
     slice : Seq(Entries), raw : {raw}, vals : {vals},
     file : BOOLEAN, err : BOOLEAN]
IsCall(k) == k \in Calls(k.raw, k.vals)

OfCallers(f) == f = [c \in Callers |-> f[c]]

Types ==
    /\ wrapper \in wrappers
    /\ calls \in 0 .. MaxCalls[wrapper]
    /\ files \subseteq {"wrapped", "bare"}
    /\ history \in Seq(Entries) /\ effects \in Seq(Effects)
    /\ mu \in Callers \cup {Nil}
    /\ OfCallers(call)
    /\ \A c \in Callers : IsCall(call[c])

\* calls are told apart by their numbers
Numbered ==
    /\ \A i \in DOMAIN history : history[i].id \in 1 .. calls
    /\ \A i \in DOMAIN effects :
        effects[i].id \in 1 .. calls /\ effects[i].at \in 0 .. Len(history)
    /\ \A c \in Callers :
        /\ call[c].id \in 0 .. calls
        /\ call[c].pc # "idle" => call[c].id # 0
    /\ \A c, d \in Callers :
        c # d /\ call[c].pc # "idle" /\ call[d].pc # "idle" =>
            call[c].id # call[d].id

\* who is inside recordOp holds the mutex, and the whole history
Locked ==
    \A c \in Callers :
        /\ call[c].pc \in Recording <=> mu = c
        /\ call[c].pc \in Recording => call[c].slice = history

\* every file ObservableFs returned is wrapped, and no other is called
Hooked ==
    wrapper = "ObservableFs" =>
        /\ files \subseteq {"wrapped"}
        /\ \A c \in Callers :
            /\ call[c].pc # "idle" =>
                /\ call[c].on # "bare"
                /\ call[c].on = "fs" => call[c].m \in DOMAIN fsysMethods
                /\ call[c].on # "fs" => call[c].m \in DOMAIN fileMethods
            /\ call[c].pc # "idle" /\ call[c].file =>
                call[c].on = "fs" /\ FileF \in fsysMethods[call[c].m].ret

\* what the history says of a call that has had no effect yet
NoEntry(id, before) == \A j \in DOMAIN history : ~ Entry(j, id, before)
OneEntry(id, before, first, last) ==
    \E k \in first .. last :
        \A j \in DOMAIN history : Entry(j, id, before) <=> j = k

Begun ==
    wrapper = "ObservableFs" =>
        \A c \in Callers :
            call[c].pc \in {"before", "beforeAppend", "inner"} =>
                /\ NoEntry(call[c].id, FALSE)
                /\ \A i \in DOMAIN effects : effects[i].id # call[c].id
                /\ IF call[c].pc = "inner"
                   THEN OneEntry(call[c].id, TRUE, 1, Len(history))
                   ELSE NoEntry(call[c].id, TRUE)

\* Recorded, in these terms
Ended ==
    wrapper = "ObservableFs" =>
        \A i \in DOMAIN effects :
            LET id == effects[i].id IN
            /\ OneEntry(id, TRUE, 1, effects[i].at)
            /\ \/ Running(id) /\ NoEntry(id, FALSE)
               \/ ~ Running(id)
                  /\ OneEntry(id, FALSE, effects[i].at + 1, Len(history))

IInv == Types /\ Numbered /\ Locked /\ Hooked /\ Begun /\ Ended

-----------------------------------------------------------------------------
(***************************************************************************)
(* What a step of c leaves of the other calls, and what it makes of its    *)
(* own.                                                                    *)
(***************************************************************************)
Moves(c, k) ==
    /\ IsCall(k)
    /\ call' = [call EXCEPT ![c] = k]

LEMMA MovesCalls ==
    ASSUME Types, NEW c \in Callers, NEW k, Moves(c, k)
    PROVE  /\ OfCallers(call')
           /\ call'[c] = k
           /\ \A d \in Callers : d # c => call'[d] = call[d]
           /\ \A d \in Callers : IsCall(call'[d])
  <1>1. call = [d \in Callers |-> call[d]]
    BY DEF Types, OfCallers
  <1>2. call' = [d \in Callers |-> IF d = c THEN k ELSE call[d]]
    BY <1>1 DEF Moves
  <1>3. /\ call'[c] = k
        /\ \A d \in Callers : d # c => call'[d] = call[d]
    BY <1>2
  <1>4. OfCallers(call')
    BY <1>2 DEF OfCallers
  <1>5. \A d \in Callers : IsCall(call'[d])
    <2> SUFFICES ASSUME NEW d \in Callers PROVE IsCall(call'[d])
      OBVIOUS
    <2> QED BY <1>3 DEF Moves, Types
  <1> QED BY <1>3, <1>4, <1>5

(***************************************************************************)
(* A step of c that adds nothing to the history and has no effect, and     *)
(* leaves c in a call that neither begins nor ends with it, keeps what the *)
(* history says of every call.                                             *)
(***************************************************************************)
LEMMA SameHistory ==
    ASSUME IInv, NEW c \in Callers, NEW k, Moves(c, k),
           UNCHANGED <<wrapper, history, effects>>,
           wrapper = "ObservableFs" =>
                /\ k.pc \in {"before", "beforeAppend"} =>
                    /\ NoEntry(k.id, TRUE) /\ NoEntry(k.id, FALSE)
                    /\ \A i \in DOMAIN effects : effects[i].id # k.id
                /\ k.pc # "inner"
                /\ \/ /\ k.id = call[c].id
                      /\ k.pc \in Ending <=> call[c].pc \in Ending
                   \/ k.pc \notin Ending /\ call[c].pc \notin Ending
    PROVE  Begun' /\ Ended'
  <1>1. Types
    BY DEF IInv
  <1>2. /\ call'[c] = k
        /\ \A d \in Callers : d # c => call'[d] = call[d]
    BY <1>1, MovesCalls
  <1>3. history' = history /\ effects' = effects /\ wrapper' = wrapper
    OBVIOUS
  <1>4. \A id, b : NoEntry(id, b)' <=> NoEntry(id, b)
    BY <1>3 DEF NoEntry, Entry
  <1>5. \A id, b, x, y : OneEntry(id, b, x, y)' <=> OneEntry(id, b, x, y)
    BY <1>3 DEF OneEntry, Entry
  <1>6. Begun'
    BY <1>2, <1>3, <1>4, <1>5 DEF IInv, Begun
  <1>7. wrapper = "ObservableFs" => \A id : Running(id)' <=> Running(id)
    BY <1>2 DEF Running
  <1>8. Ended'
    BY <1>3, <1>4, <1>5, <1>7 DEF IInv, Ended
  <1> QED BY <1>6, <1>8

-----------------------------------------------------------------------------
(***************************************************************************)
(* The steps of a call.                                                    *)
(***************************************************************************)
LEMMA CallKeeps ==
    ASSUME IInv, NEW c \in Callers, Call(c)
    PROVE  IInv'
  <1>1. Types /\ Numbered /\ Locked /\ Hooked
    BY DEF IInv
  <1>2. PICK on \in {"fs"} \cup files :
        \E m \in IF on = "fs" THEN Used[wrapper].fs ELSE Used[wrapper].file :
        \E raw, vals :
            call' = [call EXCEPT ![c] =
                [NoCall EXCEPT
                    !.pc = IF Wraps(on, "beforeEach") THEN "before"
                           ELSE "inner",
                    !.id = calls + 1, !.on = on, !.m = m, !.raw = raw,
                    !.vals = vals]]
    BY ZenonT(40) DEF Call
  <1>3. PICK m \in IF on = "fs" THEN Used[wrapper].fs ELSE Used[wrapper].file :
        \E raw, vals :
            call' = [call EXCEPT ![c] =
                [NoCall EXCEPT
                    !.pc = IF Wraps(on, "beforeEach") THEN "before"
                           ELSE "inner",
                    !.id = calls + 1, !.on = on, !.m = m, !.raw = raw,
                    !.vals = vals]]
    BY <1>2
  <1>4. PICK raw, vals :
            call' = [call EXCEPT ![c] =
                [NoCall EXCEPT
                    !.pc = IF Wraps(on, "beforeEach") THEN "before"
                           ELSE "inner",
                    !.id = calls + 1, !.on = on, !.m = m, !.raw = raw,
                    !.vals = vals]]
    BY <1>3
  <1> DEFINE pc0 == IF Wraps(on, "beforeEach") THEN "before" ELSE "inner"
             k == [NoCall EXCEPT !.pc = pc0, !.id = calls + 1, !.on = on,
                                 !.m = m, !.raw = raw, !.vals = vals]
  <1>5. /\ call[c].pc = "idle" /\ calls < MaxCalls[wrapper]
        /\ calls' = calls + 1
        /\ UNCHANGED <<wrapper, history, mu, files, effects>>
    BY DEF Call
  <1>6. /\ wrapper \in wrappers /\ MaxCalls[wrapper] \in Nat
        /\ calls \in Nat /\ calls + 1 \in 0 .. MaxCalls[wrapper]
        /\ on \in {"fs", "wrapped", "bare"}
        /\ m \in IF on = "fs" THEN DOMAIN fsysMethods ELSE DOMAIN fileMethods
    BY <1>1, <1>5, WrapperAssumption DEF Types
  <1>7. /\ k.pc = pc0 /\ k.id = calls + 1 /\ k.on = on /\ k.m = m
        /\ k.slice = <<>> /\ k.raw = raw /\ k.vals = vals
        /\ k.file = FALSE /\ k.err = FALSE
    BY DEF NoCall
  <1>8. k \in Calls(raw, vals)
    <2>1. NoCall \in Calls(<<>>, <<>>)
      BY DEF NoCall, Calls, Methods
    <2>2. pc0 \in {"before", "inner"} /\ m \in Methods
      BY <1>6 DEF Methods
    <2>3. calls + 1 \in Nat /\ on \in {"fs", "wrapped", "bare"}
      BY <1>6
    <2> HIDE DEF NoCall, pc0
    <2> QED BY <2>1, <2>2, <2>3 DEF Calls
  <1>9. Moves(c, k)
    BY <1>4, <1>7, <1>8 DEF Moves, IsCall
  <1> HIDE DEF k
  <1>10. /\ call'[c] = k /\ OfCallers(call')
         /\ \A d \in Callers : d # c => call'[d] = call[d]
         /\ \A d \in Callers : IsCall(call'[d])
    BY <1>1, <1>9, MovesCalls
  <1>11. Types'
    BY <1>1, <1>5, <1>6, <1>10 DEF Types
  <1>12. Numbered'
    BY <1>1, <1>5, <1>6, <1>7, <1>10 DEF Numbered
  <1>13. Locked'
    BY <1>1, <1>5, <1>7, <1>10 DEF Locked, Recording
  <1>14. Hooked'
    BY <1>1, <1>5, <1>6, <1>7, <1>10 DEF Hooked
  <1>15. wrapper = "ObservableFs" => pc0 = "before"
    <2> SUFFICES ASSUME wrapper = "ObservableFs" PROVE Wraps(on, "beforeEach")
      OBVIOUS
    <2>1. on # "bare" /\ TypeOf(on) \in {"ObservableFs", "ObservableFile"}
      BY <1>1 DEF Hooked, TypeOf
    <2>2. /\ "beforeEach" \in Hooks["ObservableFs"]
          /\ "beforeEach" \in Hooks["ObservableFile"]
      BY DEF Hooks
    <2> QED BY <2>1, <2>2 DEF Wraps
  <1>16. /\ NoEntry(k.id, TRUE) /\ NoEntry(k.id, FALSE)
         /\ \A i \in DOMAIN effects : effects[i].id # k.id
    BY <1>1, <1>6, <1>7 DEF Numbered, NoEntry, Entry
  <1>17. Begun' /\ Ended'
    BY <1>5, <1>7, <1>9, <1>15, <1>16, SameHistory DEF Ending
  <1> QED BY <1>11, <1>12, <1>13, <1>14, <1>17 DEF IInv

LEMMA LockKeeps ==
    ASSUME IInv, NEW c \in Callers, RecordLock(c)
    PROVE  IInv'
  <1>1. Types /\ Numbered /\ Locked /\ Hooked /\ Begun
    BY DEF IInv
  <1> DEFINE pc0 == IF call[c].pc = "before" THEN "beforeAppend"
                    ELSE "afterAppend"
             k == [call[c] EXCEPT !.slice = history, !.pc = pc0]
  <1>2. /\ call[c].pc \in {"before", "after"} /\ mu = Nil /\ mu' = c
        /\ UNCHANGED <<wrapper, history, files, calls, effects>>
    BY DEF RecordLock, MuFree
  <1>3. call' = [call EXCEPT ![c] = k]
    BY DEF RecordLock
  <1>4. IsCall(call[c]) /\ history \in Seq(Entries)
    BY <1>1 DEF Types
  <1>5. /\ k.pc = pc0 /\ k.slice = history
        /\ k.id = call[c].id /\ k.on = call[c].on /\ k.m = call[c].m
        /\ k.raw = call[c].raw /\ k.vals = call[c].vals
        /\ k.file = call[c].file /\ k.err = call[c].err
    BY <1>4 DEF IsCall, Calls
  <1>6. Moves(c, k)
    <2>1. k \in Calls(call[c].raw, call[c].vals)
      BY <1>4 DEF IsCall, Calls
    <2> HIDE DEF k
    <2> QED BY <1>3, <1>5, <2>1 DEF Moves, IsCall
  <1> HIDE DEF k
  <1>7. /\ call'[c] = k /\ OfCallers(call')
        /\ \A d \in Callers : d # c => call'[d] = call[d]
        /\ \A d \in Callers : IsCall(call'[d])
    BY <1>1, <1>6, MovesCalls
  <1>8. Types'
    BY <1>1, <1>2, <1>7 DEF Types
  <1>9. Numbered'
    BY <1>1, <1>2, <1>5, <1>7 DEF Numbered
  <1>10. Locked'
    BY <1>1, <1>2, <1>5, <1>7, WrapperAssumption DEF Locked, Recording
  <1>11. Hooked'
    BY <1>1, <1>2, <1>5, <1>7 DEF Hooked
  <1>12. Begun' /\ Ended'
    BY <1>1, <1>2, <1>5, <1>6, SameHistory DEF Begun, Ending
  <1> QED BY <1>8, <1>9, <1>10, <1>11, <1>12 DEF IInv

LEMMA RetKeeps ==
    ASSUME IInv, NEW c \in Callers, Ret(c)
    PROVE  IInv'
  <1>1. Types /\ Numbered /\ Locked /\ Hooked /\ Begun
    BY DEF IInv
  <1> DEFINE vals == IF call[c].on = "fs"
                     THEN Modified(call[c].m, fsysMethods[call[c].m].ret,
                                   call[c].vals)
                     ELSE call[c].vals
             k == [call[c] EXCEPT !.pc = "idle", !.vals = vals]
  <1>2. /\ call[c].pc = "ret"
        /\ files' = IF call[c].file
                    THEN files \cup {IF WrapsFile(call[c]) THEN "wrapped"
                                     ELSE "bare"}
                    ELSE files
        /\ UNCHANGED <<wrapper, history, mu, calls, effects>>
    BY DEF Ret
  <1>3. call' = [call EXCEPT ![c] = k]
    BY DEF Ret
  <1> HIDE DEF vals
  <1>4. IsCall(call[c])
    BY <1>1 DEF Types
  <1>5. /\ k.pc = "idle" /\ k.vals = vals /\ k.slice = call[c].slice
        /\ k.id = call[c].id /\ k.on = call[c].on /\ k.m = call[c].m
        /\ k.raw = call[c].raw /\ k.file = call[c].file
    BY <1>4 DEF IsCall, Calls
  <1>6. Moves(c, k)
    <2>1. k \in Calls(call[c].raw, vals)
      BY <1>4 DEF IsCall, Calls
    <2> HIDE DEF k
    <2> QED BY <1>3, <1>5, <2>1 DEF Moves, IsCall
  <1> HIDE DEF k
  <1>7. /\ call'[c] = k /\ OfCallers(call')
        /\ \A d \in Callers : d # c => call'[d] = call[d]
        /\ \A d \in Callers : IsCall(call'[d])
    BY <1>1, <1>6, MovesCalls
  <1>8. Types'
    BY <1>1, <1>2, <1>7 DEF Types
  <1>9. Numbered'
    BY <1>1, <1>2, <1>5, <1>7 DEF Numbered
  <1>10. Locked'
    BY <1>1, <1>2, <1>5, <1>7 DEF Locked, Recording
  <1>11. Hooked'
    <2>1. wrapper = "ObservableFs" /\ call[c].file => WrapsFile(call[c])
      BY <1>1, <1>2, FilesAreWrapped DEF Hooked
    <2> QED BY <1>1, <1>2, <1>5, <1>7, <2>1 DEF Hooked
  <1>12. Begun' /\ Ended'
    BY <1>1, <1>2, <1>5, <1>6, SameHistory DEF Ending
  <1> QED BY <1>8, <1>9, <1>10, <1>11, <1>12 DEF IInv

LEMMA InnerKeeps ==
    ASSUME IInv, NEW c \in Callers, InnerCall(c)
    PROVE  IInv'
  <1>1. Types /\ Numbered /\ Locked /\ Hooked /\ Begun /\ Ended
    BY DEF IInv
  <1> DEFINE ret == (IF call[c].on = "fs" THEN fsysMethods[call[c].m]
                     ELSE fileMethods[call[c].m]).ret
             pc0 == IF Wraps(call[c].on, "afterEach") THEN "after" ELSE "ret"
             effect == [id |-> call[c].id, at |-> Len(history)]
  <1>2. /\ call[c].pc = "inner"
        /\ effects' = Append(effects, effect)
        /\ UNCHANGED <<wrapper, history, mu, files, calls>>
    BY DEF InnerCall
  <1>3. PICK err \in IF ErrF \in ret THEN BOOLEAN ELSE {FALSE} :
        \E vals \in IF NameF \in ret THEN [{NameF} -> Paths[wrapper]]
                   ELSE {call[c].vals} :
            call' = [call EXCEPT
                ![c].err = err, ![c].file = FileF \in ret /\ ~err,
                ![c].vals = vals,
                ![c].raw = IF NameF \in ret THEN vals ELSE @, ![c].pc = pc0]
    BY DEF InnerCall
  <1>4. PICK vals :
            call' = [call EXCEPT
                ![c].err = err, ![c].file = FileF \in ret /\ ~err,
                ![c].vals = vals,
                ![c].raw = IF NameF \in ret THEN vals ELSE @, ![c].pc = pc0]
    BY <1>3
  <1>5. err \in BOOLEAN
    OBVIOUS
  <1> DEFINE raw == IF NameF \in ret THEN vals ELSE call[c].raw
  <1> DEFINE k == [call[c] EXCEPT !.err = err, !.file = FileF \in ret /\ ~err,
                                  !.vals = vals, !.raw = raw, !.pc = pc0]
  <1>6. call' = [call EXCEPT ![c] = k]
    BY <1>4
  <1>7. IsCall(call[c])
    BY <1>1 DEF Types
  <1> HIDE DEF ret, raw
  <1>8. /\ k.pc = pc0 /\ k.vals = vals /\ k.slice = call[c].slice
        /\ k.id = call[c].id /\ k.on = call[c].on /\ k.m = call[c].m
        /\ k.raw = raw /\ k.file = (FileF \in ret /\ ~err)
    BY <1>7 DEF IsCall, Calls
  <1>9. Moves(c, k)
    <2>1. k \in Calls(raw, vals)
      BY <1>7, <1>5 DEF IsCall, Calls
    <2> HIDE DEF k
    <2> QED BY <1>6, <1>8, <2>1 DEF Moves, IsCall
  <1> HIDE DEF k
  <1>10. /\ call'[c] = k /\ OfCallers(call')
         /\ \A d \in Callers : d # c => call'[d] = call[d]
         /\ \A d \in Callers : IsCall(call'[d])
    BY <1>1, <1>9, MovesCalls
  <1>11. /\ effect \in Effects /\ effect.id = call[c].id
         /\ effect.at = Len(history) /\ Len(history) \in Nat
    BY <1>1, <1>7 DEF Types, Effects, IsCall, Calls
  <1> HIDE DEF effect
  <1>12. /\ effects' \in Seq(Effects)
         /\ DOMAIN effects' = DOMAIN effects \cup {Len(effects) + 1}
         /\ effects'[Len(effects) + 1] = effect
         /\ \A i \in DOMAIN effects : effects'[i] = effects[i]
    BY <1>1, <1>2, <1>11 DEF Types
  <1>13. Types'
    BY <1>1, <1>2, <1>10, <1>12 DEF Types, IsCall
  <1>14. Numbered'
    <2>1. call[c].id \in 1 .. calls /\ calls \in Nat
      BY <1>1, <1>2, WrapperAssumption DEF Numbered, Types
    <2>2. \A i \in DOMAIN effects' :
            /\ effects'[i].id \in 1 .. calls
            /\ effects'[i].at \in 0 .. Len(history)
      BY <1>1, <1>11, <1>12, <2>1 DEF Numbered
    <2>3. \A d \in Callers :
            /\ call'[d].id = call[d].id
            /\ call'[d].pc = "idle" <=> call[d].pc = "idle"
      BY <1>2, <1>8, <1>10
    <2> QED BY <1>1, <1>2, <2>2, <2>3 DEF Numbered
  <1>15. Locked'
    BY <1>1, <1>2, <1>8, <1>10 DEF Locked, Recording
  <1>16. Hooked'
    <2>1. wrapper = "ObservableFs" /\ k.file =>
            k.on = "fs" /\ FileF \in fsysMethods[k.m].ret
      BY <1>1, <1>2, <1>8, NoFileFromFile DEF Hooked, ret
    <2> QED BY <1>1, <1>2, <1>8, <1>10, <2>1 DEF Hooked
  <1>17. \A id, b : NoEntry(id, b)' <=> NoEntry(id, b)
    BY <1>2 DEF NoEntry, Entry
  <1>18. \A id, b, x, y : OneEntry(id, b, x, y)' <=> OneEntry(id, b, x, y)
    BY <1>2 DEF OneEntry, Entry
  <1>19. Begun'
    <2> SUFFICES ASSUME wrapper = "ObservableFs", NEW d \in Callers,
                        call'[d].pc \in {"before", "beforeAppend", "inner"}
                 PROVE  /\ NoEntry(call'[d].id, FALSE)
                        /\ \A i \in DOMAIN effects' :
                            effects'[i].id # call'[d].id
                        /\ IF call'[d].pc = "inner"
                           THEN OneEntry(call'[d].id, TRUE, 1, Len(history))
                           ELSE NoEntry(call'[d].id, TRUE)
      BY <1>2, <1>17, <1>18 DEF Begun
    <2>1. d # c /\ call'[d] = call[d]
      BY <1>8, <1>10
    <2>2. effect.id # call[d].id
      BY <1>1, <1>2, <1>11, <2>1 DEF Numbered
    <2> QED BY <1>1, <1>12, <2>1, <2>2 DEF Begun
  <1>20. Ended'
    <2> SUFFICES ASSUME wrapper = "ObservableFs", NEW i \in DOMAIN effects',
                        NEW id, id = effects'[i].id, NEW at, at = effects'[i].at
                 PROVE  /\ OneEntry(id, TRUE, 1, at)
                        /\ \/ Running(id)' /\ NoEntry(id, FALSE)
                           \/ /\ ~ Running(id)'
                              /\ OneEntry(id, FALSE, at + 1, Len(history))
      BY <1>2, <1>17, <1>18 DEF Ended
    <2>1. CASE i \in DOMAIN effects
      <3>1. id = effects[i].id /\ at = effects[i].at /\ id # call[c].id
        BY <1>1, <1>2, <1>12, <2>1 DEF Begun
      <3>2. Running(id)' <=> Running(id)
        BY <1>8, <1>10, <3>1 DEF Running
      <3> QED BY <1>1, <2>1, <3>1, <3>2 DEF Ended
    <2>2. CASE i = Len(effects) + 1
      <3>1. id = call[c].id /\ at = Len(history)
        BY <1>11, <1>12, <2>2
      <3>2. pc0 = "after"
        <4>1. /\ call[c].on # "bare"
              /\ TypeOf(call[c].on) \in {"ObservableFs", "ObservableFile"}
          BY <1>1, <1>2 DEF Hooked, TypeOf
        <4>2. /\ "afterEach" \in Hooks["ObservableFs"]
              /\ "afterEach" \in Hooks["ObservableFile"]
          BY DEF Hooks
        <4> QED BY <4>1, <4>2 DEF Wraps
      <3>3. Running(id)'
        BY <1>8, <1>10, <3>1, <3>2 DEF Running, Ending
      <3>4. NoEntry(id, FALSE) /\ OneEntry(id, TRUE, 1, at)
        BY <1>1, <1>2, <3>1 DEF Begun
      <3> QED BY <3>3, <3>4
    <2> QED BY <1>12, <2>1, <2>2
  <1> QED BY <1>13, <1>14, <1>15, <1>16, <1>19, <1>20 DEF IInv

LEMMA AppendKeeps ==
    ASSUME IInv, NEW c \in Callers, RecordAppend(c)
    PROVE  IInv'
  <1>1. Types /\ Numbered /\ Locked /\ Hooked /\ Begun /\ Ended
    BY DEF IInv
  <1>2. Len(history) \in Nat
    BY <1>1 DEF Types
  <1>3. \E b \in BOOLEAN : b = (call[c].pc = "beforeAppend")
    <2> WITNESS (call[c].pc = "beforeAppend") \in BOOLEAN
    <2> QED OBVIOUS
  <1>4. PICK before \in BOOLEAN : before = (call[c].pc = "beforeAppend")
    BY <1>3
  <1>5. PICK n \in Nat, own \in {call[c].id} : n = Len(history) /\ own = call[c].id
    BY <1>2
  <1> DEFINE entry == [id |-> call[c].id, IsFsys |-> call[c].on = "fs",
                       IsBefore |-> call[c].pc = "beforeAppend",
                       Method |-> call[c].m]
             pc0 == IF before THEN "inner" ELSE "ret"
             k == [call[c] EXCEPT !.slice = <<>>, !.pc = pc0]
  <1>6. /\ call[c].pc \in {"beforeAppend", "afterAppend"} /\ mu' = Nil
        /\ UNCHANGED <<wrapper, files, calls, effects>>
    BY DEF RecordAppend
  <1>7. history' = Append(history, entry)
    BY <1>1, <1>6 DEF RecordAppend, Locked, Recording
  <1>8. call' = [call EXCEPT ![c] = k]
    BY <1>4, <1>5 DEF RecordAppend
  <1>9. IsCall(call[c])
    BY <1>1 DEF Types
  <1>10. /\ k.pc = pc0 /\ k.slice = <<>>
         /\ k.id = own /\ k.on = call[c].on /\ k.m = call[c].m
         /\ k.raw = call[c].raw /\ k.vals = call[c].vals
         /\ k.file = call[c].file
    BY <1>9, <1>4, <1>5 DEF IsCall, Calls
  <1>11. Moves(c, k)
    <2>1. pc0 \in {"inner", "ret"} /\ <<>> \in Seq(Entries)
      OBVIOUS
    <2>2. k \in Calls(call[c].raw, call[c].vals)
      <3> HIDE DEF pc0
      <3> QED BY <1>9, <2>1 DEF IsCall, Calls
    <2> HIDE DEF k
    <2> QED BY <1>8, <1>10, <2>2 DEF Moves, IsCall
  <1> HIDE DEF k
  <1>12. /\ call'[c] = k /\ OfCallers(call')
         /\ \A d \in Callers : d # c => call'[d] = call[d]
         /\ \A d \in Callers : IsCall(call'[d])
    BY <1>1, <1>11, MovesCalls
  <1>13. /\ entry \in Entries /\ entry.id = own
         /\ entry.IsBefore = before /\ n \in Nat
    BY <1>1, <1>9, <1>4, <1>5 DEF Types, Entries, IsCall, Calls
  <1> HIDE DEF entry
  <1>14. /\ history' \in Seq(Entries) /\ Len(history') = n + 1
         /\ DOMAIN history = 1 .. n /\ DOMAIN history' = 1 .. n + 1
         /\ history'[n + 1] = entry
         /\ \A i \in 1 .. n : history'[i] = history[i]
    BY <1>1, <1>7, <1>13, <1>4, <1>5 DEF Types
  <1>15. Types'
    BY <1>1, <1>6, <1>12, <1>14 DEF Types, IsCall
  <1>16. own \in 1 .. calls /\ calls \in Nat
    BY <1>1, <1>6, <1>4, <1>5, WrapperAssumption DEF Numbered, Types
  <1>17. Numbered'
    <2>1. \A i \in DOMAIN history' : history'[i].id \in 1 .. calls
      BY <1>1, <1>13, <1>14, <1>16 DEF Numbered
    <2>2. \A i \in DOMAIN effects :
            effects[i].id \in 1 .. calls /\ effects[i].at \in 0 .. n + 1
      BY <1>1, <1>13, <1>4, <1>5 DEF Numbered
    <2>3. \A d \in Callers :
            /\ call'[d].id = call[d].id
            /\ call'[d].pc = "idle" <=> call[d].pc = "idle"
      BY <1>6, <1>10, <1>12, <1>4, <1>5
    <2> QED BY <1>1, <1>6, <1>14, <2>1, <2>2, <2>3 DEF Numbered
  <1>18. Locked'
    BY <1>1, <1>6, <1>10, <1>12, WrapperAssumption DEF Locked, Recording
  <1>19. Hooked'
    BY <1>1, <1>6, <1>10, <1>12 DEF Hooked
  <1>20. \A j \in 1 .. n : \A id, b : Entry(j, id, b)' <=> Entry(j, id, b)
    BY <1>14 DEF Entry
  <1>21. \A id, b : Entry(n + 1, id, b)' <=> id = own /\ b = before
    BY <1>13, <1>14 DEF Entry
  <1>22. \A id, b : NoEntry(id, b)
            /\ ~ (id = own /\ b = before) => NoEntry(id, b)'
    BY <1>13, <1>14, <1>20, <1>21 DEF NoEntry
  <1>23. ASSUME NEW id, NEW b, NEW x \in Nat, NEW y \in 0 .. n, NEW z \in Nat,
                y <= z, OneEntry(id, b, x, y), ~ (id = own /\ b = before),
                x >= 1
         PROVE  OneEntry(id, b, x, z)'
    <2>1. PICK j \in x .. y :
            \A i \in DOMAIN history : Entry(i, id, b) <=> i = j
      BY <1>23 DEF OneEntry
    <2>2. \A i \in DOMAIN history' : Entry(i, id, b)' <=> i = j
      BY <1>13, <1>14, <1>20, <1>21, <1>23, <2>1
    <2>3. j \in x .. z
      BY <1>13, <1>23, <2>1
    <2> QED BY <2>2, <2>3 DEF OneEntry
  <1>24. ASSUME NEW x \in 1 .. n + 1, NoEntry(own, before)
         PROVE  OneEntry(own, before, x, n + 1)'
    <2>1. \A i \in DOMAIN history' : Entry(i, own, before)' <=> i = n + 1
      BY <1>13, <1>14, <1>20, <1>21, <1>24 DEF NoEntry
    <2>2. n + 1 \in x .. n + 1
      BY <1>13
    <2> QED BY <2>1, <2>2 DEF OneEntry
  <1>25. \A d \in Callers : d # c /\ call[d].pc # "idle" => call[d].id # own
    BY <1>1, <1>6, <1>4, <1>5 DEF Numbered
  <1>26. Begun'
    <2> SUFFICES ASSUME wrapper = "ObservableFs", NEW d \in Callers,
                        call'[d].pc \in {"before", "beforeAppend", "inner"},
                        NEW id, id = call'[d].id
                 PROVE  /\ NoEntry(id, FALSE)'
                        /\ \A i \in DOMAIN effects : effects[i].id # id
                        /\ IF call'[d].pc = "inner"
                           THEN OneEntry(id, TRUE, 1, n + 1)'
                           ELSE NoEntry(id, TRUE)'
      BY <1>6, <1>14 DEF Begun
    <2>1. CASE d # c
      <3>1. call'[d] = call[d] /\ id # own
        BY <1>12, <1>25, <2>1
      <3>2. /\ NoEntry(id, FALSE)
            /\ \A i \in DOMAIN effects : effects[i].id # id
            /\ IF call[d].pc = "inner" THEN OneEntry(id, TRUE, 1, n)
               ELSE NoEntry(id, TRUE)
        BY <1>1, <1>4, <1>5, <3>1 DEF Begun
      <3>3. OneEntry(id, TRUE, 1, n) => OneEntry(id, TRUE, 1, n + 1)'
        <4>1. 1 \in Nat /\ n \in 0 .. n /\ n + 1 \in Nat /\ n <= n + 1
              /\ 1 >= 1
          BY <1>13
        <4> QED BY <1>23, <3>1, <4>1
      <3> QED BY <1>22, <3>1, <3>2, <3>3
    <2>2. CASE d = c
      <3>1. before /\ id = own
        BY <1>10, <1>12, <1>4, <1>5, <2>2
      <3>2. /\ NoEntry(own, FALSE) /\ NoEntry(own, TRUE)
            /\ \A i \in DOMAIN effects : effects[i].id # own
        BY <1>1, <1>4, <1>5, <3>1 DEF Begun
      <3>3. before = TRUE
        BY <3>1
      <3>4. call'[d].pc = "inner"
        BY <1>10, <1>12, <2>2, <3>1
      <3>5. OneEntry(own, TRUE, 1, n + 1)'
        <4>1. 1 \in 1 .. n + 1
          BY <1>13
        <4> QED BY <1>24, <3>2, <3>3, <4>1
      <3>6. NoEntry(own, FALSE)'
        BY <1>22, <3>2, <3>3
      <3> QED BY <3>1, <3>2, <3>4, <3>5, <3>6
    <2> QED BY <2>1, <2>2
  <1>27. Ended'
    <2> SUFFICES ASSUME wrapper = "ObservableFs", NEW i \in DOMAIN effects,
                        NEW id, id = effects[i].id, NEW at, at = effects[i].at
                 PROVE  /\ OneEntry(id, TRUE, 1, at)'
                        /\ \/ Running(id)' /\ NoEntry(id, FALSE)'
                           \/ /\ ~ Running(id)'
                              /\ OneEntry(id, FALSE, at + 1, n + 1)'
      BY <1>6, <1>14 DEF Ended
    <2>1. /\ OneEntry(id, TRUE, 1, at) /\ at \in 0 .. n
          /\ \/ Running(id) /\ NoEntry(id, FALSE)
             \/ ~ Running(id) /\ OneEntry(id, FALSE, at + 1, n)
      BY <1>1, <1>4, <1>5 DEF Ended, Numbered
    <2>2. CASE id # own
      <3>1. Running(id)' <=> Running(id)
        BY <1>10, <1>12, <1>4, <1>5, <2>2 DEF Running
      <3>2. /\ 1 \in Nat /\ at + 1 \in Nat /\ n + 1 \in Nat
            /\ at \in Nat /\ at <= at /\ n \in 0 .. n /\ n <= n + 1
            /\ 1 >= 1 /\ at + 1 >= 1
        BY <1>13, <2>1
      <3>3. OneEntry(id, TRUE, 1, at)'
        BY <1>23, <2>1, <2>2, <3>2
      <3>4. NoEntry(id, FALSE) => NoEntry(id, FALSE)'
        BY <1>22, <2>2
      <3>5. OneEntry(id, FALSE, at + 1, n)
                => OneEntry(id, FALSE, at + 1, n + 1)'
        BY <1>23, <2>2, <3>2
      <3> QED BY <2>1, <3>1, <3>3, <3>4, <3>5
    <2>3. CASE id = own
      <3>1. before = FALSE /\ call[c].pc = "afterAppend"
        BY <1>1, <1>6, <1>4, <1>5, <2>3 DEF Begun
      <3>2. Running(id)
        BY <1>4, <1>5, <3>1, <2>3 DEF Running, Ending
      <3>3. ~ Running(id)'
        BY <1>10, <1>12, <1>25, <2>3, <3>1 DEF Running, Ending
      <3>4. OneEntry(id, TRUE, 1, at)'
        <4>1. 1 \in Nat /\ at \in Nat /\ at <= at /\ 1 >= 1
          BY <2>1
        <4>2. ~ (id = own /\ TRUE = before)
          BY <3>1
        <4> QED BY <1>23, <2>1, <4>1, <4>2
      <3>5. OneEntry(id, FALSE, at + 1, n + 1)'
        <4>1. at + 1 \in 1 .. n + 1
          BY <1>13, <2>1
        <4>2. NoEntry(own, before)
          BY <2>1, <2>3, <3>1, <3>2
        <4> QED BY <1>24, <2>3, <3>1, <4>1, <4>2
      <3> QED BY <3>3, <3>4, <3>5
    <2> QED BY <2>2, <2>3
  <1> QED BY <1>15, <1>17, <1>18, <1>19, <1>26, <1>27 DEF IInv

-----------------------------------------------------------------------------
LEMMA InitInv == Init => IInv
  <1> SUFFICES ASSUME Init PROVE IInv
    OBVIOUS
  <1>1. IsCall(NoCall)
    BY DEF IsCall, Calls, NoCall, Methods
  <1>2. NoCall.pc = "idle" /\ NoCall.id = 0
    BY DEF NoCall
  <1>3. Types
    BY <1>1, WrapperAssumption DEF Init, Types, OfCallers
  <1>4. /\ \A c \in Callers : call[c].pc = "idle" /\ call[c].id = 0
        /\ history = <<>> /\ effects = <<>> /\ calls = 0 /\ files = {}
        /\ mu = Nil /\ DOMAIN history = {} /\ DOMAIN effects = {}
    BY <1>2 DEF Init
  <1>5. Numbered /\ Locked
    BY <1>4, WrapperAssumption DEF Numbered, Locked, Recording
  <1>6. Hooked /\ Begun /\ Ended
    BY <1>4 DEF Hooked, Begun, Ended
  <1> QED BY <1>3, <1>5, <1>6 DEF IInv

LEMMA StepInv == IInv /\ [Next]_vars => IInv'
  <1> SUFFICES ASSUME IInv, [Next]_vars PROVE IInv'
    OBVIOUS
  <1>1. ASSUME NEW c \in Callers,
               \/ Call(c) \/ RecordLock(c) \/ RecordAppend(c)
               \/ InnerCall(c) \/ Ret(c)
        PROVE  IInv'
    BY <1>1, CallKeeps, LockKeeps, AppendKeeps, InnerKeeps, RetKeeps
  <1>2. CASE UNCHANGED vars
    <2>1. /\ wrapper' = wrapper /\ history' = history /\ mu' = mu
          /\ files' = files /\ call' = call /\ calls' = calls
          /\ effects' = effects
      BY <1>2 DEF vars
    <2> QED BY <2>1 DEF IInv, Types, IsCall, Numbered, Locked, Hooked, Begun,
                        Ended, NoEntry, OneEntry, Entry, Running
  <1> QED BY <1>1, <1>2 DEF Next

THEOREM Inductive == Spec => []IInv
  BY InitInv, StepInv, PTL DEF Spec

(***************************************************************************)
(* Types, and that only the holder of the mutex is inside recordOp, for    *)
(* any number of goroutines (observable.go).                               *)
(***************************************************************************)
THEOREM TypeCorrect == Spec => []TypeOK
  <1>1. IInv => TypeOK
    <2> SUFFICES ASSUME IInv PROVE TypeOK
      OBVIOUS
    <2>1. Types /\ Numbered /\ Locked
      BY DEF IInv
    <2>2. \A c \in Callers :
            call[c].pc \in Recording \cup {"idle", "before", "inner", "after",
                                           "ret"}
      BY <2>1 DEF Types, IsCall, Calls, Recording
    <2> QED BY <2>1, <2>2 DEF Types, Numbered, Locked, TypeOK
  <1> QED BY <1>1, Inductive, PTL

(***************************************************************************)
(* Whatever reached the wrapped Fs or a file opened through it is in the   *)
(* history of ObservableFs once before it and, when the call has returned, *)
(* once after it, for any number of goroutines and calls (observable.go).  *)
(***************************************************************************)
THEOREM HistoryComplete == Spec => []Recorded
  <1>1. IInv => Recorded
    <2> SUFFICES ASSUME IInv PROVE Recorded
      OBVIOUS
    <2>1. Ended
      BY DEF IInv
    <2> QED BY <2>1 DEF Ended, Recorded, OneEntry, NoEntry
  <1> QED BY <1>1, Inductive, PTL

-----------------------------------------------------------------------------
(***************************************************************************)
(* Going through a sequence.  s is gone through by g, from v on, and f is  *)
(* what it has after each of its elements.                                 *)
(***************************************************************************)
\* the order of Nat as a set of pairs
Less == {p \in Nat \X Nat : p[1] < p[2]}

\* Induction: what holds of 0 and of the next number holds of every number.
LEMMA Induct ==
    ASSUME NEW S, 0 \in S, \A n \in Nat : n \in S => n + 1 \in S
    PROVE  Nat \subseteq S
  <1> DEFINE T == {n \in Nat : n \notin S}
  <1>1. SUFFICES ASSUME T # {} PROVE FALSE
    OBVIOUS
  <1>2. IsWellFoundedOn(Less, Nat)
    BY NatLessThanWellFounded DEF OpToRel, Less
  <1>3. PICK x \in T : \A y \in T : ~(<<y, x>> \in Less)
    <2> HIDE DEF Less
    <2> QED BY <1>1, <1>2, WFMin
  <1>4. x \in Nat /\ x # 0 /\ x - 1 \in Nat
    OBVIOUS
  <1>5. <<x - 1, x>> \in Less
    BY <1>4 DEF Less
  <1>6. x - 1 \notin T
    BY <1>3, <1>5
  <1>7. x - 1 \in S
    BY <1>4, <1>6
  <1> QED BY <1>4, <1>7

Follows(f, g, v, s) ==
    f = [k \in 0 .. Len(s) |-> IF k = 0 THEN v ELSE g[<<f[k - 1], s[k]>>]]

\* The values up to the n-th.
FollowsTo(f, g, v, s, n) ==
    \A k \in 0 .. n : f[k] = IF k = 0 THEN v ELSE g[<<f[k - 1], s[k]>>]

\* Every sequence can be gone through.
LEMMA FollowsExists ==
    ASSUME NEW A, NEW V, NEW g \in [V \X A -> V], NEW v \in V, NEW s \in Seq(A)
    PROVE  \E f \in [0 .. Len(s) -> V] : Follows(f, g, v, s)
  <1> DEFINE F == [0 .. Len(s) -> V]
             S == {n \in Nat : n <= Len(s) => \E f \in F : FollowsTo(f, g, v, s, n)}
  <1>0. Len(s) \in Nat
    OBVIOUS
  <1>1. 0 \in S
    <2>1. [k \in 0 .. Len(s) |-> v] \in F
      OBVIOUS
    <2>2. FollowsTo([k \in 0 .. Len(s) |-> v], g, v, s, 0)
      BY <1>0 DEF FollowsTo
    <2> HIDE DEF F
    <2> QED BY <2>1, <2>2
  <1>2. ASSUME NEW n \in Nat, n \in S PROVE n + 1 \in S
    <2> SUFFICES ASSUME n + 1 <= Len(s)
                 PROVE  \E f \in F : FollowsTo(f, g, v, s, n + 1)
      OBVIOUS
    <2>1. PICK f \in F : FollowsTo(f, g, v, s, n)
      BY <1>0, <1>2
    <2> DEFINE next == g[<<f[n], s[n + 1]>>]
               h == [k \in 0 .. Len(s) |-> IF k = n + 1 THEN next ELSE f[k]]
    <2>2. next \in V
      <3>1. n \in 0 .. Len(s) /\ n + 1 \in 1 .. Len(s)
        BY <1>0
      <3>2. f[n] \in V /\ s[n + 1] \in A
        BY <2>1, <3>1, ElementOfSeq
      <3> QED BY <3>2
    <2> HIDE DEF next
    <2>3. h \in F
      <3>1. \A k \in 0 .. Len(s) : f[k] \in V
        BY <2>1
      <3> QED BY <2>2, <3>1
    <2>4. FollowsTo(h, g, v, s, n + 1)
      <3> SUFFICES ASSUME NEW k \in 0 .. n + 1
                   PROVE  h[k] = IF k = 0 THEN v ELSE g[<<h[k - 1], s[k]>>]
        BY DEF FollowsTo
      <3>1. k \in 0 .. Len(s) /\ (k # 0 => k - 1 \in 0 .. Len(s) /\ k - 1 # n + 1)
        BY <1>0
      <3>2. k # 0 => h[k - 1] = f[k - 1]
        BY <3>1
      <3>3. CASE k = n + 1
        <4>1. k # 0 /\ k - 1 = n
          BY <3>3
        <4> QED BY <3>1, <3>2, <3>3, <4>1 DEF next
      <3>4. CASE k # n + 1
        <4>1. k \in 0 .. n /\ h[k] = f[k]
          BY <3>1, <3>4
        <4> QED BY <2>1, <3>2, <4>1 DEF FollowsTo
      <3> QED BY <3>3, <3>4
    <2> HIDE DEF h, F
    <2> QED BY <2>3, <2>4
  <1>3. Nat \subseteq S
    <2> HIDE DEF S
    <2> QED BY <1>1, <1>2, Induct
  <1>4. PICK f \in F : FollowsTo(f, g, v, s, Len(s))
    BY <1>0, <1>3
  <1>5. f = [k \in 0 .. Len(s) |-> f[k]]
    OBVIOUS
  <1>6. Follows(f, g, v, s)
    BY <1>4, <1>5 DEF FollowsTo, Follows
  <1> QED BY <1>6

\* Two sequences that begin alike are gone through alike.
LEMMA FollowsSame ==
    ASSUME NEW A, NEW g, NEW v, NEW s \in Seq(A), NEW t \in Seq(A), NEW n \in Nat,
           n <= Len(s), n <= Len(t), \A k \in 1 .. n : t[k] = s[k],
           NEW f, Follows(f, g, v, s), NEW h, Follows(h, g, v, t)
    PROVE  f[n] = h[n]
  <1> DEFINE S == {k \in Nat : k <= n => f[k] = h[k]}
  <1>0. Len(s) \in Nat /\ Len(t) \in Nat
    OBVIOUS
  <1>1. /\ \A k \in 0 .. Len(s) :
                f[k] = IF k = 0 THEN v ELSE g[<<f[k - 1], s[k]>>]
        /\ \A k \in 0 .. Len(t) :
                h[k] = IF k = 0 THEN v ELSE g[<<h[k - 1], t[k]>>]
    <2>1. /\ f = [k \in 0 .. Len(s) |->
                    IF k = 0 THEN v ELSE g[<<f[k - 1], s[k]>>]]
          /\ h = [k \in 0 .. Len(t) |->
                    IF k = 0 THEN v ELSE g[<<h[k - 1], t[k]>>]]
      BY DEF Follows
    <2>2. \A k \in 0 .. Len(s) :
            f[k] = [i \in 0 .. Len(s) |->
                        IF i = 0 THEN v ELSE g[<<f[i - 1], s[i]>>]][k]
      BY <2>1
    <2>3. \A k \in 0 .. Len(t) :
            h[k] = [i \in 0 .. Len(t) |->
                        IF i = 0 THEN v ELSE g[<<h[i - 1], t[i]>>]][k]
      BY <2>1
    <2> QED BY <2>2, <2>3
  <1>2. 0 \in S
    <2>1. 0 \in 0 .. Len(s) /\ 0 \in 0 .. Len(t)
      BY <1>0
    <2>2. f[0] = v /\ h[0] = v
      BY <1>1, <2>1
    <2> QED BY <2>2
  <1>3. ASSUME NEW k \in Nat, k \in S PROVE k + 1 \in S
    <2> SUFFICES ASSUME k + 1 <= n PROVE f[k + 1] = h[k + 1]
      OBVIOUS
    <2>1. f[k] = h[k]
      BY <1>3
    <2>2. /\ k + 1 \in 0 .. Len(s) /\ k + 1 \in 0 .. Len(t) /\ k + 1 # 0
          /\ (k + 1) - 1 = k /\ s[k + 1] = t[k + 1]
      BY <1>0
    <2> QED BY <1>1, <2>1, <2>2
  <1>4. Nat \subseteq S
    <2> HIDE DEF S
    <2> QED BY <1>2, <1>3, Induct
  <1> QED BY <1>4

-----------------------------------------------------------------------------
(***************************************************************************)
(* Paths: cleaning one, and walking along one.                             *)
(***************************************************************************)
\* what a path is made of: a string; of the strings this module names, that
\* they are strings is said here
Element == STRING \cup {".", "x", "y", "z"}
Elems == Seq(Element)

Cleaning(rooted) ==
    [x \in Elems \X Element |-> CleanNext(rooted, x[1], x[2])]
Walking == [x \in Elems \X Element |-> WalkNext(x[1], x[2])]

\* Front and Last take apart what Append has put together.
LEMMA AppendTakenApart ==
    ASSUME NEW A, NEW s \in Seq(A), NEW e \in A
    PROVE  /\ Append(s, e) # <<>> /\ Front(Append(s, e)) = s
           /\ Last(Append(s, e)) = e
  <1>1. PICK t \in Seq(A) : t = Append(s, e)
    BY AppendProperties
  <1>2. /\ Len(s) \in Nat /\ Len(t) = Len(s) + 1 /\ t[Len(s) + 1] = e
        /\ \A i \in 1 .. Len(s) : t[i] = s[i]
    BY <1>1, AppendProperties, LenProperties
  <1>3. \A i \in 1 .. Len(t) - 1 : t[i] \in A
    BY <1>2, ElementOfSeq
  <1>4. PICK f \in Seq(A) : f = SubSeq(t, 1, Len(t) - 1)
    BY <1>2, <1>3, SubSeqProperties
  <1>5. Len(f) = Len(s) /\ \A i \in 1 .. Len(s) : f[i] = s[i]
    <2>1. /\ Len(f) = IF 1 <= Len(t) - 1 THEN (Len(t) - 1) - 1 + 1 ELSE 0
          /\ \A i \in 1 .. (Len(t) - 1) - 1 + 1 : f[i] = t[1 + i - 1]
      BY <1>2, <1>3, <1>4, SubSeqProperties
    <2>2. (Len(t) - 1) - 1 + 1 = Len(s) /\ \A i \in 1 .. Len(s) : 1 + i - 1 = i
      BY <1>2
    <2> QED BY <1>2, <2>1, <2>2
  <1>6. f = s
    BY <1>5, SeqEqual
  <1> QED BY <1>1, <1>2, <1>4, <1>6, EmptySeq DEF Front, Last

LEMMA TakenApart ==
    ASSUME NEW A, NEW s \in Seq(A), s # <<>>
    PROVE  \E init \in Seq(A), last \in A :
            /\ s = Append(init, last) /\ init = Front(s) /\ last = Last(s)
            /\ Len(s) = Len(init) + 1 /\ \A k \in 1 .. Len(init) : init[k] = s[k]
            /\ s[Len(s)] = last
  <1>1. PICK init \in Seq(A), last \in A : s = Append(init, last)
    BY SequenceEmptyOrAppend
  <1> QED BY <1>1, AppendTakenApart, AppendProperties

LEMMA NextElems ==
    ASSUME NEW es \in Elems, NEW e \in Element
    PROVE  /\ \A rooted : CleanNext(rooted, es, e) \in Elems
           /\ WalkNext(es, e) \in Elems
  <1>1. Append(es, e) \in Elems
    BY AppendProperties DEF Elems
  <1>2. es # <<>> => Front(es) \in Elems
    BY DEF Elems, Front
  <1> QED BY <1>1, <1>2 DEF CleanNext, WalkNext

\* es has what Clean makes of the first elements of p
LEMMA CleanFollows ==
    ASSUME NEW p, p.elems \in Elems
    PROVE  \E es \in [0 .. Len(p.elems) -> Elems] :
              /\ Clean(p) = es[Len(p.elems)]
              /\ es[0] = <<>>
              /\ \A k \in 1 .. Len(p.elems) :
                    es[k] = CleanNext(p.rooted, es[k - 1], p.elems[k])
  <1> DEFINE s == p.elems
             n == Len(p.elems)
             g == Cleaning(p.rooted)
  <1>0. n \in Nat /\ s \in Elems
    BY DEF Elems
  <1>1. g \in [Elems \X Element -> Elems]
    BY NextElems DEF Cleaning
  <1>2. <<>> \in Elems
    BY DEF Elems
  <1>3. PICK es \in [0 .. n -> Elems] : Follows(es, g, <<>>, s)
    <2> HIDE DEF g
    <2> QED BY <1>0, <1>1, <1>2, FollowsExists DEF Elems
  <1>4. \A f \in [0 .. n -> Elems] :
            [k \in 0 .. n |-> IF k = 0 THEN <<>> ELSE g[<<f[k - 1], s[k]>>]]
            = [k \in 0 .. n |-> IF k = 0 THEN <<>>
                                ELSE CleanNext(p.rooted, f[k - 1], s[k])]
    <2> SUFFICES ASSUME NEW f \in [0 .. n -> Elems], NEW k \in 0 .. n, k # 0
                 PROVE  g[<<f[k - 1], s[k]>>] = CleanNext(p.rooted, f[k - 1], s[k])
      OBVIOUS
    <2>1. k - 1 \in 0 .. n /\ k \in 1 .. n
      BY <1>0
    <2>2. f[k - 1] \in Elems /\ s[k] \in Element
      BY <1>0, <2>1, ElementOfSeq DEF Elems
    <2> QED BY <2>2 DEF Cleaning
  <1> DEFINE IsClean(f) ==
        f = [k \in 0 .. n |-> IF k = 0 THEN <<>>
                              ELSE CleanNext(p.rooted, f[k - 1], s[k])]
             c == CHOOSE f : IsClean(f)
  <1>5. IsClean(es)
    BY <1>3, <1>4 DEF Follows
  <1>6. IsClean(c)
    <2> HIDE DEF IsClean
    <2> QED BY <1>5
  <1>7. Clean(p) = c[n]
    BY DEF Clean
  <1> HIDE DEF c
  <1>8. /\ c[0] = <<>>
        /\ \A k \in 1 .. n : c[k] = CleanNext(p.rooted, c[k - 1], s[k])
    <2>1. \A k \in 0 .. n : c[k] = IF k = 0 THEN <<>>
                                   ELSE CleanNext(p.rooted, c[k - 1], s[k])
      BY <1>6
    <2>2. 0 \in 0 .. n /\ \A k \in 1 .. n : k \in 0 .. n /\ k # 0
      BY <1>0
    <2> QED BY <2>1, <2>2
  <1>9. \A k \in 0 .. n : c[k] \in Elems
    <2> DEFINE S == {k \in Nat : k <= n => c[k] \in Elems}
    <2>1. 0 \in S
      BY <1>2, <1>8
    <2>2. ASSUME NEW k \in Nat, k \in S PROVE k + 1 \in S
      <3> SUFFICES ASSUME k + 1 <= n PROVE c[k + 1] \in Elems
        OBVIOUS
      <3>1. k + 1 \in 1 .. n /\ (k + 1) - 1 = k /\ c[k] \in Elems
        BY <1>0, <2>2
      <3>2. s[k + 1] \in Element
        BY <1>0, <3>1, ElementOfSeq DEF Elems
      <3> QED BY <1>8, <3>1, <3>2, NextElems
    <2>3. Nat \subseteq S
      <3> HIDE DEF S
      <3> QED BY <2>1, <2>2, Induct
    <2> QED BY <1>0, <2>3
  <1>10. c \in [0 .. n -> Elems]
    <2>1. c = [k \in 0 .. n |-> c[k]]
      BY <1>6
    <2> HIDE DEF IsClean
    <2> QED BY <1>9, <2>1
  <1> QED BY <1>7, <1>8, <1>10

\* at is where one is after the first elements
LEMMA WalkFollows ==
    ASSUME NEW from \in Elems, NEW s \in Elems
    PROVE  \E at \in [0 .. Len(s) -> Elems] :
              /\ Follows(at, Walking, from, s)
              /\ WalkAlong(from, s) = at[Len(s)]
              /\ at[0] = from
              /\ \A k \in 1 .. Len(s) : at[k] = WalkNext(at[k - 1], s[k])
  <1> DEFINE n == Len(s)
  <1>0. n \in Nat
    BY DEF Elems
  <1>1. Walking \in [Elems \X Element -> Elems]
    BY NextElems DEF Walking
  <1>2. \A k \in 1 .. n : s[k] \in Element
    BY ElementOfSeq DEF Elems
  <1>3. PICK at \in [0 .. n -> Elems] : Follows(at, Walking, from, s)
    BY <1>0, <1>1, FollowsExists DEF Elems
  <1>4. \A f \in [0 .. n -> Elems] :
            [k \in 0 .. n |-> IF k = 0 THEN from ELSE Walking[<<f[k - 1], s[k]>>]]
            = [k \in 0 .. n |-> IF k = 0 THEN from
                                ELSE WalkNext(f[k - 1], s[k])]
    <2> SUFFICES ASSUME NEW f \in [0 .. n -> Elems], NEW k \in 0 .. n, k # 0
                 PROVE  Walking[<<f[k - 1], s[k]>>] = WalkNext(f[k - 1], s[k])
      OBVIOUS
    <2>1. k - 1 \in 0 .. n /\ k \in 1 .. n
      BY <1>0
    <2>2. f[k - 1] \in Elems /\ s[k] \in Element
      BY <1>2, <2>1
    <2> QED BY <2>2 DEF Walking
  <1> DEFINE IsWalk(f) ==
        f = [k \in 0 .. n |-> IF k = 0 THEN from ELSE WalkNext(f[k - 1], s[k])]
             w == CHOOSE f : IsWalk(f)
  <1>5. IsWalk(at)
    BY <1>3, <1>4 DEF Follows
  <1>6. IsWalk(w)
    <2> HIDE DEF IsWalk
    <2> QED BY <1>5
  <1>7. WalkAlong(from, s) = w[n]
    BY DEF WalkAlong
  <1> HIDE DEF w
  <1>8. /\ w[0] = from
        /\ \A k \in 1 .. n : w[k] = WalkNext(w[k - 1], s[k])
    <2>1. \A k \in 0 .. n : w[k] = IF k = 0 THEN from
                                   ELSE WalkNext(w[k - 1], s[k])
      BY <1>6
    <2>2. 0 \in 0 .. n /\ \A k \in 1 .. n : k \in 0 .. n /\ k # 0
      BY <1>0
    <2> QED BY <2>1, <2>2
  <1>9. \A k \in 0 .. n : w[k] \in Elems
    <2> DEFINE S == {k \in Nat : k <= n => w[k] \in Elems}
    <2>1. 0 \in S
      BY <1>8
    <2>2. ASSUME NEW k \in Nat, k \in S PROVE k + 1 \in S
      <3> SUFFICES ASSUME k + 1 <= n PROVE w[k + 1] \in Elems
        OBVIOUS
      <3>1. k + 1 \in 1 .. n /\ (k + 1) - 1 = k /\ w[k] \in Elems
        BY <1>0, <2>2
      <3> QED BY <1>2, <1>8, <3>1, NextElems
    <2>3. Nat \subseteq S
      <3> HIDE DEF S
      <3> QED BY <2>1, <2>2, Induct
    <2> QED BY <1>0, <2>3
  <1>10. w \in [0 .. n -> Elems]
    <2>1. w = [k \in 0 .. n |-> w[k]]
      BY <1>6
    <2> HIDE DEF IsWalk
    <2> QED BY <1>9, <2>1
  <1>11. Follows(w, Walking, from, s)
    <2>1. [k \in 0 .. n |-> IF k = 0 THEN from ELSE Walking[<<w[k - 1], s[k]>>]]
            = [k \in 0 .. n |-> IF k = 0 THEN from ELSE WalkNext(w[k - 1], s[k])]
      BY <1>4, <1>10
    <2> QED BY <1>6, <2>1 DEF Follows
  <1> QED BY <1>7, <1>8, <1>10, <1>11

\* One element more is one step more.
LEMMA WalkAppend ==
    ASSUME NEW from \in Elems, NEW s \in Elems, NEW e \in Element
    PROVE  WalkAlong(from, Append(s, e)) = WalkNext(WalkAlong(from, s), e)
  <1> DEFINE n == Len(s)
  <1>1. PICK t \in Elems : t = Append(s, e)
    BY AppendProperties DEF Elems
  <1>2. /\ n \in Nat /\ Len(t) = n + 1 /\ t[n + 1] = e
        /\ \A k \in 1 .. n : t[k] = s[k]
    BY <1>1, AppendProperties DEF Elems
  <1>3. PICK at \in [0 .. n -> Elems] :
            Follows(at, Walking, from, s) /\ WalkAlong(from, s) = at[n]
    BY WalkFollows
  <1>4. PICK to \in [0 .. Len(t) -> Elems] :
            /\ Follows(to, Walking, from, t)
            /\ WalkAlong(from, t) = to[Len(t)]
            /\ \A k \in 1 .. Len(t) : to[k] = WalkNext(to[k - 1], t[k])
    BY WalkFollows
  <1>5. at[n] = to[n]
    <2>1. PICK m \in Nat : m = n
      BY <1>2
    <2>2. s \in Seq(Element) /\ t \in Seq(Element)
      BY <1>1 DEF Elems
    <2>3. m <= Len(s) /\ m <= Len(t) /\ \A k \in 1 .. m : t[k] = s[k]
      BY <1>2, <2>1
    <2>4. at[m] = to[m]
      BY <1>3, <1>4, <2>2, <2>3, FollowsSame
    <2> QED BY <2>1, <2>4
  <1>6. n + 1 \in 1 .. Len(t) /\ (n + 1) - 1 = n
    BY <1>2
  <1>7. to[n + 1] = WalkNext(to[n], e)
    BY <1>2, <1>4, <1>6
  <1> QED BY <1>1, <1>2, <1>3, <1>4, <1>5, <1>7

LEMMA WalkNothing ==
    ASSUME NEW from \in Elems
    PROVE  WalkAlong(from, <<>>) = from
  <1>1. <<>> \in Elems /\ Len(<<>>) = 0
    BY DEF Elems
  <1> QED BY <1>1, WalkFollows

Relative(rooted) == ~rooted

\* a cleaned path: no empty element and no ".", and ".." only to leave the
\* directory, which a rooted path does not
CleanAt(rooted, es, i) ==
    /\ es[i] \notin {"", "."}
    /\ es[i] = ".." => Relative(rooted) /\ \A j \in 1 .. i : es[j] = ".."

Cleaned(rooted, es) ==
    es \in Elems /\ \A i \in 1 .. Len(es) : CleanAt(rooted, es, i)

\* A cleaned path is not changed by the elements to come, but for its end.
LEMMA CleanNextCleans ==
    ASSUME NEW rooted, NEW es, Cleaned(rooted, es), NEW e \in Element
    PROVE  Cleaned(rooted, CleanNext(rooted, es, e))
  <1> DEFINE n == Len(es)
             more == Append(es, e)
             less == Front(es)
  <1>1. es \in Seq(Element) /\ n \in Nat
    BY DEF Cleaned, Elems
  <1>2. /\ more \in Seq(Element) /\ Len(more) = n + 1 /\ more[n + 1] = e
        /\ \A k \in 1 .. n : more[k] = es[k]
    BY <1>1, AppendProperties
  <1>3. ASSUME es # <<>>
        PROVE  /\ less \in Seq(Element) /\ Len(less) = n - 1 /\ n > 0
               /\ \A k \in 1 .. n - 1 : less[k] = es[k]
    <2>1. PICK init \in Seq(Element), last \in Element :
            /\ init = Front(es) /\ Len(es) = Len(init) + 1
            /\ \A k \in 1 .. Len(init) : init[k] = es[k]
      BY <1>1, <1>3, TakenApart
    <2>2. Len(init) \in Nat
      BY LenProperties
    <2> QED BY <1>1, <2>1, <2>2
  <1> HIDE DEF more, less
  <1>4. CASE e \in {"", "."}
    BY <1>4 DEF CleanNext
  <1>5. CASE e \notin {"", ".", ".."}
    <2>1. Cleaned(rooted, more)
      <3> SUFFICES ASSUME NEW i \in 1 .. n + 1
                   PROVE  CleanAt(rooted, more, i)
        BY <1>2 DEF Cleaned, Elems
      <3>1. CASE i = n + 1
        BY <1>2, <1>5, <3>1 DEF CleanAt
      <3>2. CASE i # n + 1
        <4>1. i \in 1 .. n /\ \A j \in 1 .. i : j \in 1 .. n
          BY <1>1, <3>2
        <4>2. CleanAt(rooted, es, i)
          BY <4>1 DEF Cleaned
        <4> QED BY <1>2, <4>1, <4>2 DEF CleanAt
      <3> QED BY <3>1, <3>2
    <2> QED BY <1>5, <2>1 DEF CleanNext, more
  <1>6. CASE e = ".." /\ es # <<>> /\ Last(es) # ".."
    <2>1. Cleaned(rooted, less)
      <3> SUFFICES ASSUME NEW i \in 1 .. n - 1
                   PROVE  CleanAt(rooted, less, i)
        BY <1>3, <1>6 DEF Cleaned, Elems
      <3>1. i \in 1 .. n /\ \A j \in 1 .. i : j \in 1 .. n - 1
        BY <1>1
      <3>2. CleanAt(rooted, es, i)
        BY <3>1 DEF Cleaned
      <3> QED BY <1>3, <1>6, <3>1, <3>2 DEF CleanAt
    <2> QED BY <1>6, <2>1 DEF CleanNext, less
  <1>7. CASE e = ".." /\ ~(es # <<>> /\ Last(es) # "..") /\ rooted
    <2>1. CleanNext(rooted, es, e) = es
      BY <1>7 DEF CleanNext
    <2> QED BY <2>1
  <1>8. CASE e = ".." /\ ~(es # <<>> /\ Last(es) # "..") /\ ~rooted
    <2>1. Cleaned(rooted, more)
      <3>1. \A j \in 1 .. n : es[j] = ".."
        <4>1. n > 0 => es # <<>> /\ Last(es) = es[n] /\ n \in 1 .. n
          BY <1>1 DEF Last
        <4>2. n > 0 => CleanAt(rooted, es, n)
          BY <4>1 DEF Cleaned
        <4>3. n > 0 => es[n] = ".."
          BY <1>8, <4>1
        <4>4. n > 0 => \A j \in 1 .. n : es[j] = ".."
          BY <4>2, <4>3 DEF CleanAt
        <4>5. ~(n > 0) => 1 .. n = {}
          BY <1>1
        <4> HIDE <1>8
        <4> QED BY <4>4, <4>5
      <3>2. \A j \in 1 .. n + 1 : more[j] = ".."
        <4> SUFFICES ASSUME NEW j \in 1 .. n + 1 PROVE more[j] = ".."
          OBVIOUS
        <4>1. j = n + 1 \/ j \in 1 .. n
          BY <1>1
        <4> QED BY <1>2, <1>8, <3>1, <4>1
      <3>3. \A i \in 1 .. n + 1 : \A j \in 1 .. i : j \in 1 .. n + 1
        BY <1>1
      <3>4. Relative(rooted)
        BY <1>8, Zenon DEF Relative
      <3> HIDE <1>8
      <3>5. ASSUME NEW i \in 1 .. n + 1 PROVE CleanAt(rooted, more, i)
        BY <3>2, <3>3, <3>4 DEF CleanAt
      <3> QED BY <1>2, <3>5 DEF Cleaned, Elems
    <2>2. CleanNext(rooted, es, e) = more
      BY <1>8 DEF CleanNext, more
    <2> QED BY <2>1, <2>2
  <1> QED BY <1>4, <1>5, <1>6, <1>7, <1>8

\* A cleaned path leads on to where the path leads, and so does what is
\* cleaned next.
LEMMA CleanNextLeads ==
    ASSUME NEW rooted \in BOOLEAN, NEW es, Cleaned(rooted, es), NEW e \in Element,
           NEW from \in Elems, rooted => from = <<>>
    PROVE  WalkAlong(from, CleanNext(rooted, es, e))
            = WalkNext(WalkAlong(from, es), e)
  <1> DEFINE n == Len(es)
  <1>1. es \in Seq(Element) /\ n \in Nat /\ es \in Elems
    BY DEF Cleaned, Elems
  <1>2. WalkAlong(from, Append(es, e)) = WalkNext(WalkAlong(from, es), e)
    BY <1>1, WalkAppend
  <1>3. CASE e \in {"", "."}
    BY <1>3 DEF CleanNext, WalkNext
  <1>4. CASE e \notin {"", ".", ".."}
    BY <1>2, <1>4 DEF CleanNext
  <1>5. CASE e = ".." /\ es # <<>> /\ Last(es) # ".."
    <2>1. PICK init \in Elems, last \in Element :
            /\ es = Append(init, last) /\ init = Front(es) /\ last = Last(es)
      BY <1>1, <1>5, TakenApart DEF Elems
    <2>2. last = Last(es)
      BY <2>1
    <2>3. es = Append(init, last)
      BY <2>1
    <2>4. last \notin {"", ".", ".."}
      <3>1. n \in 1 .. n
        BY <1>1, <1>5
      <3>2. CleanAt(rooted, es, n)
        BY <3>1 DEF Cleaned
      <3> QED BY <1>5, <2>2, <3>2 DEF CleanAt, Last
    <2>5. PICK at \in Elems : at = WalkAlong(from, init)
      <3>1. PICK to \in [0 .. Len(init) -> Elems] :
                WalkAlong(from, init) = to[Len(init)]
        BY WalkFollows
      <3>2. Len(init) \in 0 .. Len(init)
        BY LenProperties DEF Elems
      <3> QED BY <3>1, <3>2
    <2>6. WalkAlong(from, es) = Append(at, last)
      BY <2>3, <2>4, <2>5, WalkAppend DEF WalkNext
    <2>7. Append(at, last) # <<>> /\ Front(Append(at, last)) = at
      <3>1. at \in Seq(Element)
        BY DEF Elems
      <3> QED BY <3>1, AppendTakenApart
    <2>8. WalkNext(Append(at, last), e) = at
      BY <1>5, <2>7 DEF WalkNext
    <2>9. CleanNext(rooted, es, e) = init
      BY <1>5, <2>1 DEF CleanNext
    <2> QED BY <2>5, <2>6, <2>8, <2>9
  <1>6. CASE e = ".." /\ ~(es # <<>> /\ Last(es) # "..") /\ rooted
    <2>1. es = <<>>
      <3> SUFFICES ASSUME es # <<>> PROVE FALSE
        OBVIOUS
      <3>1. n \in 1 .. n /\ es[n] = ".."
        BY <1>1, <1>6 DEF Last
      <3>2. Relative(rooted)
        BY <3>1 DEF Cleaned, CleanAt
      <3> QED BY <1>6, <3>2, Zenon DEF Relative
    <2>2. WalkAlong(from, es) = <<>>
      BY <1>6, <2>1, WalkNothing
    <2> QED BY <1>6, <2>1, <2>2 DEF CleanNext, WalkNext
  <1>7. CASE e = ".." /\ ~(es # <<>> /\ Last(es) # "..") /\ ~rooted
    BY <1>2, <1>7 DEF CleanNext
  <1> QED BY <1>3, <1>4, <1>5, <1>6, <1>7

\* Clean gives a cleaned path that leads where the path leads.
LEMMA CleanLeads ==
    ASSUME NEW p, p.elems \in Elems, p.rooted \in BOOLEAN
    PROVE  /\ Cleaned(p.rooted, Clean(p))
           /\ \A from \in Elems :
                (p.rooted => from = <<>>) =>
                    WalkAlong(from, Clean(p)) = WalkAlong(from, p.elems)
  <1> DEFINE s == p.elems
             n == Len(p.elems)
  <1>0. n \in Nat /\ \A k \in 1 .. n : s[k] \in Element
    BY ElementOfSeq DEF Elems
  <1>1. PICK es \in [0 .. n -> Elems] :
            /\ Clean(p) = es[n] /\ es[0] = <<>>
            /\ \A k \in 1 .. n : es[k] = CleanNext(p.rooted, es[k - 1], s[k])
    BY CleanFollows
  <1>2. \A k \in Nat : k + 1 <= n => k + 1 \in 1 .. n /\ (k + 1) - 1 = k
    BY <1>0
  <1>3. \A k \in 0 .. n : Cleaned(p.rooted, es[k])
    <2> DEFINE S == {k \in Nat : k <= n => Cleaned(p.rooted, es[k])}
    <2>1. 0 \in S
      <3>1. Cleaned(p.rooted, <<>>)
        BY DEF Cleaned, Elems
      <3> QED BY <1>1, <3>1
    <2>2. ASSUME NEW k \in Nat, k \in S PROVE k + 1 \in S
      <3> SUFFICES ASSUME k + 1 <= n PROVE Cleaned(p.rooted, es[k + 1])
        OBVIOUS
      <3>1. Cleaned(p.rooted, es[k]) /\ k + 1 \in 1 .. n /\ (k + 1) - 1 = k
        BY <1>0, <1>2, <2>2
      <3>2. es[k + 1] = CleanNext(p.rooted, es[k], s[k + 1])
        BY <1>1, <3>1
      <3> QED BY <1>0, <3>1, <3>2, CleanNextCleans
    <2>3. Nat \subseteq S
      <3> HIDE DEF S
      <3> QED BY <2>1, <2>2, Induct
    <2> QED BY <1>0, <2>3
  <1>4. ASSUME NEW from \in Elems, p.rooted => from = <<>>
        PROVE  WalkAlong(from, Clean(p)) = WalkAlong(from, s)
    <2>1. PICK at \in [0 .. n -> Elems] :
            /\ WalkAlong(from, s) = at[n] /\ at[0] = from
            /\ \A k \in 1 .. n : at[k] = WalkNext(at[k - 1], s[k])
      BY WalkFollows
    <2> DEFINE S == {k \in Nat : k <= n => WalkAlong(from, es[k]) = at[k]}
    <2>2. 0 \in S
      BY <1>1, <2>1, WalkNothing
    <2>3. ASSUME NEW k \in Nat, k \in S PROVE k + 1 \in S
      <3> SUFFICES ASSUME k + 1 <= n PROVE WalkAlong(from, es[k + 1]) = at[k + 1]
        OBVIOUS
      <3>1. /\ WalkAlong(from, es[k]) = at[k]
            /\ k + 1 \in 1 .. n /\ (k + 1) - 1 = k /\ k \in 0 .. n
        BY <1>0, <1>2, <2>3
      <3>2. es[k + 1] = CleanNext(p.rooted, es[k], s[k + 1])
        BY <1>1, <3>1
      <3>3. at[k + 1] = WalkNext(at[k], s[k + 1])
        BY <2>1, <3>1
      <3>4. Cleaned(p.rooted, es[k]) /\ s[k + 1] \in Element
        BY <1>0, <1>3, <3>1
      <3> QED BY <1>4, <3>1, <3>2, <3>3, <3>4, CleanNextLeads
    <2>4. Nat \subseteq S
      <3> HIDE DEF S
      <3> QED BY <2>2, <2>3, Induct
    <2> QED BY <1>0, <1>1, <2>1, <2>4
  <1>5. Cleaned(p.rooted, Clean(p))
    <2>1. n \in 0 .. n
      BY <1>0
    <2> QED BY <1>1, <1>3, <2>1
  <1> QED BY <1>4, <1>5

-----------------------------------------------------------------------------
(***************************************************************************)
(* ValidPathFs.                                                            *)
(***************************************************************************)
AllPaths == [rooted : BOOLEAN, elems : Elems]

\* v is a path fs.ValidPath takes, the root, or one that leaves its directory
\* (a rooted one does not)
Fits(raw, v) ==
    \/ ValidPath(v)
    \/ v = Empty /\ RootOrNone(raw)
    \/ Above(v) /\ Relative(raw.rooted)

\* and leads where raw leads
Leads(raw, v) ==
    /\ Fits(raw, v)
    /\ \A from \in Elems :
        Walk(IF raw.rooted THEN <<>> ELSE from, v) = Walk(from, raw)

LEMMA CleanedFits ==
    ASSUME NEW rooted, NEW es, Cleaned(rooted, es), es # <<>>
    PROVE  \/ ValidPath(Path(FALSE, es))
           \/ Above(Path(FALSE, es)) /\ Relative(rooted)
  <1> DEFINE v == Path(FALSE, es)
  <1>1. v.elems = es /\ ~ v.rooted
    BY DEF Path
  <1>2. DOMAIN es = 1 .. Len(es) /\ 1 \in DOMAIN es
    <2>1. es \in Seq(Element)
      BY DEF Cleaned, Elems
    <2>2. Len(es) \in Nat /\ Len(es) # 0
      BY <2>1, EmptySeq, LenProperties
    <2> QED BY <2>1, <2>2, LenProperties
  <1> HIDE DEF v
  <1>3. ASSUME NEW i \in DOMAIN es
        PROVE  /\ es[i] \notin {"", "."} /\ 1 \in 1 .. i
               /\ es[i] = ".." => /\ Relative(rooted)
                                  /\ \A j \in 1 .. i : es[j] = ".."
    <2>1. i \in 1 .. Len(es) /\ 1 \in 1 .. i
      BY <1>2
    <2> QED BY <2>1 DEF Cleaned, CleanAt
  <1>4. CASE es[1] = ".."
    <2>1. Above(v)
      BY <1>1, <1>3, <1>4 DEF Above
    <2>2. Relative(rooted)
      BY <1>2, <1>3, <1>4
    <2> QED BY <2>1, <2>2 DEF v
  <1>5. CASE es[1] # ".."
    <2>1. \A i \in DOMAIN es : es[i] \notin {"", ".", ".."}
      BY <1>3, <1>5
    <2>2. ValidPath(v)
      BY <1>1, <2>1 DEF ValidPath
    <2> QED BY <2>2 DEF v
  <1> QED BY <1>4, <1>5

(***************************************************************************)
(* toFsPath converts every path as it should.                              *)
(***************************************************************************)
LEMMA toFsPathLeads ==
    ASSUME NEW p \in AllPaths
    PROVE  Leads(p, toFsPath(p))
  <1> DEFINE c == Clean(p)
  <1>1. /\ p.rooted \in BOOLEAN /\ p.elems \in Elems
        /\ p = [rooted |-> p.rooted, elems |-> p.elems]
    BY DEF AllPaths
  <1>2. /\ Cleaned(p.rooted, c)
        /\ \A from \in Elems : (p.rooted => from = <<>>) =>
                WalkAlong(from, c) = WalkAlong(from, p.elems)
    BY <1>1, CleanLeads
  <1>3. <<>> \in Elems /\ c \in Elems
    BY <1>2, EmptySeq DEF Elems, Cleaned
  <1>4. \A es : Path(FALSE, es).elems = es /\ Path(FALSE, es).rooted = FALSE
    BY DEF Path
  <1>5. \A from, es : Walk(from, Path(FALSE, es)) = WalkAlong(from, es)
    BY <1>4 DEF Walk
  <1>6. Empty = Path(FALSE, <<>>)
    BY DEF Empty
  <1> HIDE DEF c
  \* what leads from where p leads
  <1> DEFINE start(from) == IF p.rooted THEN <<>> ELSE from
  <1>7. \A from \in Elems : /\ start(from) \in Elems
                            /\ p.rooted => start(from) = <<>>
    BY <1>3
  <1>8. \A from : Walk(from, p) = WalkAlong(start(from), p.elems)
    BY DEF Walk
  <1> HIDE DEF start
  <1>9. ASSUME NEW v, v.rooted = FALSE,
               \A from \in Elems : WalkAlong(start(from), v.elems)
                                    = WalkAlong(start(from), c)
        PROVE  \A from \in Elems : Walk(start(from), v) = Walk(from, p)
    <2> SUFFICES ASSUME NEW from \in Elems
                 PROVE  Walk(start(from), v) = Walk(from, p)
      OBVIOUS
    <2>1. Walk(start(from), v) = WalkAlong(start(from), v.elems)
      BY <1>9 DEF Walk
    <2>2. WalkAlong(start(from), c) = WalkAlong(start(from), p.elems)
      BY <1>2, <1>7
    <2> QED BY <1>8, <1>9, <2>1, <2>2
  <1>10. CASE p = Empty
    <2>1. toFsPath(p) = Empty /\ p.rooted = FALSE /\ p.elems = <<>>
      BY <1>4, <1>6, <1>10 DEF toFsPath
    <2>2. Fits(p, Empty)
      BY <1>10, <2>1 DEF Fits, RootOrNone
    <2>3. \A from \in Elems :
            Walk(IF p.rooted THEN <<>> ELSE from, Empty) = Walk(from, p)
      BY <1>10, <2>1
    <2> QED BY <1>10, <2>1, <2>2, <2>3 DEF Leads
  <1>11. CASE p # Empty /\ c = <<>> /\ p.rooted = FALSE
    <2> DEFINE v == Path(FALSE, <<".">>)
    <2>1. toFsPath(p) = v
      BY <1>11 DEF toFsPath, c
    <2>2. v.elems = <<".">> /\ v.rooted = FALSE
      BY <1>4
    <2> HIDE DEF v
    <2>4. Fits(p, v)
      <3>1. ValidPath(v)
        BY <2>2 DEF ValidPath
      <3> QED BY <3>1 DEF Fits
    <2>5. \A from \in Elems :
            WalkAlong(start(from), v.elems) = WalkAlong(start(from), c)
      <3> SUFFICES ASSUME NEW from \in Elems
                   PROVE  WalkAlong(start(from), <<".">>)
                            = WalkAlong(start(from), <<>>)
        BY <1>11, <2>2
      <3>1. "." \in Element
        BY DEF Element
      <3>2. Append(<<>>, ".") = <<".">>
        OBVIOUS
      <3>3. WalkAlong(start(from), Append(<<>>, "."))
                = WalkNext(WalkAlong(start(from), <<>>), ".")
        BY <1>3, <1>7, <3>1, WalkAppend
      <3> QED BY <3>2, <3>3 DEF WalkNext
    <2>6. \A from \in Elems : Walk(start(from), v) = Walk(from, p)
      BY <1>9, <2>2, <2>5
    <2> QED BY <2>1, <2>4, <2>6 DEF Leads, start
  <1>12. CASE p # Empty /\ ~(c = <<>> /\ p.rooted = FALSE)
    <2> DEFINE v == Path(FALSE, c)
    <2>1. toFsPath(p) = v
      <3>1. ~(c = <<>> /\ ~p.rooted)
        BY <1>1, <1>12
      <3> QED BY <1>12, <3>1 DEF toFsPath, c
    <2>2. v.elems = c /\ v.rooted = FALSE
      BY <1>4
    <2>3. \A from \in Elems : Walk(start(from), v) = Walk(from, p)
      <3> HIDE DEF v
      <3> QED BY <1>9, <2>2
    <2>4. ASSUME c # <<>> PROVE Fits(p, v)
      <3>1. ValidPath(v) \/ (Above(v) /\ Relative(p.rooted))
        BY <1>2, <2>4, CleanedFits
      <3> QED BY <3>1 DEF Fits
    <2>5. ASSUME c = <<>> PROVE Fits(p, v)
      <3>1. v = Empty /\ p.rooted = TRUE
        BY <1>1, <1>6, <1>12, <2>5
      <3>2. start(<<>>) = <<>>
        BY <3>1 DEF start
      <3>3. Walk(<<>>, p) = Walk(<<>>, v)
        BY <1>3, <2>3, <3>2
      <3>4. Walk(<<>>, p) = <<>>
        BY <1>3, <1>5, <3>1, <3>3, <1>6, WalkNothing
      <3>5. RootOrNone(p)
        BY <3>1, <3>4 DEF RootOrNone
      <3> QED BY <3>1, <3>5 DEF Fits
    <2> HIDE DEF v
    <2> QED BY <2>1, <2>3, <2>4, <2>5 DEF Leads, start
  <1> QED BY <1>1, <1>10, <1>11, <1>12

-----------------------------------------------------------------------------
(***************************************************************************)
(* The paths of a call: those that the inner method is to be given, and    *)
(* the name of the Fs.                                                     *)
(***************************************************************************)
LEMMA PathsAreStrings ==
    ASSUME NEW w \in wrappers
    PROVE  Paths[w] \subseteq AllPaths
  <1>1. Seq(STRING) \subseteq Elems
    <2> SUFFICES ASSUME NEW s \in Seq(STRING) PROVE s \in Elems
      OBVIOUS
    <2>1. /\ Len(s) \in Nat /\ s = [i \in 1 .. Len(s) |-> s[i]]
          /\ \A i \in 1 .. Len(s) : s[i] \in Element
      BY ElementOfSeq, SeqDef, LenProperties DEF Element
    <2> QED BY <2>1, SeqDef DEF Elems
  <1>2. Paths[w] \subseteq [rooted : BOOLEAN, elems : Seq(STRING)]
    BY WrapperAssumption
  <1> QED BY <1>1, <1>2 DEF AllPaths

LEMMA NoPathOfFile ==
    ASSUME NEW m \in DOMAIN fileMethods
    PROVE  fileMethods[m].arg \cap PathFields = {}
  <1> DEFINE Fields == {PF, OffF, NF, StringF}
  <1>1. Fields \cap PathFields = {}
    BY DEF PF, OffF, NF, StringF, PathFields, NameF, PathF, OldF, NewF
  <1>2. /\ {} \subseteq Fields /\ {PF} \subseteq Fields /\ {NF} \subseteq Fields
        /\ {PF, OffF} \subseteq Fields /\ {StringF} \subseteq Fields
    OBVIOUS
  <1> HIDE DEF Fields
  <1>3. fileMethods[m].arg \subseteq Fields
    BY <1>2 DEF fileMethods, Method
  <1> QED BY <1>1, <1>3

LEMMA NameOfFs ==
    fsysMethods["Name"].arg = {} /\ fsysMethods["Name"].ret = {NameF}
  BY DEF fsysMethods, Method

\* every field that is a path has a modifier
LEMMA PathFieldsModified ==
    ASSUME NEW fields, NEW f \in fields, f \in PathFields
    PROVE  Modifies("ValidPathFs", "modifyPath", f, fields)
  <1>1. "modifyPath" \in Hooks["ValidPathFs"]
    BY DEF Hooks
  <1>2. PICK fs \in {{NameF, Unnamed}, {PathF, Unnamed}, {OldF, NewF}} : f \in fs
    BY DEF PathFields
  <1> DEFINE mod == [f |-> fs, hook |-> "modifyPath"]
  <1>3. mod \in modifiers
    BY DEF modifiers
  <1>4. mod.f = fs /\ mod.hook = "modifyPath"
    OBVIOUS
  <1> HIDE DEF mod
  <1>5. Match(mod, fields)
    BY <1>2, <1>4 DEF Match
  <1> QED BY <1>1, <1>2, <1>3, <1>4, <1>5 DEF Modifies

Function(f) == f = [x \in DOMAIN f |-> f[x]]

Converted(k) ==
    k.pc \in {"before", "beforeAppend", "inner"} =>
        \A f \in DOMAIN k.vals : Leads(k.raw[f], k.vals[f])
Named(k) ==
    k.m = "Name" => /\ k.vals = k.raw
                    /\ k.pc # "idle" => Function(k.vals)
PathsOf(k) == Converted(k) /\ Named(k)

PathInv == wrapper = "ValidPathFs" => \A c \in Callers : PathsOf(call[c])

LEMMA MovesPaths ==
    ASSUME Types, PathInv, NEW c \in Callers, NEW k, Moves(c, k),
           wrapper' = wrapper, wrapper = "ValidPathFs" => PathsOf(k)
    PROVE  PathInv'
  <1>1. /\ call'[c] = k
        /\ \A d \in Callers : d # c => call'[d] = call[d]
    BY MovesCalls
  <1>2. ASSUME wrapper = "ValidPathFs", NEW d \in Callers
        PROVE  PathsOf(call'[d])
    BY <1>1, <1>2 DEF PathInv
  <1> QED BY <1>2 DEF PathInv, PathsOf, Converted, Named

\* the paths a method is called with, as the hooks leave them
LEMMA ModifiedLeads ==
    ASSUME wrapper = "ValidPathFs", NEW m, NEW arg,
           m = "Name" => arg = {},
           NEW vals \in [arg \cap PathFields -> AllPaths]
    PROVE  /\ \A f \in DOMAIN Modified(m, arg, vals) :
                Leads(vals[f], Modified(m, arg, vals)[f])
           /\ m = "Name" => /\ Modified(m, arg, vals) = vals
                            /\ Function(vals)
  <1>1. /\ DOMAIN Modified(m, arg, vals) = arg \cap PathFields
        /\ DOMAIN vals = arg \cap PathFields
        /\ vals = [f \in arg \cap PathFields |-> vals[f]]
    BY DEF Modified
  <1>2. ASSUME NEW f \in arg \cap PathFields
        PROVE  Leads(vals[f], Modified(m, arg, vals)[f])
    <2>1. Modifies(wrapper, "modifyPath", f, arg)
      BY PathFieldsModified
    <2>2. m # "Name"
      OBVIOUS
    <2>3. Modified(m, arg, vals)[f] = toFsPath(vals[f])
      BY <1>1, <2>1, <2>2 DEF Modified, modifyPath
    <2> QED BY <2>3, toFsPathLeads
  <1>3. ASSUME m = "Name" PROVE Modified(m, arg, vals) = vals /\ Function(vals)
    <2>1. arg \cap PathFields = {}
      BY <1>3
    <2>2. Modified(m, arg, vals) = [f \in {} |-> vals[f]]
      BY <1>1, <2>1 DEF Modified
    <2> QED BY <1>1, <2>1, <2>2 DEF Function
  <1> QED BY <1>1, <1>2, <1>3

LEMMA CallPaths ==
    ASSUME IInv, PathInv, NEW c \in Callers, Call(c)
    PROVE  PathInv'
  <1> SUFFICES ASSUME wrapper = "ValidPathFs" PROVE PathInv'
    BY DEF PathInv, Call
  <1>1. PICK on \in {"fs"} \cup files :
        \E m \in IF on = "fs" THEN Used[wrapper].fs ELSE Used[wrapper].file :
            LET def == IF on = "fs" THEN fsysMethods[m] ELSE fileMethods[m] IN
            \E vals \in [def.arg \cap PathFields -> Paths[wrapper]] :
                call' = [call EXCEPT ![c] =
                    [NoCall EXCEPT
                        !.pc = IF Wraps(on, "beforeEach") THEN "before"
                               ELSE "inner",
                        !.id = calls + 1, !.on = on, !.m = m, !.raw = vals,
                        !.vals = IF on = "fs" THEN Modified(m, def.arg, vals)
                                 ELSE vals]]
    BY DEF Call
  <1>2. PICK m \in IF on = "fs" THEN Used[wrapper].fs ELSE Used[wrapper].file :
            LET def == IF on = "fs" THEN fsysMethods[m] ELSE fileMethods[m] IN
            \E vals \in [def.arg \cap PathFields -> Paths[wrapper]] :
                call' = [call EXCEPT ![c] =
                    [NoCall EXCEPT
                        !.pc = IF Wraps(on, "beforeEach") THEN "before"
                               ELSE "inner",
                        !.id = calls + 1, !.on = on, !.m = m, !.raw = vals,
                        !.vals = IF on = "fs" THEN Modified(m, def.arg, vals)
                                 ELSE vals]]
    BY <1>1
  <1> DEFINE def == IF on = "fs" THEN fsysMethods[m] ELSE fileMethods[m]
  <1>3. PICK raw \in [def.arg \cap PathFields -> Paths[wrapper]] :
                call' = [call EXCEPT ![c] =
                    [NoCall EXCEPT
                        !.pc = IF Wraps(on, "beforeEach") THEN "before"
                               ELSE "inner",
                        !.id = calls + 1, !.on = on, !.m = m, !.raw = raw,
                        !.vals = IF on = "fs" THEN Modified(m, def.arg, raw)
                                 ELSE raw]]
    BY <1>2
  <1> DEFINE vals == IF on = "fs" THEN Modified(m, def.arg, raw) ELSE raw
             k == call'[c]
  <1>4. Types /\ Types'
    BY CallKeeps DEF IInv
  <1>5. call' = [call EXCEPT ![c] = k]
    BY <1>3, <1>4 DEF Types, OfCallers
  <1>6. k.raw = raw /\ k.vals = vals /\ k.m = m
    <2>1. call[c] \in {call[c]} /\ call = [d \in Callers |-> call[d]]
      BY <1>4 DEF Types, OfCallers
    <2> QED BY <1>3, <2>1 DEF NoCall
  <1>7. Moves(c, k)
    BY <1>4, <1>5 DEF Moves, Types
  <1>8. wrapper' = wrapper
    BY DEF Call
  <1>9. /\ wrapper \in wrappers
        /\ m \in IF on = "fs" THEN DOMAIN fsysMethods ELSE DOMAIN fileMethods
    BY <1>2, <1>4, WrapperAssumption DEF Types
  <1> HIDE DEF k
  <1>10. CASE on = "fs"
    <2>1. m = "Name" => fsysMethods[m].arg = {}
      BY NameOfFs
    <2>2. raw \in [fsysMethods[m].arg \cap PathFields -> AllPaths]
      BY <1>3, <1>9, <1>10, PathsAreStrings
    <2>3. vals = Modified(m, fsysMethods[m].arg, raw)
      BY <1>10
    <2>4. /\ \A f \in DOMAIN vals : Leads(raw[f], vals[f])
          /\ m = "Name" => vals = raw /\ Function(raw)
      <3> DEFINE arg == fsysMethods[m].arg
      <3> HIDE DEF arg, vals
      <3>1. /\ m = "Name" => arg = {}
            /\ raw \in [arg \cap PathFields -> AllPaths]
            /\ vals = Modified(m, arg, raw)
        BY <2>1, <2>2, <2>3 DEF arg
      <3> QED BY <3>1, ModifiedLeads
    <2> HIDE DEF vals
    <2>5. PathsOf(k)
      BY <1>6, <2>4 DEF PathsOf, Converted, Named
    <2> QED BY <1>4, <1>7, <1>8, <2>5, MovesPaths
  <1>11. CASE on # "fs"
    <2>1. raw \in [{} -> Paths[wrapper]] /\ vals = raw
      BY <1>3, <1>9, <1>11, NoPathOfFile
    <2>2. DOMAIN raw = {} /\ Function(raw)
      BY <2>1 DEF Function
    <2> HIDE DEF vals
    <2>3. PathsOf(k)
      BY <1>6, <2>1, <2>2 DEF PathsOf, Converted, Named
    <2> QED BY <1>4, <1>7, <1>8, <2>3, MovesPaths
  <1> QED BY <1>10, <1>11

LEMMA RecordPaths ==
    ASSUME IInv, PathInv, NEW c \in Callers, RecordLock(c) \/ RecordAppend(c)
    PROVE  PathInv'
  <1>1. Types /\ Types'
    BY LockKeeps, AppendKeeps DEF IInv
  <1> DEFINE k == call'[c]
  <1>2. /\ k.raw = call[c].raw /\ k.vals = call[c].vals /\ k.m = call[c].m
        /\ k.pc \in {"before", "beforeAppend", "inner"} =>
            call[c].pc \in {"before", "beforeAppend", "inner"}
        /\ call[c].pc # "idle"
        /\ call' = [call EXCEPT ![c] = k]
        /\ wrapper' = wrapper
    <2>1. call = [d \in Callers |-> call[d]] /\ IsCall(call[c])
      BY <1>1 DEF Types, OfCallers
    <2>2. CASE RecordLock(c)
      BY <2>1, <2>2 DEF RecordLock, IsCall, Calls
    <2>3. CASE RecordAppend(c)
      BY <2>1, <2>3 DEF RecordAppend, IsCall, Calls
    <2> QED BY <2>2, <2>3
  <1>3. Moves(c, k)
    BY <1>1, <1>2 DEF Moves, Types
  <1> HIDE DEF k
  <1>4. wrapper = "ValidPathFs" => PathsOf(k)
    BY <1>2 DEF PathInv, PathsOf, Converted, Named
  <1> QED BY <1>1, <1>2, <1>3, <1>4, MovesPaths

LEMMA InnerPaths ==
    ASSUME IInv, PathInv, NEW c \in Callers, InnerCall(c)
    PROVE  PathInv'
  <1>1. Types /\ Types'
    BY InnerKeeps DEF IInv
  <1> DEFINE k == call'[c]
             ret == (IF call[c].on = "fs" THEN fsysMethods[call[c].m]
                     ELSE fileMethods[call[c].m]).ret
  <1>2. PICK vals \in IF NameF \in ret THEN [{NameF} -> Paths[wrapper]]
                      ELSE {call[c].vals} :
            /\ k.vals = vals
            /\ k.raw = IF NameF \in ret THEN vals ELSE call[c].raw
            /\ k.m = call[c].m /\ k.pc \in {"after", "ret"}
            /\ call' = [call EXCEPT ![c] = k]
    <2>1. call = [d \in Callers |-> call[d]] /\ IsCall(call[c])
      BY <1>1 DEF Types, OfCallers
    <2>2. PICK err \in IF ErrF \in ret THEN BOOLEAN ELSE {FALSE} :
        \E vals \in IF NameF \in ret THEN [{NameF} -> Paths[wrapper]]
                   ELSE {call[c].vals} :
            call' = [call EXCEPT
                ![c].err = err, ![c].file = FileF \in ret /\ ~err,
                ![c].vals = vals,
                ![c].raw = IF NameF \in ret THEN vals ELSE @,
                ![c].pc = IF Wraps(call[c].on, "afterEach") THEN "after"
                          ELSE "ret"]
      BY DEF InnerCall
    <2> DEFINE old == call[c].raw
               pc0 == IF Wraps(call[c].on, "afterEach") THEN "after" ELSE "ret"
               named == NameF \in ret
               file == FileF \in ret /\ ~err
    <2>3. PICK vals \in IF named THEN [{NameF} -> Paths[wrapper]]
                        ELSE {call[c].vals} :
            call' = [call EXCEPT
                ![c].err = err, ![c].file = file, ![c].vals = vals,
                ![c].raw = IF named THEN vals ELSE @, ![c].pc = pc0]
      BY <2>2
    <2>4. pc0 \in {"after", "ret"}
      OBVIOUS
    <2> HIDE DEF ret, pc0, named, file
    <2>5. k = [call[c] EXCEPT !.err = err, !.file = file, !.vals = vals,
                              !.raw = IF named THEN vals ELSE @, !.pc = pc0]
      BY <2>1, <2>3
    <2>6. call' = [call EXCEPT ![c] = k]
      BY <2>1, <2>3
    <2> HIDE DEF k
    <2>7. /\ k.vals = vals /\ k.raw = IF named THEN vals ELSE old
          /\ k.m = call[c].m /\ k.pc = pc0
      BY <2>1, <2>5 DEF IsCall, Calls
    <2> QED BY <2>3, <2>4, <2>6, <2>7 DEF named
  <1>3. wrapper' = wrapper /\ call[c].pc = "inner"
    BY DEF InnerCall
  <1>4. Moves(c, k)
    BY <1>1, <1>2 DEF Moves, Types
  <1> HIDE DEF k, ret
  <1>5. NameF \in ret => Function(vals)
    BY <1>2 DEF Function
  <1>6. wrapper = "ValidPathFs" => PathsOf(k)
    BY <1>2, <1>3, <1>5 DEF PathInv, PathsOf, Converted, Named
  <1> QED BY <1>1, <1>3, <1>4, <1>6, MovesPaths

LEMMA RetPaths ==
    ASSUME IInv, PathInv, NEW c \in Callers, Ret(c)
    PROVE  PathInv'
  <1>1. Types /\ Types'
    BY RetKeeps DEF IInv
  <1> DEFINE k == call'[c]
             vals == IF call[c].on = "fs"
                     THEN Modified(call[c].m, fsysMethods[call[c].m].ret,
                                   call[c].vals)
                     ELSE call[c].vals
  <1>2. /\ k.pc = "idle" /\ k.m = call[c].m /\ k.raw = call[c].raw
        /\ k.vals = vals /\ call' = [call EXCEPT ![c] = k]
    <2>1. call = [d \in Callers |-> call[d]] /\ IsCall(call[c])
      BY <1>1 DEF Types, OfCallers
    <2>2. call' = [call EXCEPT ![c] = [call[c] EXCEPT !.pc = "idle", !.vals = vals]]
      BY DEF Ret
    <2> HIDE DEF vals
    <2> QED BY <2>1, <2>2 DEF IsCall, Calls
  <1>3. wrapper' = wrapper /\ call[c].pc = "ret"
    BY DEF Ret
  <1>4. Moves(c, k)
    BY <1>1, <1>2 DEF Moves, Types
  <1>5. call[c].m = "Name" /\ Function(call[c].vals) => vals = call[c].vals
    BY DEF Modified, modifyPath, Function
  <1> HIDE DEF k, vals
  <1>6. wrapper = "ValidPathFs" => PathsOf(k)
    BY <1>2, <1>3, <1>5 DEF PathInv, PathsOf, Converted, Named
  <1> QED BY <1>1, <1>3, <1>4, <1>6, MovesPaths

LEMMA InitPaths == Init => PathInv
  <1> SUFFICES ASSUME Init, NEW c \in Callers PROVE PathsOf(call[c])
    BY DEF PathInv
  <1>1. call[c] = NoCall
    BY DEF Init
  <1>2. NoCall.pc = "idle" /\ NoCall.vals = NoCall.raw
    BY DEF NoCall
  <1> QED BY <1>1, <1>2 DEF PathsOf, Converted, Named

LEMMA StepPaths == IInv /\ PathInv /\ [Next]_vars => PathInv'
  <1> SUFFICES ASSUME IInv, PathInv, [Next]_vars PROVE PathInv'
    OBVIOUS
  <1>1. ASSUME NEW c \in Callers,
               \/ Call(c) \/ RecordLock(c) \/ RecordAppend(c)
               \/ InnerCall(c) \/ Ret(c)
        PROVE  PathInv'
    BY <1>1, CallPaths, RecordPaths, InnerPaths, RetPaths
  <1>2. CASE UNCHANGED vars
    BY <1>2 DEF vars, PathInv, PathsOf, Converted, Named
  <1> QED BY <1>1, <1>2 DEF Next

(***************************************************************************)
(* Whatever path ValidPathFs is given, of any length and with whatever     *)
(* elements: the one the wrapped Fs is given leads to the same place from  *)
(* every directory, and is one fs.ValidPath takes, unless the caller named *)
(* the root, which comes as the empty path, or a path that is not rooted   *)
(* and leaves its directory, which keeps its leading "..".  The name of    *)
(* the Fs is left as it is (valid_path.go).                                *)
(***************************************************************************)
THEOREM EveryPathConverted == Spec => []PathsConverted
  <1>1. PathInv => PathsConverted
    <2> DEFINE Froms == {<<>>, <<"x">>, <<"x", "y", "z">>}
    <2>1. Froms \subseteq Elems
      BY DEF Elems, Element
    <2> HIDE DEF Froms
    <2> SUFFICES ASSUME PathInv, wrapper = "ValidPathFs",
                        NEW c \in Callers, NEW k, k = call[c]
                 PROVE  /\ k.pc = "inner" => \A f \in DOMAIN k.vals :
                            /\ \/ ValidPath(k.vals[f])
                               \/ k.vals[f] = Empty /\ RootOrNone(k.raw[f])
                               \/ Above(k.vals[f]) /\ ~ k.raw[f].rooted
                            /\ \A from \in Froms :
                                Walk(IF k.raw[f].rooted THEN <<>> ELSE from,
                                     k.vals[f]) = Walk(from, k.raw[f])
                        /\ k.pc = "idle" /\ k.m = "Name" => k.vals = k.raw
      BY Zenon DEF PathsConverted, Froms
    <2>2. PathsOf(k)
      BY DEF PathInv
    <2>3. ASSUME k.pc = "inner", NEW f \in DOMAIN k.vals
          PROVE  Leads(k.raw[f], k.vals[f])
      BY <2>2, <2>3 DEF PathsOf, Converted
    <2>4. k.pc = "idle" /\ k.m = "Name" => k.vals = k.raw
      BY <2>2 DEF PathsOf, Named
    <2> QED BY <2>1, <2>3, <2>4 DEF Leads, Fits, Relative
  <1>2. Init => PathInv
    BY InitPaths
  <1>3. IInv /\ PathInv /\ [Next]_vars => PathInv'
    BY StepPaths
  <1> QED BY <1>1, <1>2, <1>3, Inductive, PTL DEF Spec
=============================================================================
