---------------------------- MODULE SynthFsProofs ----------------------------
(***************************************************************************)
(* Proofs about SynthFs, for every number of goroutines, every set of      *)
(* paths and names and every interleaving.  First the types, that the two  *)
(* ways a directory keeps its entries agree, and that the entries change   *)
(* only while permission bits allow it; then that the entries form a tree, *)
(* and that RemoveAll finds the directories it goes back to.               *)
(***************************************************************************)
EXTENDS SynthFs, SequenceTheorems, FiniteSetTheorems, TLAPS

-----------------------------------------------------------------------------
(***************************************************************************)
(* What removal does to a list in which nothing is twice.                  *)
(***************************************************************************)
Injective(list) == \A i, j \in DOMAIN list : list[i] = list[j] => i = j

\* Removing the element at i shifts the later ones down by one.
LEMMA RemoveAtElements ==
    ASSUME NEW S, NEW list \in Seq(S), NEW i \in 1..Len(list)
    PROVE  /\ RemoveAt(list, i) \in Seq(S)
           /\ Len(RemoveAt(list, i)) = Len(list) - 1
           /\ \A j \in 1..(Len(list) - 1) :
                 RemoveAt(list, i)[j] = IF j < i THEN list[j] ELSE list[j + 1]
<1> DEFINE front == SubSeq(list, 1, i - 1)
           back == SubSeq(list, i + 1, Len(list))
<1>1. Len(list) \in Nat /\ i \in Nat /\ i >= 1 /\ i <= Len(list)
  OBVIOUS
<1>2. /\ front \in Seq(S)
      /\ Len(front) = i - 1
      /\ \A j \in 1..(i - 1) : front[j] = list[j]
  <2>1. CASE i = 1
    BY <2>1, <1>1
  <2>2. CASE i > 1
    BY <2>2, <1>1
  <2> QED BY <2>1, <2>2, <1>1
<1>3. /\ back \in Seq(S)
      /\ Len(back) = Len(list) - i
      /\ \A j \in 1..(Len(list) - i) : back[j] = list[i + j]
  BY <1>1
<1>4. RemoveAt(list, i) = front \o back
  BY DEF RemoveAt
<1> HIDE DEF front, back
<1>5. /\ front \o back \in Seq(S)
      /\ Len(front \o back) = Len(list) - 1
  <2>1. Len(front \o back) = Len(front) + Len(back)
    BY <1>2, <1>3, ConcatProperties
  <2>2. front \o back \in Seq(S)
    BY <1>2, <1>3, ConcatProperties
  <2> QED BY <2>1, <2>2, <1>1, <1>2, <1>3
<1>6. ASSUME NEW j \in 1..(Len(list) - 1)
      PROVE  (front \o back)[j] = IF j < i THEN list[j] ELSE list[j + 1]
  <2>1. j \in 1..(Len(front) + Len(back))
    BY <1>1, <1>2, <1>3
  <2>2. (front \o back)[j] = IF j <= Len(front) THEN front[j]
                             ELSE back[j - Len(front)]
    BY <2>1, <1>2, <1>3, ConcatProperties
  <2> QED BY <2>1, <2>2, <1>1, <1>2, <1>3
<1> QED BY <1>4, <1>5, <1>6

\* list.Remove of an element: exactly that element leaves, the order stays.
LEMMA UnlistElements ==
    ASSUME NEW S, NEW list \in Seq(S), Injective(list), NEW e
    PROVE  /\ Unlist(list, e) \in Seq(S)
           /\ Injective(Unlist(list, e))
           /\ \A k \in DOMAIN Unlist(list, e) :
                 /\ Unlist(list, e)[k] # e
                 /\ \E i \in DOMAIN list : list[i] = Unlist(list, e)[k]
           /\ \A i \in DOMAIN list : list[i] # e =>
                 \E k \in DOMAIN Unlist(list, e) : Unlist(list, e)[k] = list[i]
<1>1. CASE ~ \E i \in DOMAIN list : list[i] = e
  BY <1>1 DEF Unlist
<1>2. CASE \E i \in DOMAIN list : list[i] = e
  <2> DEFINE i == CHOOSE i \in DOMAIN list : list[i] = e
             r == RemoveAt(list, i)
  <2>1. i \in 1..Len(list) /\ list[i] = e
    BY <1>2
  <2> HIDE DEF i
  <2>2. Unlist(list, e) = r
    BY <1>2 DEF Unlist, i
  <2>3. /\ r \in Seq(S)
        /\ Len(r) = Len(list) - 1
        /\ \A j \in 1..(Len(list) - 1) :
              r[j] = IF j < i THEN list[j] ELSE list[j + 1]
    BY <2>1, RemoveAtElements
  <2> HIDE DEF r
  <2>4. DOMAIN r = 1..(Len(list) - 1) /\ DOMAIN list = 1..Len(list)
        /\ Len(list) \in Nat
    BY <2>3
  <2>5. Injective(r)
    BY SMTT(30), <2>1, <2>3, <2>4 DEF Injective
  <2>6. ASSUME NEW k \in DOMAIN r
        PROVE  r[k] # e /\ \E m \in DOMAIN list : list[m] = r[k]
    BY SMTT(30), <2>1, <2>3, <2>4, <2>6 DEF Injective
  <2>7. ASSUME NEW m \in DOMAIN list, list[m] # e
        PROVE  \E k \in DOMAIN r : r[k] = list[m]
    <3>1. CASE m < i
      <4>1. m \in DOMAIN r /\ r[m] = list[m]
        BY <2>1, <2>3, <2>4, <3>1
      <4> QED BY <4>1
    <3>2. CASE m > i
      <4>1. m - 1 \in DOMAIN r /\ r[m - 1] = list[m]
        BY <2>1, <2>3, <2>4, <3>2
      <4> QED BY <4>1
    <3>3. m # i
      BY <2>1, <2>7
    <3> QED BY <3>1, <3>2, <3>3, <2>1, <2>4
  <2> QED BY <2>2, <2>3, <2>5, <2>6, <2>7
<1> QED BY <1>1, <1>2

-----------------------------------------------------------------------------
(***************************************************************************)
(* The operations of a directory keep the list and the map in agreement.   *)
(* Agreement goes through the names of the entries, so it needs that an    *)
(* entry that is listed was allocated, and that allocation is what gives   *)
(* an entry its name, for good.                                            *)
(***************************************************************************)
ListedAllocated ==
    \A d \in Ents : \A i \in DOMAIN dirents[d] : kind[dirents[d][i]] # "none"

NamesKept ==
    \A x \in Ents : kind[x] # "none" => name'[x] = name[x] /\ kind'[x] # "none"

DirTypes ==
    /\ dirents \in [Ents -> Seq(Ents)]
    /\ direntMap \in [Ents -> [EntNames -> Ents \cup {Nil}]]

\* A step that leaves every directory alone, whatever it allocates.
LEMMA SameDirsInv ==
    ASSUME TreeTypeOK, DirsConsistent, ListedAllocated, NamesKept,
           UNCHANGED <<dirents, direntMap>>
    PROVE  DirsConsistent' /\ ListedAllocated'
<1>1. ASSUME NEW d \in Ents, NEW i \in DOMAIN dirents[d]
      PROVE  /\ dirents[d][i] \in Ents
             /\ name'[dirents[d][i]] = name[dirents[d][i]]
             /\ kind'[dirents[d][i]] # "none"
  BY <1>1 DEF TreeTypeOK, ListedAllocated, NamesKept
<1>2. ListedAllocated'
  BY <1>1 DEF ListedAllocated
<1>3. ASSUME NEW d \in Ents
      PROVE  (MapIsListed(d) /\ ListIsMapped(d) /\ ListedOnce(d))'
  <2>1. MapIsListed(d) /\ ListIsMapped(d) /\ ListedOnce(d)
    BY DEF DirsConsistent
  <2>2. MapIsListed(d)'
    BY <1>1, <2>1 DEF MapIsListed
  <2>3. ListIsMapped(d)'
    BY <1>1, <2>1 DEF ListIsMapped
  <2>4. ListedOnce(d)'
    BY <2>1 DEF ListedOnce
  <2> QED BY <2>2, <2>3, <2>4
<1> QED BY <1>2, <1>3 DEF DirsConsistent

\* AddDirent of an allocated entry, replacing the entry of its name if any.
LEMMA AddDirentInv ==
    ASSUME TreeTypeOK, DirsConsistent, ListedAllocated, NamesKept,
           name' \in [Ents -> EntNames],
           NEW d \in Ents, NEW u \in Ents, kind'[u] # "none",
           kind[u] = "none" \/ name'[u] = name[u],
           AddDirent(d, u)
    PROVE  DirTypes' /\ DirsConsistent' /\ ListedAllocated'
<1> DEFINE n == name'[u]
           old == direntMap[d][n]
           list == dirents[d]
           rest == Unlist(list, old)
<1>1. list \in Seq(Ents) /\ n \in EntNames /\ old \in Ents \cup {Nil}
  BY DEF TreeTypeOK
<1>2. MapIsListed(d) /\ ListIsMapped(d) /\ ListedOnce(d)
  BY DEF DirsConsistent
<1>3. /\ dirents' = [dirents EXCEPT ![d] = Append(rest, u)]
      /\ direntMap' = [direntMap EXCEPT ![d] = [@ EXCEPT ![n] = u]]
  BY DEF AddDirent
<1>4. Injective(list)
  BY <1>2 DEF ListedOnce, Injective
<1> HIDE DEF n, old, list, rest
<1>5. /\ rest \in Seq(Ents)
      /\ Injective(rest)
      /\ \A k \in DOMAIN rest :
            rest[k] # old /\ \E i \in DOMAIN list : list[i] = rest[k]
      /\ \A i \in DOMAIN list : list[i] # old =>
            \E k \in DOMAIN rest : rest[k] = list[i]
  BY <1>1, <1>4, UnlistElements DEF rest
<1>6. ASSUME NEW x \in Ents, NEW i \in DOMAIN dirents[x]
      PROVE  /\ dirents[x][i] \in Ents
             /\ name'[dirents[x][i]] = name[dirents[x][i]]
             /\ kind'[dirents[x][i]] # "none"
  BY <1>6 DEF TreeTypeOK, ListedAllocated, NamesKept
<1> DEFINE added == Append(rest, u)
<1>7. /\ added \in Seq(Ents)
      /\ Len(added) = Len(rest) + 1
      /\ Len(rest) \in Nat
      /\ DOMAIN added = 1..(Len(rest) + 1)
      /\ DOMAIN rest = 1..Len(rest)
      /\ \A k \in DOMAIN rest : added[k] = rest[k]
      /\ added[Len(rest) + 1] = u
  BY <1>5
<1> HIDE DEF added
<1>8. /\ dirents'[d] = added
      /\ direntMap'[d] = [direntMap[d] EXCEPT ![n] = u]
      /\ \A x \in Ents : x # d => /\ dirents'[x] = dirents[x]
                                  /\ direntMap'[x] = direntMap[x]
  BY <1>3 DEF TreeTypeOK, added
<1>9. direntMap[d] \in [EntNames -> Ents \cup {Nil}]
  BY DEF TreeTypeOK
\* what is left of the list keeps its names, none of which is n
<1>10. ASSUME NEW k \in DOMAIN rest
       PROVE  /\ rest[k] \in Ents
              /\ name'[rest[k]] = name[rest[k]]
              /\ name[rest[k]] \in EntNames
              /\ direntMap[d][name[rest[k]]] = rest[k]
              /\ kind'[rest[k]] # "none"
              /\ name[rest[k]] # n
              /\ rest[k] # u
  <2>1. PICK i \in DOMAIN list : list[i] = rest[k]
    BY <1>5
  <2>2. /\ rest[k] \in Ents
        /\ name'[rest[k]] = name[rest[k]]
        /\ direntMap[d][name[rest[k]]] = rest[k]
        /\ kind'[rest[k]] # "none"
    BY <2>1, <1>6, <1>2 DEF ListIsMapped, list
  <2>3. name[rest[k]] \in EntNames
    BY <2>2 DEF TreeTypeOK
  <2>4. name[rest[k]] # n
    BY <2>2, <1>5 DEF old
  <2>5. rest[k] # u
    <3>1. ASSUME rest[k] = u PROVE FALSE
      <4>1. kind[u] # "none"
        BY <2>1, <3>1 DEF ListedAllocated, list
      <4>2. name[u] = n
        BY <4>1 DEF n
      <4> QED BY <4>2, <3>1, <2>4
    <3> QED BY <3>1
  <2> QED BY <2>2, <2>3, <2>4, <2>5
<1>11. DirTypes'
  BY <1>1, <1>3, <1>7 DEF DirTypes, TreeTypeOK, added
<1>12. ListedAllocated'
  <2>1. ASSUME NEW x \in Ents, x # d, NEW i \in DOMAIN dirents'[x]
        PROVE  kind'[dirents'[x][i]] # "none"
    <3>1. dirents'[x] = dirents[x]
      BY <2>1, <1>8
    <3> QED BY <2>1, <3>1, <1>6
  <2>2. ASSUME NEW i \in DOMAIN added
        PROVE  kind'[added[i]] # "none"
    <3>1. CASE i \in DOMAIN rest
      BY <3>1, <1>7, <1>10
    <3>2. CASE i = Len(rest) + 1
      BY <3>2, <1>7
    <3> QED BY <2>2, <3>1, <3>2, <1>7
  <2> QED BY <2>1, <2>2, <1>8 DEF ListedAllocated
<1>13. MapIsListed(d)'
  <2>1. ASSUME NEW m \in EntNames, direntMap'[d][m] # Nil
        PROVE  /\ name'[direntMap'[d][m]] = m
               /\ \E i \in DOMAIN added : added[i] = direntMap'[d][m]
    <3>1. CASE m = n
      BY <3>1, <1>7, <1>8, <1>9 DEF n
    <3>2. CASE m # n
      <4>1. direntMap'[d][m] = direntMap[d][m] /\ direntMap[d][m] # Nil
        BY <3>2, <2>1, <1>8, <1>9
      <4>2. PICK i \in DOMAIN list : list[i] = direntMap[d][m]
        BY <4>1, <1>2 DEF MapIsListed, list
      <4>3. name[direntMap[d][m]] = m /\ name'[direntMap[d][m]] = m
        BY <4>1, <4>2, <1>2, <1>6 DEF MapIsListed, list
      <4>4. list[i] # old
        <5>1. ASSUME list[i] = old PROVE FALSE
          <6>1. old # Nil
            BY <5>1, <4>1, <4>2
          <6>2. name[old] = n
            BY <6>1, <1>1, <1>2 DEF MapIsListed, old
          <6> QED BY <6>2, <5>1, <4>2, <4>3, <3>2
        <5> QED BY <5>1
      <4>5. PICK k \in DOMAIN rest : rest[k] = list[i]
        BY <4>4, <1>5
      <4>6. k \in DOMAIN added /\ added[k] = direntMap'[d][m]
        BY <4>5, <4>2, <4>1, <1>7
      <4> QED BY <4>1, <4>3, <4>6
    <3> QED BY <3>1, <3>2
  <2> QED BY <2>1, <1>8 DEF MapIsListed
<1>14. ListIsMapped(d)'
  <2>1. ASSUME NEW k \in DOMAIN added
        PROVE  direntMap'[d][name'[added[k]]] = added[k]
    <3>1. CASE k \in DOMAIN rest
      BY <3>1, <1>7, <1>8, <1>9, <1>10
    <3>2. CASE k = Len(rest) + 1
      BY <3>2, <1>1, <1>7, <1>8, <1>9 DEF n
    <3> QED BY <3>1, <3>2, <1>7
  <2> QED BY <2>1, <1>8 DEF ListIsMapped
<1>15. ListedOnce(d)'
  <2>1. Injective(added)
    BY <1>5, <1>7, <1>10 DEF Injective
  <2> QED BY <2>1, <1>8 DEF ListedOnce, Injective
<1>16. ASSUME NEW x \in Ents, x # d
       PROVE  (MapIsListed(x) /\ ListIsMapped(x) /\ ListedOnce(x))'
  <2>1. dirents'[x] = dirents[x] /\ direntMap'[x] = direntMap[x]
    BY <1>16, <1>8
  <2>2. MapIsListed(x) /\ ListIsMapped(x) /\ ListedOnce(x)
    BY DEF DirsConsistent
  <2>3. MapIsListed(x)'
    BY <2>1, <2>2, <1>6 DEF MapIsListed
  <2>4. ListIsMapped(x)'
    BY <2>1, <2>2, <1>6 DEF ListIsMapped
  <2>5. ListedOnce(x)'
    BY <2>1, <2>2 DEF ListedOnce
  <2> QED BY <2>3, <2>4, <2>5
<1> QED BY <1>11, <1>12, <1>13, <1>14, <1>15, <1>16 DEF DirsConsistent

\* RemoveName, whether or not there is an entry of that name.
LEMMA RemoveNameInv ==
    ASSUME TreeTypeOK, DirsConsistent, ListedAllocated,
           UNCHANGED <<kind, name>>,
           NEW d \in Ents, NEW n \in EntNames,
           RemoveName(d, n)
    PROVE  DirTypes' /\ DirsConsistent' /\ ListedAllocated'
<1> DEFINE old == direntMap[d][n]
           list == dirents[d]
           rest == Unlist(list, old)
<1>1. list \in Seq(Ents) /\ old \in Ents \cup {Nil}
  BY DEF TreeTypeOK
<1>2. MapIsListed(d) /\ ListIsMapped(d) /\ ListedOnce(d)
  BY DEF DirsConsistent
<1>3. /\ dirents' = [dirents EXCEPT ![d] = rest]
      /\ direntMap' = [direntMap EXCEPT ![d] = [@ EXCEPT ![n] = Nil]]
  BY DEF RemoveName
<1>4. Injective(list)
  BY <1>2 DEF ListedOnce, Injective
<1> HIDE DEF old, list, rest
<1>5. /\ rest \in Seq(Ents)
      /\ Injective(rest)
      /\ \A k \in DOMAIN rest :
            rest[k] # old /\ \E i \in DOMAIN list : list[i] = rest[k]
      /\ \A i \in DOMAIN list : list[i] # old =>
            \E k \in DOMAIN rest : rest[k] = list[i]
  BY <1>1, <1>4, UnlistElements DEF rest
<1>6. /\ dirents'[d] = rest
      /\ direntMap'[d] = [direntMap[d] EXCEPT ![n] = Nil]
      /\ \A x \in Ents : x # d => /\ dirents'[x] = dirents[x]
                                  /\ direntMap'[x] = direntMap[x]
      /\ direntMap[d] \in [EntNames -> Ents \cup {Nil}]
  BY <1>3 DEF TreeTypeOK
<1>7. ASSUME NEW k \in DOMAIN rest
      PROVE  /\ rest[k] \in Ents
             /\ name[rest[k]] \in EntNames
             /\ direntMap[d][name[rest[k]]] = rest[k]
             /\ kind[rest[k]] # "none"
             /\ name[rest[k]] # n
  <2>1. PICK i \in DOMAIN list : list[i] = rest[k]
    BY <1>5
  <2>2. /\ rest[k] \in Ents
        /\ direntMap[d][name[rest[k]]] = rest[k]
        /\ kind[rest[k]] # "none"
    BY <2>1, <1>1, <1>2 DEF ListIsMapped, ListedAllocated, list
  <2>3. name[rest[k]] \in EntNames
    BY <2>2 DEF TreeTypeOK
  <2>4. name[rest[k]] # n
    BY <2>2, <1>5 DEF old
  <2> QED BY <2>2, <2>3, <2>4
<1>8. DirTypes'
  BY <1>3, <1>5, <1>6 DEF DirTypes, TreeTypeOK
<1>9. ListedAllocated'
  BY <1>6, <1>7 DEF ListedAllocated
<1>10. MapIsListed(d)'
  <2>1. ASSUME NEW m \in EntNames, direntMap'[d][m] # Nil
        PROVE  /\ name[direntMap'[d][m]] = m
               /\ \E i \in DOMAIN rest : rest[i] = direntMap'[d][m]
    <3>1. m # n /\ direntMap'[d][m] = direntMap[d][m] /\ direntMap[d][m] # Nil
      BY <2>1, <1>6
    <3>2. PICK i \in DOMAIN list : list[i] = direntMap[d][m]
      BY <3>1, <1>2 DEF MapIsListed, list
    <3>3. name[direntMap[d][m]] = m
      BY <3>1, <1>2 DEF MapIsListed
    <3>4. list[i] # old
      <4>1. ASSUME list[i] = old PROVE FALSE
        <5>1. old # Nil
          BY <4>1, <3>1, <3>2
        <5>2. name[old] = n
          BY <5>1, <1>2 DEF MapIsListed, old
        <5> QED BY <5>2, <4>1, <3>1, <3>2, <3>3
      <4> QED BY <4>1
    <3>5. PICK k \in DOMAIN rest : rest[k] = list[i]
      BY <3>4, <1>5
    <3> QED BY <3>1, <3>2, <3>3, <3>5
  <2> QED BY <2>1, <1>6 DEF MapIsListed
<1>11. ListIsMapped(d)'
  BY <1>6, <1>7 DEF ListIsMapped
<1>12. ListedOnce(d)'
  BY <1>5, <1>6 DEF ListedOnce, Injective
<1>13. ASSUME NEW x \in Ents, x # d
       PROVE  (MapIsListed(x) /\ ListIsMapped(x) /\ ListedOnce(x))'
  <2>1. dirents'[x] = dirents[x] /\ direntMap'[x] = direntMap[x]
    BY <1>13, <1>6
  <2>2. MapIsListed(x) /\ ListIsMapped(x) /\ ListedOnce(x)
    BY DEF DirsConsistent
  <2>3. MapIsListed(x)'
    BY <2>1, <2>2 DEF MapIsListed
  <2>4. ListIsMapped(x)'
    BY <2>1, <2>2 DEF ListIsMapped
  <2>5. ListedOnce(x)'
    BY <2>1, <2>2 DEF ListedOnce
  <2> QED BY <2>3, <2>4, <2>5
<1> QED BY <1>8, <1>9, <1>10, <1>11, <1>12, <1>13 DEF DirsConsistent

-----------------------------------------------------------------------------
(***************************************************************************)
(* The inductive invariant.  Ready says what the local variables of an     *)
(* operation hold at each pc: components left to look up, a new file to    *)
(* link, an old target.  Held says that the dirents kept there were        *)
(* allocated, which is why linking one cannot change a name in use.        *)
(***************************************************************************)
\* where the operation is, or where its walk leads
Goal(c) == IF c.pc = "walk" THEN c.next ELSE c.pc

HasFile(c) == c.link # Nil /\ (c.op = "AddFile" \/ c.old # Nil)

Ready(c) ==
    /\ c.pc = "walk" => Len(c.rest) > 1 /\ c.next \in Targets
    /\ c.pc \in {"mkdirAll", "mkdirAllAdd"} => c.rest # <<>>
    /\ Goal(c) \in {"mkdirAll", "mkdirAllAdd"} => c.op = "MkdirAll" \/ HasFile(c)
    /\ Goal(c) \in {"add", "addClose", "addLink"} => HasFile(c)
    /\ Goal(c) = "meta" => c.link # Nil /\ c.old # Nil
    /\ Goal(c) = "openLink" => c.link # Nil
    /\ Goal(c) \in {"renameNew", "renameUnlink", "renameLink"} => c.old # Nil

Held(c) ==
    /\ c.link # Nil => kind[c.link] # "none"
    /\ c.old # Nil => kind[c.old] # "none"

IInv ==
    /\ TypeOK
    /\ DirsConsistent
    /\ ListedAllocated
    /\ \A t \in Threads : Ready(call[t]) /\ Held(call[t])

\* A call record keeps its dirents unless a step puts new ones in.
Keeps(d, c) ==
    /\ d.link \in {c.link, Nil}
    /\ d.old \in {c.old, Nil}

\* A goroutine that is in no operation has a well-typed record of locals.
LEMMA NoCallType ==
    /\ NoCall \in Calls
    /\ NoCall.pc = "idle" /\ NoCall.link = Nil /\ NoCall.old = Nil
<1>1. <<>> \in Seq(Names) /\ <<>> \in Seq([dir : Ents, names : Seq(EntNames)])
  OBVIOUS
<1>2. NoFlag \in FlagType
  BY DEF NoFlag, FlagType
<1>3. NoCall \in Calls
  BY <1>1, <1>2, DirsAssumption DEF NoCall, Calls, PCs, EntNames, Errors
<1>4. NoCall.pc = "idle" /\ NoCall.link = Nil /\ NoCall.old = Nil
  BY DEF NoCall
<1> QED BY <1>3, <1>4

\* Returning an error leaves well-typed locals, for every error there is.
LEMMA DoneCall ==
    ASSUME NEW err \in Errors, NEW c
    PROVE  Done(err) \in Calls /\ Ready(Done(err)) /\ Keeps(Done(err), c)
<1>1. Done(err) \in Calls
  BY NoCallType DEF Done, Calls
<1>2. /\ Done(err).pc = "idle"
      /\ Done(err).link = Nil
      /\ Done(err).old = Nil
  BY NoCallType DEF Done, Calls
<1>3. Ready(Done(err)) /\ Keeps(Done(err), c)
  BY <1>2 DEF Ready, Goal, Keeps
<1> QED BY <1>1, <1>3

\* So does Return, which RemoveAll takes into its second attempt.
LEMMA ReturnCall ==
    ASSUME NEW c \in Calls, NEW err \in Errors
    PROVE  /\ Return(c, err) \in Calls
           /\ Ready(Return(c, err))
           /\ Keeps(Return(c, err), c)
<1> DEFINE again == [c EXCEPT !.pc = "again", !.ent = Nil]
<1>1. again \in Calls
  BY DEF Calls, PCs
<1>2. Ready(again) /\ Keeps(again, c)
  BY DEF Ready, Goal, Keeps, Calls
<1>3. Return(c, err) \in {again, Done("ok"), Done(err)}
  BY DEF Return
<1>4. "ok" \in Errors
  BY DEF Errors
<1> QED BY <1>1, <1>2, <1>3, <1>4, DoneCall

\* IsSearchableDir returns one of the errors of the operations.
LEMMA SearchErrType == \A e : SearchErr(e) \in Errors
BY DEF SearchErr, Errors

\* However removeFromParent ends, its caller goes on with well-typed locals.
LEMMA AfterRemoveCall ==
    ASSUME NEW c \in Calls, NEW err \in Errors
    PROVE  /\ AfterRemove(c, err) \in Calls
           /\ Ready(AfterRemove(c, err))
           /\ Keeps(AfterRemove(c, err), c)
<1> DEFINE next == [c EXCEPT !.pc = "next", !.ent = Nil]
           list == [c EXCEPT !.pc = "list"]
<1>1. next \in Calls /\ list \in Calls
  BY ZenonT(40) DEF Calls, PCs
<1>2. Ready(next) /\ Keeps(next, c) /\ Ready(list) /\ Keeps(list, c)
  BY DEF Ready, Goal, Keeps, Calls
<1>3. AfterRemove(c, err) \in {next, list, Return(c, err), Done(err)}
  BY DEF AfterRemove
<1> QED BY <1>1, <1>2, <1>3, DoneCall, ReturnCall

\* The base name and the directory of a path are a name and a path.
LEMMA PathTypes ==
    ASSUME NEW p \in Seq(Names)
    PROVE  Base(p) \in EntNames /\ Dir(p) \in Seq(Names)
<1>1. CASE p = <<>>
  BY <1>1 DEF Base, Dir, EntNames
<1>2. CASE p # <<>>
  <2>1. Len(p) \in 1..Len(p) /\ Len(p) - 1 \in 0..Len(p)
    BY <1>2
  <2>2. SubSeq(p, 1, Len(p) - 1) \in Seq(Names)
    BY <2>1, SubSeqProperties
  <2> QED BY <1>2, <2>1, <2>2 DEF Base, Dir, EntNames
<1> QED BY <1>1, <1>2

\* A walk that begins, in a call that holds what the target of the walk needs.
LEMMA ArriveCall ==
    ASSUME NEW c \in Calls, c.next \in Targets,
           c.next = "add" => HasFile(c),
           c.next = "renameNew" => c.old # Nil
    PROVE  Arrive(c) \in Calls /\ Ready(Arrive(c)) /\ Keeps(Arrive(c), c)
<1> DEFINE there == [c EXCEPT !.pc = c.next, !.rest = <<>>]
           walk == [c EXCEPT !.pc = "walk"]
<1>1. there \in Calls /\ walk \in Calls
  <2>1. <<>> \in Seq(Names) /\ c.next \in PCs /\ "walk" \in PCs
    BY DEF PCs
  <2> QED BY <2>1 DEF Calls
<1>2. CASE Len(c.rest) <= 1
  <2>1. Arrive(c) = there
    BY <1>2 DEF Arrive
  <2>2. /\ there.pc = c.next
        /\ there.link = c.link /\ there.old = c.old /\ there.op = c.op
    BY DEF Calls
  <2>3. Ready(there)
    BY <2>2 DEF Ready, Goal, Targets, HasFile
  <2> QED BY <1>1, <2>1, <2>2, <2>3 DEF Keeps
<1>3. CASE ~(Len(c.rest) <= 1)
  <2>1. Arrive(c) = walk
    BY <1>3 DEF Arrive
  <2>2. /\ walk.pc = "walk" /\ walk.next = c.next /\ walk.rest = c.rest
        /\ walk.link = c.link /\ walk.old = c.old /\ walk.op = c.op
    BY DEF Calls
  <2>3. Len(walk.rest) > 1
    <3>1. c.rest \in Seq(Names)
      BY DEF Calls
    <3> QED BY <1>3, <2>2, <3>1
  <2>4. Ready(walk)
    BY <2>2, <2>3 DEF Ready, Goal, Targets, HasFile
  <2> QED BY <1>1, <2>1, <2>2, <2>4 DEF Keeps
<1> QED BY <1>2, <1>3

\* findParent leaves a goroutine at a step of the walk or at its target.
LEMMA FindParentCall ==
    ASSUME NEW c \in Calls, NEW p \in Seq(Names), NEW next \in Targets,
           next = "add" => HasFile(c),
           next = "renameNew" => c.old # Nil
    PROVE  /\ FindParent(c, p, next) \in Calls
           /\ Ready(FindParent(c, p, next))
           /\ Keeps(FindParent(c, p, next), c)
<1> DEFINE w == [c EXCEPT !.at = Root, !.base = Base(p), !.rest = p,
                          !.next = next]
<1>1. w \in Calls
  BY PathTypes, DirsAssumption DEF Calls
<1>2. /\ w.next = next
      /\ w.link = c.link /\ w.old = c.old /\ w.op = c.op
  BY DEF Calls
<1>3. FindParent(c, p, next) \in {Return(c, SearchErr(Root)), Arrive(w)}
  BY DEF FindParent
<1> HIDE DEF w
<1>4. Arrive(w) \in Calls /\ Ready(Arrive(w)) /\ Keeps(Arrive(w), w)
  BY <1>1, <1>2, ArriveCall DEF HasFile
<1>5. Keeps(Arrive(w), c)
  BY <1>2, <1>4 DEF Keeps
<1> QED BY <1>3, <1>4, <1>5, ReturnCall, SearchErrType

\* An iteration of mkdirAll leaves well-typed locals, at its end as well.
LEMMA MkdirAllLoopCall ==
    ASSUME NEW c \in Calls, NEW at \in Ents, NEW rest \in Seq(Names),
           c.op = "MkdirAll" \/ HasFile(c)
    PROVE  /\ MkdirAllLoop(c, at, rest) \in Calls
           /\ Ready(MkdirAllLoop(c, at, rest))
           /\ Keeps(MkdirAllLoop(c, at, rest), c)
<1> DEFINE loop == [c EXCEPT !.pc = "mkdirAll", !.at = at, !.rest = rest]
<1>1. CASE rest # <<>>
  <2>1. MkdirAllLoop(c, at, rest) = loop
    BY <1>1 DEF MkdirAllLoop
  <2>2. loop \in Calls
    BY DEF Calls, PCs
  <2>3. /\ loop.pc = "mkdirAll" /\ loop.rest = rest
        /\ loop.link = c.link /\ loop.old = c.old /\ loop.op = c.op
    BY DEF Calls
  <2>4. Ready(loop)
    BY <1>1, <2>3 DEF Ready, Goal, HasFile
  <2> QED BY <2>1, <2>2, <2>3, <2>4 DEF Keeps
<1>2. CASE rest = <<>> /\ c.op = "MkdirAll"
  <2>1. MkdirAllLoop(c, at, rest) = Done("ok") /\ "ok" \in Errors
    BY <1>2 DEF MkdirAllLoop, Errors
  <2> QED BY <2>1, DoneCall
<1>3. CASE rest = <<>> /\ c.op # "MkdirAll"
  <2>1. MkdirAllLoop(c, at, rest) = FindParent(c, Dir(c.path), "add")
    BY <1>3 DEF MkdirAllLoop
  <2>2. Dir(c.path) \in Seq(Names) /\ "add" \in Targets
    BY PathTypes DEF Calls, Targets
  <2>3. "add" # "renameNew" /\ HasFile(c)
    BY <1>3
  <2> QED BY <2>1, <2>2, <2>3, FindParentCall
<1> QED BY <1>1, <1>2, <1>3

\* So does the start of mkdirAll, which checks the root first.
LEMMA MkdirAllCall ==
    ASSUME NEW c \in Calls, NEW p \in Seq(Names),
           c.op = "MkdirAll" \/ HasFile(c)
    PROVE  /\ MkdirAll(c, p) \in Calls
           /\ Ready(MkdirAll(c, p))
           /\ Keeps(MkdirAll(c, p), c)
<1>1. MkdirAll(c, p) \in {Done(SearchErr(Root)), MkdirAllLoop(c, Root, p)}
  BY DEF MkdirAll
<1> QED BY <1>1, DoneCall, MkdirAllLoopCall, SearchErrType, DirsAssumption

\* Found is the parent itself or what its map holds.
LEMMA FoundType ==
    ASSUME TreeTypeOK, NEW c \in Calls
    PROVE  Found(c) \in Ents \cup {Nil}
BY DEF TreeTypeOK, Calls, Found, Lookup

\* An entry that a lookup returns was allocated.
LEMMA LookupAllocated ==
    ASSUME TreeTypeOK, DirsConsistent, ListedAllocated,
           NEW d \in Ents, NEW n \in EntNames, Lookup(d, n) # Nil
    PROVE  Lookup(d, n) \in Ents /\ kind[Lookup(d, n)] # "none"
<1>1. Lookup(d, n) \in Ents
  BY DEF TreeTypeOK, Lookup
<1>2. PICK i \in DOMAIN dirents[d] : dirents[d][i] = Lookup(d, n)
  BY DEF DirsConsistent, MapIsListed, Lookup
<1> QED BY <1>1, <1>2 DEF ListedAllocated

-----------------------------------------------------------------------------
(***************************************************************************)
(* The steps.  Every action of thread t replaces call[t] by a record d;    *)
(* the three lemmas are for steps that leave the tree alone, that change   *)
(* only permission bits and notifications, and that allocate or link.      *)
(***************************************************************************)
HeldNext(d) ==
    /\ d.link # Nil => kind'[d.link] # "none"
    /\ d.old # Nil => kind'[d.old] # "none"

\* A step that changes the tree within its types and keeps both views of
\* the directories in agreement keeps the invariant.
LEMMA TreeStep ==
    ASSUME IInv, NEW t \in Threads, NEW d \in Calls, Ready(d), HeldNext(d),
           call' = [call EXCEPT ![t] = d],
           TreeTypeOK', DirsConsistent', ListedAllocated', NamesKept
    PROVE  IInv'
<1>1. call \in [Threads -> Calls]
  BY DEF IInv, TypeOK
<1>2. call'[t] = d /\ \A u \in Threads : u # t => call'[u] = call[u]
  BY <1>1
<1>3. TypeOK'
  BY <1>1 DEF TypeOK
<1>4. ASSUME NEW u \in Threads
      PROVE  Ready(call'[u]) /\ Held(call[u])'
  <2>1. CASE u = t
    BY <2>1, <1>2 DEF Held, HeldNext
  <2>2. CASE u # t
    <3>1. Ready(call[u]) /\ Held(call[u]) /\ call'[u] = call[u]
      BY <2>2, <1>2 DEF IInv
    <3>2. call[u].link \in Ents \cup {Nil} /\ call[u].old \in Ents \cup {Nil}
      BY <1>1 DEF Calls
    <3> QED BY <3>1, <3>2 DEF Held, NamesKept
  <2> QED BY <2>1, <2>2
<1>5. \A u \in Threads : Ready(call'[u]) /\ Held(call[u])'
  BY <1>4
<1>6. (\A u \in Threads : Ready(call[u]) /\ Held(call[u]))'
  BY <1>5
<1> QED BY <1>3, <1>6 DEF IInv

\* It is enough to look at the types when no directory changes its entries.
LEMMA SameLinksStep ==
    ASSUME IInv, NEW t \in Threads, NEW d \in Calls, Ready(d),
           Keeps(d, call[t]), call' = [call EXCEPT ![t] = d],
           UNCHANGED <<kind, name, dirents, direntMap>>, TreeTypeOK'
    PROVE  IInv'
<1>1. NamesKept
  BY DEF NamesKept
<1>2. DirsConsistent' /\ ListedAllocated'
  BY <1>1, SameDirsInv DEF IInv, TypeOK
<1>3. HeldNext(d)
  BY DEF IInv, Held, HeldNext, Keeps
<1> QED BY <1>1, <1>2, <1>3, TreeStep

\* It is enough to look at the locals of one goroutine when the tree stays.
LEMMA LocalStep ==
    ASSUME IInv, NEW t \in Threads, NEW d \in Calls, Ready(d),
           Keeps(d, call[t]), call' = [call EXCEPT ![t] = d],
           UNCHANGED treeVars
    PROVE  IInv'
<1>1. UNCHANGED <<kind, name, dirents, direntMap>> /\ TreeTypeOK'
  BY DEF IInv, TypeOK, TreeTypeOK, treeVars
<1> QED BY <1>1, SameLinksStep

\* A new dirent: names in use stay, the new one is of the right type.
LEMMA NewDirentStep ==
    ASSUME TreeTypeOK, NEW e \in Ents, NEW k \in {"dir", "file"},
           NEW n \in EntNames, NEW m \in SUBSET Bits, NewDirent(e, k, n, m)
    PROVE  /\ NamesKept
           /\ kind[e] = "none" /\ kind'[e] # "none" /\ name'[e] = n
           /\ kind' \in [Ents -> {"none", "dir", "file"}]
           /\ name' \in [Ents -> EntNames]
           /\ mode' \in [Ents -> SUBSET Bits]
BY DEF TreeTypeOK, NewDirent, NamesKept

\* A dirent that has not been allocated can be taken when one is left.
LEMMA FreshType ==
    ASSUME Free # {}
    PROVE  Fresh \in Ents /\ kind[Fresh] = "none"
BY DEF Free, Fresh

-----------------------------------------------------------------------------
\* The invariant holds of an Fs that New has just returned.
LEMMA InitInv == Init => IInv
<1> SUFFICES ASSUME Init PROVE IInv
  OBVIOUS
<1> USE DEF Init, TreeInit
<1>1. TreeTypeOK
  BY DirsAssumption DEF TreeTypeOK, EntNames, Bits
<1>3. DirsConsistent
  BY DEF DirsConsistent, MapIsListed, ListIsMapped, ListedOnce
<1>4. ListedAllocated
  BY DEF ListedAllocated
<1>5. Ready(NoCall) /\ Held(NoCall)
  BY NoCallType DEF Ready, Held, Goal
<1> QED BY <1>1, <1>3, <1>4, <1>5, NoCallType DEF IInv, TypeOK

-----------------------------------------------------------------------------
\* A call that begins holds no dirent yet, so any first walk is in order.
LEMMA BeginCall ==
    ASSUME NEW d \in Calls, d.link = Nil, d.old = Nil, NEW p \in Seq(Names),
           NEW next \in Targets \ {"add", "renameNew"}, NEW c
    PROVE  /\ FindParent(d, p, next) \in Calls
           /\ Ready(FindParent(d, p, next))
           /\ Keeps(FindParent(d, p, next), c)
BY FindParentCall DEF Keeps

\* The call of an operation keeps the invariant; AddFile allocates its entry.
LEMMA CallInv ==
    ASSUME IInv, NEW t \in Threads, Call(t)
    PROVE  IInv'
<1> USE NoCallType
<1>1. CASE CallChmod(t)
  <2>1. PICK p \in Paths, m \in Perms :
          call' = [call EXCEPT ![t] =
            FindParent([NoCall EXCEPT !.op = "Chmod", !.path = p, !.perm = m],
                       p, "chmod")]
    BY <1>1 DEF CallChmod
  <2> DEFINE d == [NoCall EXCEPT !.op = "Chmod", !.path = p, !.perm = m]
  <2>2. p \in Seq(Names) /\ m \in SUBSET Bits
    BY SynthAssumption
  <2>3. d \in Calls /\ d.link = Nil /\ d.old = Nil
    BY <2>2 DEF Calls, OpNames
  <2> HIDE DEF d
  <2>4. /\ FindParent(d, p, "chmod") \in Calls
        /\ Ready(FindParent(d, p, "chmod"))
        /\ Keeps(FindParent(d, p, "chmod"), call[t])
    BY <2>2, <2>3, BeginCall DEF Targets
  <2> QED BY <1>1, <2>1, <2>4, LocalStep DEF CallChmod, d
<1>2. CASE CallMkdir(t)
  <2>1. PICK p \in Paths, m \in Perms :
          call' = [call EXCEPT ![t] =
            FindParent([NoCall EXCEPT !.op = "Mkdir", !.path = p, !.perm = m],
                       Dir(p), "mkdir")]
    BY <1>2 DEF CallMkdir
  <2> DEFINE d == [NoCall EXCEPT !.op = "Mkdir", !.path = p, !.perm = m]
  <2>2. p \in Seq(Names) /\ m \in SUBSET Bits /\ Dir(p) \in Seq(Names)
    BY SynthAssumption, PathTypes
  <2>3. d \in Calls /\ d.link = Nil /\ d.old = Nil
    BY <2>2 DEF Calls, OpNames
  <2> HIDE DEF d
  <2>4. /\ FindParent(d, Dir(p), "mkdir") \in Calls
        /\ Ready(FindParent(d, Dir(p), "mkdir"))
        /\ Keeps(FindParent(d, Dir(p), "mkdir"), call[t])
    BY <2>2, <2>3, BeginCall DEF Targets
  <2> QED BY <1>2, <2>1, <2>4, LocalStep DEF CallMkdir, d
<1>3. CASE CallMkdirAll(t)
  <2>1. PICK p \in Paths, m \in Perms :
          call' = [call EXCEPT ![t] =
            MkdirAll([NoCall EXCEPT !.op = "MkdirAll", !.path = p, !.perm = m], p)]
    BY <1>3 DEF CallMkdirAll
  <2> DEFINE d == [NoCall EXCEPT !.op = "MkdirAll", !.path = p, !.perm = m]
  <2>2. p \in Seq(Names) /\ m \in SUBSET Bits
    BY SynthAssumption
  <2>3. d \in Calls /\ d.link = Nil /\ d.old = Nil /\ d.op = "MkdirAll"
    BY <2>2 DEF Calls, OpNames
  <2> HIDE DEF d
  <2>4. /\ MkdirAll(d, p) \in Calls
        /\ Ready(MkdirAll(d, p))
        /\ Keeps(MkdirAll(d, p), call[t])
    BY <2>2, <2>3, MkdirAllCall DEF Keeps
  <2> QED BY <1>3, <2>1, <2>4, LocalStep DEF CallMkdirAll, d
<1>4. CASE CallOpenFile(t)
  <2>1. PICK p \in Paths, fl \in Flags, m \in Perms :
          call' = [call EXCEPT ![t] =
            FindParent([NoCall EXCEPT !.op = "OpenFile", !.path = p,
                                      !.flag = fl, !.perm = m],
                       p, "open")]
    BY <1>4 DEF CallOpenFile
  <2> DEFINE d == [NoCall EXCEPT !.op = "OpenFile", !.path = p,
                                 !.flag = fl, !.perm = m]
  <2>2. p \in Seq(Names) /\ m \in SUBSET Bits /\ fl \in FlagType
    BY SynthAssumption DEF FlagType
  <2>3. d \in Calls /\ d.link = Nil /\ d.old = Nil
    BY <2>2 DEF Calls, OpNames
  <2> HIDE DEF d
  <2>4. /\ FindParent(d, p, "open") \in Calls
        /\ Ready(FindParent(d, p, "open"))
        /\ Keeps(FindParent(d, p, "open"), call[t])
    BY <2>2, <2>3, BeginCall DEF Targets
  <2> QED BY <1>4, <2>1, <2>4, LocalStep DEF CallOpenFile, d
<1>5. CASE CallRemove(t)
  <2>1. PICK p \in Paths :
          call' = [call EXCEPT ![t] =
            FindParent([NoCall EXCEPT !.op = "Remove", !.path = p], p, "remove")]
    BY <1>5 DEF CallRemove
  <2> DEFINE d == [NoCall EXCEPT !.op = "Remove", !.path = p]
  <2>2. p \in Seq(Names)
    BY SynthAssumption
  <2>3. d \in Calls /\ d.link = Nil /\ d.old = Nil
    BY <2>2 DEF Calls, OpNames
  <2> HIDE DEF d
  <2>4. /\ FindParent(d, p, "remove") \in Calls
        /\ Ready(FindParent(d, p, "remove"))
        /\ Keeps(FindParent(d, p, "remove"), call[t])
    BY <2>2, <2>3, BeginCall DEF Targets
  <2> QED BY <1>5, <2>1, <2>4, LocalStep DEF CallRemove, d
<1>6. CASE CallRemoveAll(t)
  <2>1. PICK p \in Paths :
          call' = [call EXCEPT ![t] =
            IF p = <<>> THEN Done("EACCES")
            ELSE FindParent([NoCall EXCEPT !.op = "RemoveAll", !.path = p],
                            p, "remove")]
    BY <1>6 DEF CallRemoveAll
  <2> DEFINE d == [NoCall EXCEPT !.op = "RemoveAll", !.path = p]
             r == IF p = <<>> THEN Done("EACCES") ELSE FindParent(d, p, "remove")
  <2>2. p \in Seq(Names)
    BY SynthAssumption
  <2>3. d \in Calls /\ d.link = Nil /\ d.old = Nil
    BY <2>2 DEF Calls, OpNames
  <2>4. call' = [call EXCEPT ![t] = r]
    BY <2>1
  <2> HIDE DEF d
  <2>5. r \in Calls /\ Ready(r) /\ Keeps(r, call[t])
    BY <2>2, <2>3, BeginCall, DoneCall DEF Targets, Errors
  <2> HIDE DEF r
  <2> QED BY <1>6, <2>4, <2>5, LocalStep DEF CallRemoveAll
<1>7. CASE CallRename(t)
  <2>1. PICK p \in Paths, q \in Paths :
          call' = [call EXCEPT ![t] =
            IF p = q THEN Done("ok")
            ELSE IF p = <<>> \/ q = <<>> THEN Done("EBUSY")
            ELSE IF IsPrefix(p, q) THEN Done("EINVAL")
            ELSE FindParent([NoCall EXCEPT !.op = "Rename", !.path = p, !.to = q],
                            p, "renameOld")]
    BY <1>7 DEF CallRename
  <2> DEFINE d == [NoCall EXCEPT !.op = "Rename", !.path = p, !.to = q]
             r == IF p = q THEN Done("ok")
                  ELSE IF p = <<>> \/ q = <<>> THEN Done("EBUSY")
                  ELSE IF IsPrefix(p, q) THEN Done("EINVAL")
                  ELSE FindParent(d, p, "renameOld")
  <2>2. p \in Seq(Names) /\ q \in Seq(Names)
    BY SynthAssumption
  <2>3. d \in Calls /\ d.link = Nil /\ d.old = Nil
    BY <2>2 DEF Calls, OpNames
  <2>4. call' = [call EXCEPT ![t] = r]
    BY <2>1
  <2> HIDE DEF d
  <2>5. r \in {Done("ok"), Done("EBUSY"), Done("EINVAL"),
               FindParent(d, p, "renameOld")}
    OBVIOUS
  <2> HIDE DEF r
  <2>6. r \in Calls /\ Ready(r) /\ Keeps(r, call[t])
    BY <2>2, <2>3, <2>5, BeginCall, DoneCall DEF Targets, Errors
  <2> QED BY <1>7, <2>4, <2>6, LocalStep DEF CallRename
<1>8. CASE CallAddFile(t)
  <2>1. PICK p \in Paths :
        \/ /\ call' = [call EXCEPT ![t] = Done("EIO")]
           /\ UNCHANGED treeVars
        \/ /\ Room(Len(Dir(p)) + 1) /\ Free # {}
           /\ \E m \in Perms : NewDirent(Fresh, "file", Base(p), m)
           /\ call' = [call EXCEPT ![t] =
                MkdirAll([NoCall EXCEPT !.op = "AddFile", !.path = p,
                            !.perm = Bits, !.link = Fresh], Dir(p))]
           /\ UNCHANGED <<dirents, direntMap, closes, referredAs>>
    BY <1>8 DEF CallAddFile
  <2>2. CASE call' = [call EXCEPT ![t] = Done("EIO")] /\ UNCHANGED treeVars
    BY <2>2, DoneCall, LocalStep DEF Errors
  <2>3. CASE /\ Free # {}
             /\ \E m \in Perms : NewDirent(Fresh, "file", Base(p), m)
             /\ call' = [call EXCEPT ![t] =
                  MkdirAll([NoCall EXCEPT !.op = "AddFile", !.path = p,
                              !.perm = Bits, !.link = Fresh], Dir(p))]
             /\ UNCHANGED <<dirents, direntMap, closes, referredAs>>
    <3> DEFINE d == [NoCall EXCEPT !.op = "AddFile", !.path = p,
                              !.perm = Bits, !.link = Fresh]
               r == MkdirAll(d, Dir(p))
    <3>1. p \in Seq(Names) /\ Dir(p) \in Seq(Names) /\ Base(p) \in EntNames
      BY SynthAssumption, PathTypes
    <3>2. Fresh \in Ents /\ Fresh # Nil
      BY <2>3, FreshType, DirsAssumption
    <3>3. d \in Calls /\ d.link = Fresh /\ d.old = Nil /\ d.op = "AddFile"
      BY <3>1, <3>2 DEF Calls, OpNames
    <3> HIDE DEF d
    <3>4. r \in Calls /\ Ready(r) /\ r.link \in {Fresh, Nil} /\ r.old = Nil
      BY <3>1, <3>2, <3>3, MkdirAllCall DEF HasFile, Keeps
    <3>5. call' = [call EXCEPT ![t] = r]
      BY <2>3 DEF d
    <3> HIDE DEF r
    <3>6. PICK m \in Perms : NewDirent(Fresh, "file", Base(p), m)
      BY <2>3
    <3>7. /\ NamesKept /\ kind'[Fresh] # "none"
          /\ kind' \in [Ents -> {"none", "dir", "file"}]
          /\ name' \in [Ents -> EntNames]
          /\ mode' \in [Ents -> SUBSET Bits]
      BY <3>1, <3>2, <3>6, NewDirentStep, SynthAssumption DEF IInv, TypeOK
    <3>8. TreeTypeOK'
      BY <2>3, <3>7 DEF IInv, TypeOK, TreeTypeOK
    <3>9. DirsConsistent' /\ ListedAllocated'
      BY <2>3, <3>7, SameDirsInv DEF IInv, TypeOK
    <3>10. HeldNext(r)
      BY <3>4, <3>7 DEF HeldNext
    <3> QED BY <3>4, <3>5, <3>7, <3>8, <3>9, <3>10, TreeStep
  <2> QED BY <2>1, <2>2, <2>3
<1>9. CASE CallReallocate(t)
  <2>1. PICK p \in Paths :
          call' = [call EXCEPT ![t] =
            FindParent([NoCall EXCEPT !.op = "Reallocate", !.path = p,
                                      !.perm = Bits],
                       p, "reallocate")]
    BY <1>9 DEF CallReallocate
  <2> DEFINE d == [NoCall EXCEPT !.op = "Reallocate", !.path = p, !.perm = Bits]
  <2>2. p \in Seq(Names)
    BY SynthAssumption
  <2>3. d \in Calls /\ d.link = Nil /\ d.old = Nil
    BY <2>2 DEF Calls, OpNames
  <2> HIDE DEF d
  <2>4. /\ FindParent(d, p, "reallocate") \in Calls
        /\ Ready(FindParent(d, p, "reallocate"))
        /\ Keeps(FindParent(d, p, "reallocate"), call[t])
    BY <2>2, <2>3, BeginCall DEF Targets
  <2> QED BY <1>9, <2>1, <2>4, LocalStep DEF CallReallocate, d
<1> QED BY <1>1, <1>2, <1>3, <1>4, <1>5, <1>6, <1>7, <1>8, <1>9 DEF Call

-----------------------------------------------------------------------------
\* What every step of an operation may rely on.
LEMMA CallFacts ==
    ASSUME IInv, NEW t \in Threads
    PROVE  /\ call[t] \in Calls /\ Ready(call[t]) /\ Held(call[t])
           /\ call[t].at \in Ents /\ call[t].from \in Ents
           /\ call[t].base \in EntNames
           /\ call[t].path \in Seq(Names) /\ call[t].to \in Seq(Names)
           /\ call[t].rest \in Seq(Names)
           /\ call[t].perm \in SUBSET Bits
           /\ Keeps(call[t], call[t])
           /\ TreeTypeOK /\ DirsConsistent /\ ListedAllocated
<1>1. call[t] \in Calls
  BY DEF IInv, TypeOK
<1> QED BY <1>1 DEF IInv, TypeOK, Calls, Keeps

\* The records of steps that move to another pc and set one more variable.
LEMMA PcCall ==
    ASSUME NEW c \in Calls, NEW pc \in PCs
    PROVE  [c EXCEPT !.pc = pc] \in Calls
BY DEF Calls

\* Facts about the record of locals for changes of a few of its fields.
LEMMA PcAtCall ==
    ASSUME NEW c \in Calls, NEW pc \in PCs, NEW at \in Ents
    PROVE  [c EXCEPT !.pc = pc, !.at = at] \in Calls
BY DEF Calls

\* The same for the entry a removal is about.
LEMMA PcEntCall ==
    ASSUME NEW c \in Calls, NEW pc \in PCs, NEW ent \in Ents \cup {Nil}
    PROVE  [c EXCEPT !.pc = pc, !.ent = ent] \in Calls
BY DEF Calls

\* The same for the error the Close of a view left behind.
LEMMA PcErrCall ==
    ASSUME NEW c \in Calls, NEW pc \in PCs, NEW err \in Errors
    PROVE  [c EXCEPT !.pc = pc, !.err = err] \in Calls
BY DEF Calls

\* Steps of operations that only look, or that remove.
LEMMA WalkInv ==
    ASSUME IInv, NEW t \in Threads, Walk(t)
    PROVE  IInv'
<1> USE CallFacts
<1> DEFINE c == call[t]
           child == Lookup(c.at, Head(c.rest))
           w == [c EXCEPT !.at = child, !.rest = Tail(c.rest)]
           r == IF SearchErr(child) # "ok" THEN Return(c, SearchErr(child))
                ELSE Arrive(w)
<1>1. call' = [call EXCEPT ![t] = r] /\ UNCHANGED treeVars /\ c.pc = "walk"
  BY DEF Walk
<1>2. c.rest # <<>> /\ Head(c.rest) \in EntNames /\ Tail(c.rest) \in Seq(Names)
      /\ c.next \in Targets
  <2>1. Len(c.rest) > 1 /\ c.next \in Targets
    BY <1>1 DEF Ready
  <2> QED BY <2>1 DEF EntNames
<1>3. child \in Ents \cup {Nil}
  BY <1>2 DEF TreeTypeOK, Lookup
<1>4. CASE SearchErr(child) # "ok"
  BY <1>1, <1>4, SearchErrType, ReturnCall, LocalStep
<1>5. CASE SearchErr(child) = "ok"
  <2>1. child \in Ents
    BY <1>3, <1>5 DEF SearchErr
  <2>2. /\ w \in Calls
        /\ w.next = c.next /\ w.link = c.link /\ w.old = c.old /\ w.op = c.op
    BY ZenonT(40), <2>1, <1>2 DEF Calls
  <2> HIDE DEF w
  <2>3. Arrive(w) \in Calls /\ Ready(Arrive(w)) /\ Keeps(Arrive(w), w)
    <3>1. /\ c.next = "add" => HasFile(c)
          /\ c.next = "renameNew" => c.old # Nil
      BY <1>1 DEF Ready, Goal
    <3> QED BY <3>1, <2>2, <1>2, ArriveCall DEF HasFile
  <2>4. Keeps(Arrive(w), c)
    BY <2>2, <2>3 DEF Keeps
  <2> QED BY <1>1, <1>5, <2>3, <2>4, LocalStep
<1> QED BY <1>4, <1>5

\* Chmod changes one mode and no entry of a directory.
LEMMA ChmodInv ==
    ASSUME IInv, NEW t \in Threads, Chmod(t)
    PROVE  IInv'
<1> USE CallFacts
<1> DEFINE c == call[t]
           r == Done(IF Found(c) = Nil THEN "ENOENT" ELSE "ok")
<1>1. r \in Calls /\ Ready(r) /\ Keeps(r, c)
  BY DoneCall DEF Errors
<1>2. call' = [call EXCEPT ![t] = r]
  BY DEF Chmod
<1>3. Found(c) \in Ents \cup {Nil}
  BY FoundType
<1>4. mode' \in [Ents -> SUBSET Bits]
  BY <1>3 DEF Chmod, TreeTypeOK
<1>5. TreeTypeOK' /\ UNCHANGED <<kind, name, dirents, direntMap>>
  BY <1>4 DEF Chmod, TreeTypeOK
<1> HIDE DEF r
<1> QED BY <1>1, <1>2, <1>5, SameLinksStep

\* What mkdir checks gives one of the errors of the operations.
LEMMA MkdirErrType == \A c, parent : MkdirErr(c, parent) \in Errors
BY DEF MkdirErr, Errors

\* The check of mkdir leaves the tree alone.
LEMMA MkdirCheckInv ==
    ASSUME IInv, NEW t \in Threads, MkdirCheck(t)
    PROVE  IInv'
<1> USE CallFacts
<1> DEFINE c == call[t]
           parent == Found(c)
           add == [c EXCEPT !.pc = "mkdirAdd", !.at = parent]
           r == IF MkdirErr(c, parent) # "ok" THEN Done(MkdirErr(c, parent))
                ELSE add
<1>1. call' = [call EXCEPT ![t] = r] /\ UNCHANGED treeVars
  BY DEF MkdirCheck
<1>2. CASE MkdirErr(c, parent) # "ok"
  BY <1>1, <1>2, MkdirErrType, DoneCall, LocalStep
<1>3. CASE MkdirErr(c, parent) = "ok"
  <2>1. parent \in Ents
    BY <1>3, FoundType DEF MkdirErr
  <2>2. add \in Calls
    <3>1. "mkdirAdd" \in PCs /\ c \in Calls
      BY DEF PCs
    <3> QED BY <2>1, <3>1, PcAtCall
  <2>3. Ready(add) /\ Keeps(add, c)
    BY DEF Calls, Ready, Goal, Keeps
  <2> QED BY <1>1, <1>3, <2>2, <2>3, LocalStep
<1> QED BY <1>2, <1>3

\* The lookup of mkdirAll leaves the tree alone and stays on its path.
LEMMA MkdirAllLookupInv ==
    ASSUME IInv, NEW t \in Threads, MkdirAllLookup(t)
    PROVE  IInv'
<1> USE CallFacts
<1> DEFINE c == call[t]
           child == Lookup(c.at, Head(c.rest))
           add == [c EXCEPT !.pc = "mkdirAllAdd"]
           r == IF child = Nil THEN add
                ELSE IF SearchErr(child) # "ok" THEN Done(SearchErr(child))
                ELSE MkdirAllLoop(c, child, Tail(c.rest))
<1>1. /\ call' = [call EXCEPT ![t] = r]
      /\ UNCHANGED treeVars
      /\ c.pc = "mkdirAll"
  BY DEF MkdirAllLookup
<1>2. /\ c.rest # <<>> /\ Head(c.rest) \in EntNames
      /\ Tail(c.rest) \in Seq(Names)
      /\ c.op = "MkdirAll" \/ HasFile(c)
  <2>1. c.rest # <<>> /\ (c.op = "MkdirAll" \/ HasFile(c))
    BY <1>1 DEF Ready, Goal
  <2> QED BY <2>1 DEF EntNames
<1>3. child \in Ents \cup {Nil}
  BY <1>2 DEF TreeTypeOK, Lookup
<1>4. CASE child = Nil
  <2>1. add \in Calls
    <3>1. "mkdirAllAdd" \in PCs /\ c \in Calls
      BY DEF PCs
    <3> QED BY <3>1, PcCall
  <2>2. Ready(add) /\ Keeps(add, c)
    BY <1>2 DEF Ready, Goal, Calls, HasFile, Keeps
  <2> QED BY <1>1, <1>4, <2>1, <2>2, LocalStep
<1>5. CASE child # Nil /\ SearchErr(child) # "ok"
  BY <1>1, <1>5, SearchErrType, DoneCall, LocalStep
<1>6. CASE child # Nil /\ SearchErr(child) = "ok"
  <2>1. child \in Ents
    BY <1>3, <1>6
  <2> DEFINE m == MkdirAllLoop(c, child, Tail(c.rest))
  <2>2. m \in Calls /\ Ready(m) /\ Keeps(m, c)
    BY <2>1, <1>2, MkdirAllLoopCall
  <2>3. call' = [call EXCEPT ![t] = m]
    BY <1>1, <1>6
  <2> HIDE DEF m
  <2> QED BY <1>1, <2>2, <2>3, LocalStep
<1> QED BY <1>4, <1>5, <1>6

\* Opening an entry that is there leaves the tree alone.
LEMMA OpenExistingInv ==
    ASSUME IInv, NEW t \in Threads, OpenExisting(t)
    PROVE  IInv'
<1> USE CallFacts
<1>1. PICK err : err \in Errors /\ call' = [call EXCEPT ![t] = Done(err)]
  BY DEF OpenExisting, OpenErr, Errors
<1>2. UNCHANGED treeVars
  BY DEF OpenExisting
<1> QED BY <1>1, <1>2, DoneCall, LocalStep

\* The checks of removeFromParent leave the tree alone.
LEMMA RemoveCheckInv ==
    ASSUME IInv, NEW t \in Threads, RemoveCheck(t)
    PROVE  IInv'
<1> USE CallFacts
<1> DEFINE c == call[t]
           close == [c EXCEPT !.pc = "removeClose", !.ent = Lookup(c.at, c.base)]
<1>1. Lookup(c.at, c.base) \in Ents \cup {Nil}
  BY DEF TreeTypeOK, Lookup
<1>2. close \in Calls
  <2>1. "removeClose" \in PCs /\ c \in Calls
    BY DEF PCs
  <2> QED BY <1>1, <2>1, PcEntCall
<1>3. Ready(close) /\ Keeps(close, c)
  BY DEF Calls, Ready, Goal, Keeps
<1>4. RemoveErr(c) \in Errors
  BY DEF RemoveErr, Errors
<1>5. UNCHANGED treeVars
  BY DEF RemoveCheck
<1>6. \/ call' = [call EXCEPT ![t] = AfterRemove(c, RemoveErr(c))]
      \/ call' = [call EXCEPT ![t] = close]
  BY DEF RemoveCheck
<1> HIDE DEF close
<1>7. CASE call' = [call EXCEPT ![t] = close]
  BY <1>2, <1>3, <1>5, <1>7, LocalStep
<1>8. CASE call' = [call EXCEPT ![t] = AfterRemove(c, RemoveErr(c))]
  BY <1>4, <1>5, <1>8, AfterRemoveCall, LocalStep
<1> QED BY <1>6, <1>7, <1>8

\* Closing the views under an entry keeps the count of closes in range.
LEMMA NotifyCloseType ==
    ASSUME TreeTypeOK, NEW e, NotifyClose(e)
    PROVE  closes' \in [Ents -> 0..2]
BY DEF TreeTypeOK, NotifyClose

\* Closing what is about to be removed keeps the entries as they are.
LEMMA RemoveCloseInv ==
    ASSUME IInv, NEW t \in Threads, RemoveClose(t)
    PROVE  IInv'
<1> USE CallFacts
<1> DEFINE c == call[t]
<1>1. PICK err \in {"ok", "ErrClosedWithError"} :
          call' = [call EXCEPT ![t] = [c EXCEPT !.pc = "removeUnlink",
                                                !.err = err]]
  BY DEF RemoveClose
<1> DEFINE r == [c EXCEPT !.pc = "removeUnlink", !.err = err]
<1>2. r \in Calls
  BY PcErrCall DEF PCs, Errors
<1>3. Ready(r) /\ Keeps(r, c)
  BY DEF Calls, Ready, Goal, Keeps
<1>4. TreeTypeOK' /\ UNCHANGED <<kind, name, dirents, direntMap>>
  <2>1. closes' \in [Ents -> 0..2]
    BY NotifyCloseType DEF RemoveClose
  <2> QED BY <2>1 DEF RemoveClose, TreeTypeOK
<1> QED BY <1>1, <1>2, <1>3, <1>4, SameLinksStep

\* Removal by name, of the entry found or of one that replaced it since,
\* keeps the invariant.
LEMMA RemoveUnlinkInv ==
    ASSUME IInv, NEW t \in Threads, RemoveUnlink(t)
    PROVE  IInv'
<1> USE CallFacts
<1> DEFINE c == call[t]
           c0 == [c EXCEPT !.err = "ok"]
           r == AfterRemove(c0, c.err)
<1>1. call' = [call EXCEPT ![t] = r]
  BY DEF RemoveUnlink
<1>2. c0 \in Calls /\ c.err \in Errors /\ Keeps(c0, c)
      /\ c0.link = c.link /\ c0.old = c.old
  BY ZenonT(40) DEF Calls, Errors, Keeps
<1> HIDE DEF c0
<1>3. r \in Calls /\ Ready(r) /\ Keeps(r, c0)
  BY <1>2, AfterRemoveCall
<1>4. Keeps(r, c)
  BY <1>2, <1>3 DEF Keeps
<1>5. /\ UNCHANGED <<kind, name>>
      /\ UNCHANGED <<mode, closes, referredAs>>
      /\ RemoveName(c.at, c.base)
  BY DEF RemoveUnlink
<1>6. DirTypes' /\ DirsConsistent' /\ ListedAllocated'
  BY <1>5, RemoveNameInv
<1>7. TreeTypeOK' /\ NamesKept
  BY <1>5, <1>6 DEF DirTypes, TreeTypeOK, NamesKept
<1>8. HeldNext(r)
  BY <1>4, <1>5 DEF Held, HeldNext, Keeps
<1> HIDE DEF r
<1> QED BY <1>1, <1>3, <1>6, <1>7, <1>8, TreeStep

\* The second attempt of RemoveAll starts from the root of the path.
LEMMA RemoveAllAgainInv ==
    ASSUME IInv, NEW t \in Threads, RemoveAllAgain(t)
    PROVE  IInv'
<1> USE CallFacts
<1> DEFINE c == call[t]
           w == [c EXCEPT !.op = "removeAllFrom"]
           r == FindParent(w, c.path, "remove")
<1>1. call' = [call EXCEPT ![t] = r] /\ UNCHANGED treeVars
  BY DEF RemoveAllAgain
<1>2. w \in Calls
  BY ZenonT(40) DEF Calls
<1>3. w.link = c.link /\ w.old = c.old
  BY DEF Calls
<1> HIDE DEF w
<1>4. r \in Calls /\ Ready(r) /\ Keeps(r, w)
  BY <1>2, FindParentCall DEF Targets
<1>5. Keeps(r, c)
  BY <1>3, <1>4 DEF Keeps
<1> HIDE DEF r
<1> QED BY <1>1, <1>4, <1>5, LocalStep

\* The names a directory lists are names.
LEMMA ListNameType ==
    ASSUME TreeTypeOK, NEW d \in Ents
    PROVE  ListName(d) \in Seq(EntNames)
<1>1. dirents[d] \in Seq(Ents)
  BY DEF TreeTypeOK
<1>2. \A i \in 1..Len(dirents[d]) : name[dirents[d][i]] \in EntNames
  BY <1>1 DEF TreeTypeOK
<1>3. ListName(d) = [i \in 1..Len(dirents[d]) |-> name[dirents[d][i]]]
  BY <1>1 DEF ListName
<1>4. Len(dirents[d]) \in Nat
  BY <1>1
<1> QED BY <1>2, <1>3, <1>4

Frames == [dir : Ents, names : Seq(EntNames)]

\* Facts about the record of locals for changes of the stack of removeAllFrom.
LEMMA PcStackCall ==
    ASSUME NEW c \in Calls, NEW pc \in PCs, NEW ent \in Ents \cup {Nil},
           NEW stack \in Seq(Frames)
    PROVE  [c EXCEPT !.pc = pc, !.ent = ent, !.stack = stack] \in Calls
BY DEF Calls, Frames

\* The same for the stack alone.
LEMMA StackCall ==
    ASSUME NEW c \in Calls, NEW stack \in Seq(Frames)
    PROVE  [c EXCEPT !.stack = stack] \in Calls
BY DEF Calls, Frames

\* The same for the step that goes to the next name.
LEMMA PcAtBaseStackCall ==
    ASSUME NEW c \in Calls, NEW pc \in PCs, NEW at \in Ents,
           NEW base \in EntNames, NEW stack \in Seq(Frames)
    PROVE  [c EXCEPT !.pc = pc, !.at = at, !.base = base, !.stack = stack]
              \in Calls
BY DEF Calls, Frames

\* The names that removeAllFrom lists are names of entries.
LEMMA RemoveAllListInv ==
    ASSUME IInv, NEW t \in Threads, RemoveAllList(t)
    PROVE  IInv'
<1> USE CallFacts
<1> DEFINE c == call[t]
           d == Lookup(c.at, c.base)
           stack == Append(c.stack, [dir |-> d, names |-> ListName(d)])
           next == [c EXCEPT !.pc = "next", !.ent = Nil, !.stack = stack]
<1>1. UNCHANGED treeVars
  BY DEF RemoveAllList
<1>2. CASE d = Nil \/ (d # Nil /\ kind[d] = "file")
  <2>1. call' = [call EXCEPT ![t] = Done("panic")] /\ "panic" \in Errors
    BY <1>2 DEF RemoveAllList, Errors
  <2> QED BY <1>1, <2>1, DoneCall, LocalStep
<1>3. CASE ~(d = Nil \/ (d # Nil /\ kind[d] = "file"))
  <2>1. d \in Ents
    BY <1>3 DEF TreeTypeOK, Lookup
  <2>2. call' = [call EXCEPT ![t] = next]
    BY <1>3 DEF RemoveAllList
  <2>3. ListName(d) \in Seq(EntNames)
    BY <2>1, ListNameType
  <2>4. c.stack \in Seq(Frames)
    BY DEF Calls, Frames
  <2>5. stack \in Seq(Frames)
    BY <2>1, <2>3, <2>4 DEF Frames
  <2>6. "next" \in PCs
    BY DEF PCs
  <2> HIDE DEF stack
  <2>7. next \in Calls
    BY <2>5, <2>6, PcStackCall
  <2>8. Ready(next) /\ Keeps(next, c)
    BY DEF Calls, Ready, Goal, Keeps
  <2> HIDE DEF next
  <2> QED BY <1>1, <2>2, <2>7, <2>8, LocalStep
<1> QED BY <1>2, <1>3

\* The loop over those names keeps a well-typed stack.
LEMMA RemoveAllNextInv ==
    ASSUME IInv, NEW t \in Threads, RemoveAllNext(t)
    PROVE  IInv'
<1> USE CallFacts
<1> DEFINE c == call[t]
           top == Last(c.stack)
           pop == [c EXCEPT !.stack = Front(c.stack)]
           stack == Append(Front(c.stack), [top EXCEPT !.names = Tail(@)])
           remove == [c EXCEPT !.pc = "remove", !.at = top.dir,
                               !.base = Head(top.names), !.stack = stack]
<1>1. UNCHANGED treeVars /\ c.pc = "next"
  BY DEF RemoveAllNext
<1>2. CASE c.stack = <<>>
  <2>1. call' = [call EXCEPT ![t] = Done("ok")] /\ "ok" \in Errors
    BY <1>2 DEF RemoveAllNext, Errors
  <2> QED BY <1>1, <2>1, DoneCall, LocalStep
<1>3. CASE c.stack # <<>>
  <2>1. c.stack \in Seq(Frames)
    BY DEF Calls, Frames
  <2>2. Front(c.stack) \in Seq(Frames) /\ top \in Frames
    <3>1. Len(c.stack) \in 1..Len(c.stack) /\ Len(c.stack) - 1 \in 0..Len(c.stack)
      BY <1>3, <2>1
    <3>2. SubSeq(c.stack, 1, Len(c.stack) - 1) \in Seq(Frames)
      BY <2>1, <3>1, SubSeqProperties
    <3> QED BY <2>1, <3>1, <3>2 DEF Front, Last
  <2>3. top.dir \in Ents /\ top.names \in Seq(EntNames)
    BY <2>2 DEF Frames
  <2>4. CASE top.names = <<>>
    <3>1. call' = [call EXCEPT ![t] = pop]
      BY <1>3, <2>4 DEF RemoveAllNext
    <3>2. pop \in Calls
      BY <2>2, StackCall
    <3>3. pop.pc = "next" /\ pop.link = c.link /\ pop.old = c.old
      BY <1>1 DEF Calls
    <3>4. Ready(pop) /\ Keeps(pop, c)
      BY <3>3 DEF Ready, Goal, Keeps
    <3> HIDE DEF pop
    <3> QED BY <1>1, <3>1, <3>2, <3>4, LocalStep
  <2>5. CASE top.names # <<>>
    <3>1. call' = [call EXCEPT ![t] = remove]
      BY <1>3, <2>5 DEF RemoveAllNext
    <3>2. Head(top.names) \in EntNames /\ Tail(top.names) \in Seq(EntNames)
      BY <2>3, <2>5
    <3>3. stack \in Seq(Frames)
      <4>1. [top EXCEPT !.names = Tail(@)] \in Frames
        BY <2>2, <3>2 DEF Frames
      <4> QED BY <2>2, <4>1, AppendProperties
    <3>4. "remove" \in PCs
      BY DEF PCs, Targets
    <3> HIDE DEF stack
    <3>5. remove \in Calls
      BY <2>3, <3>2, <3>3, <3>4, PcAtBaseStackCall
    <3>6. Ready(remove) /\ Keeps(remove, c)
      BY DEF Calls, Ready, Goal, Keeps
    <3> HIDE DEF remove
    <3> QED BY <1>1, <3>1, <3>5, <3>6, LocalStep
  <2> QED BY <2>4, <2>5
<1> QED BY <1>2, <1>3

-----------------------------------------------------------------------------
\* rename
LEMMA RenameOldInv ==
    ASSUME IInv, NEW t \in Threads, RenameOld(t)
    PROVE  IInv'
<1> USE CallFacts
<1> DEFINE c == call[t]
           target == Lookup(c.at, c.base)
           w == [c EXCEPT !.old = target, !.from = c.at]
           r == FindParent(w, c.to, "renameNew")
<1>1. UNCHANGED treeVars
  BY DEF RenameOld
<1>2. \/ call' = [call EXCEPT ![t] = Done("EACCES")]
      \/ call' = [call EXCEPT ![t] = Done("ENOENT")]
      \/ target # Nil /\ call' = [call EXCEPT ![t] = r]
  BY DEF RenameOld
<1>3. CASE \/ call' = [call EXCEPT ![t] = Done("EACCES")]
           \/ call' = [call EXCEPT ![t] = Done("ENOENT")]
  BY <1>1, <1>3, DoneCall, LocalStep DEF Errors
<1>4. CASE target # Nil /\ call' = [call EXCEPT ![t] = r]
  <2>1. target \in Ents /\ kind[target] # "none"
    BY <1>4, LookupAllocated
  <2>2. w \in Calls
    BY ZenonT(40), <2>1 DEF Calls
  <2>3. w.old = target /\ w.link = c.link
    BY DEF Calls
  <2> HIDE DEF w, target
  <2>4. r \in Calls /\ Ready(r) /\ Keeps(r, w)
    BY <1>4, <2>2, <2>3, FindParentCall DEF Targets
  <2> HIDE DEF r
  <2>5. HeldNext(r)
    BY <1>1, <2>1, <2>3, <2>4 DEF HeldNext, Keeps, Held, treeVars
  <2>6. UNCHANGED <<dirents, direntMap>> /\ NamesKept /\ TreeTypeOK'
    BY <1>1 DEF treeVars, NamesKept, TreeTypeOK
  <2>7. DirsConsistent' /\ ListedAllocated'
    BY <2>6, SameDirsInv
  <2> QED BY <1>4, <2>4, <2>5, <2>6, <2>7, TreeStep
<1> QED BY <1>2, <1>3, <1>4

\* What rename checks gives one of the errors of the operations.
LEMMA RenameErrType == \A old, new : RenameErr(old, new) \in Errors
BY DEF RenameErr, Errors

\* The checks of rename at its target leave the tree alone.
LEMMA RenameNewInv ==
    ASSUME IInv, NEW t \in Threads, RenameNew(t)
    PROVE  IInv'
<1> USE CallFacts
<1> DEFINE c == call[t]
           unlink == [c EXCEPT !.pc = "renameUnlink"]
<1>1. UNCHANGED treeVars /\ c.pc = "renameNew"
  BY DEF RenameNew
<1>2. PICK err \in Errors :
          call' = [call EXCEPT ![t] = IF err # "ok" THEN Done(err) ELSE unlink]
  BY RenameErrType DEF RenameNew, Errors
<1>3. CASE err # "ok"
  BY <1>1, <1>2, <1>3, DoneCall, LocalStep
<1>4. CASE err = "ok"
  <2>1. unlink \in Calls
    <3>1. "renameUnlink" \in PCs
      BY DEF PCs
    <3> QED BY <3>1, PcCall
  <2>2. Ready(unlink) /\ Keeps(unlink, c)
    BY <1>1 DEF Calls, Ready, Goal, Keeps
  <2> QED BY <1>1, <1>2, <1>4, <2>1, <2>2, LocalStep
<1> QED BY <1>3, <1>4

\* The first half of a rename removes by name and keeps the invariant.
LEMMA RenameUnlinkInv ==
    ASSUME IInv, NEW t \in Threads, RenameUnlink(t)
    PROVE  IInv'
<1> USE CallFacts
<1> DEFINE c == call[t]
           r == [c EXCEPT !.pc = "renameLink"]
<1>1. c.pc = "renameUnlink" /\ call' = [call EXCEPT ![t] = r]
  BY DEF RenameUnlink
<1>2. c.old \in Ents
  BY <1>1 DEF Ready, Goal, Calls
<1>3. name[c.old] \in EntNames
  BY <1>2 DEF TreeTypeOK
<1>4. r \in Calls
  <2>1. "renameLink" \in PCs
    BY DEF PCs
  <2> QED BY <2>1, PcCall
<1>5. Ready(r) /\ Keeps(r, c)
  BY <1>1 DEF Calls, Ready, Goal, Keeps
<1>6. /\ UNCHANGED <<kind, name>>
      /\ UNCHANGED <<mode, closes, referredAs>>
      /\ RemoveName(c.from, name[c.old])
  BY DEF RenameUnlink
<1>7. DirTypes' /\ DirsConsistent' /\ ListedAllocated'
  BY <1>3, <1>6, RemoveNameInv
<1>8. TreeTypeOK' /\ NamesKept
  BY <1>6, <1>7 DEF DirTypes, TreeTypeOK, NamesKept
<1>9. HeldNext(r)
  BY <1>5, <1>6 DEF Held, HeldNext, Keeps
<1> HIDE DEF r
<1> QED BY <1>1, <1>4, <1>5, <1>7, <1>8, <1>9, TreeStep

\* The second half adds an entry that was allocated long before, under the
\* name it has had since then.
LEMMA RenameLinkInv ==
    ASSUME IInv, NEW t \in Threads, RenameLink(t)
    PROVE  IInv'
<1> USE CallFacts
<1> DEFINE c == call[t]
           r == Done("ok")
<1>1. c.pc = "renameLink" /\ call' = [call EXCEPT ![t] = r]
  BY DEF RenameLink
<1>2. r \in Calls /\ Ready(r) /\ Keeps(r, c)
  BY DoneCall DEF Errors
<1>3. c.old \in Ents /\ kind[c.old] # "none"
  BY <1>1 DEF Ready, Goal, Calls, Held
<1>4. UNCHANGED <<kind, name, mode, closes>> /\ AddDirent(c.at, c.old)
  BY DEF RenameLink
<1>5. NamesKept /\ name' \in [Ents -> EntNames] /\ kind'[c.old] # "none"
      /\ name'[c.old] = name[c.old]
  BY <1>3, <1>4 DEF NamesKept, TreeTypeOK
<1>6. DirTypes' /\ DirsConsistent' /\ ListedAllocated'
  BY <1>3, <1>4, <1>5, AddDirentInv
<1>7. referredAs' \in [Ents -> Seq(Names) \cup {Nil}]
  BY <1>3 DEF RenameLink, TreeTypeOK
<1>8. TreeTypeOK'
  BY <1>4, <1>6, <1>7 DEF DirTypes, TreeTypeOK
<1>9. HeldNext(r)
  BY <1>2, <1>4 DEF Held, HeldNext, Keeps
<1> HIDE DEF r
<1> QED BY <1>1, <1>2, <1>5, <1>6, <1>8, <1>9, TreeStep

-----------------------------------------------------------------------------
\* Steps that allocate a dirent or link one.
LEMMA MkdirAddInv ==
    ASSUME IInv, NEW t \in Threads, MkdirAdd(t)
    PROVE  IInv'
<1> USE CallFacts
<1> DEFINE c == call[t]
           r == Done("ok")
           n == Base(c.path)
           m == c.perm \ Umask
<1>1. /\ call' = [call EXCEPT ![t] = r]
      /\ Fresh \in Ents
      /\ NewDirent(Fresh, "dir", n, m)
      /\ AddDirent(c.at, Fresh)
      /\ UNCHANGED <<closes, referredAs>>
  BY FreshType DEF MkdirAdd
<1>2. r \in Calls /\ Ready(r) /\ Keeps(r, c)
  BY DoneCall DEF Errors
<1>3. n \in EntNames /\ m \in SUBSET Bits
  BY PathTypes
<1> HIDE DEF n, m, r
<1>4. /\ NamesKept /\ kind[Fresh] = "none" /\ kind'[Fresh] # "none"
      /\ kind' \in [Ents -> {"none", "dir", "file"}]
      /\ name' \in [Ents -> EntNames]
      /\ mode' \in [Ents -> SUBSET Bits]
  BY <1>1, <1>3, NewDirentStep
<1>5. DirTypes' /\ DirsConsistent' /\ ListedAllocated'
  BY <1>1, <1>4, AddDirentInv
<1>6. TreeTypeOK'
  BY <1>1, <1>4, <1>5 DEF DirTypes, TreeTypeOK
<1>7. HeldNext(r)
  BY ZenonT(40), <1>2, <1>4 DEF Held, HeldNext, Keeps, NamesKept, Calls
<1> QED BY <1>1, <1>2, <1>4, <1>5, <1>6, <1>7, TreeStep

\* The directory mkdirAll makes is new and listed under its own name.
LEMMA MkdirAllAddInv ==
    ASSUME IInv, NEW t \in Threads, MkdirAllAdd(t)
    PROVE  IInv'
<1> USE CallFacts
<1> DEFINE c == call[t]
           n == Head(c.rest)
           m == c.perm \ Umask
           loop == MkdirAllLoop(c, Fresh, Tail(c.rest))
           r == IF "x" \notin m THEN Done("EACCES") ELSE loop
<1>1. /\ c.pc = "mkdirAllAdd"
      /\ call' = [call EXCEPT ![t] = r]
      /\ Fresh \in Ents
      /\ NewDirent(Fresh, "dir", n, m)
      /\ AddDirent(c.at, Fresh)
      /\ UNCHANGED <<closes, referredAs>>
  BY FreshType DEF MkdirAllAdd
<1>2. /\ n \in EntNames /\ m \in SUBSET Bits
      /\ Tail(c.rest) \in Seq(Names)
      /\ c.op = "MkdirAll" \/ HasFile(c)
  <2>1. c.rest # <<>> /\ (c.op = "MkdirAll" \/ HasFile(c))
    BY <1>1 DEF Ready, Goal
  <2> QED BY <2>1 DEF EntNames
<1>3. r \in Calls /\ Ready(r) /\ Keeps(r, c)
  <2>1. loop \in Calls /\ Ready(loop) /\ Keeps(loop, c)
    BY <1>1, <1>2, MkdirAllLoopCall
  <2> HIDE DEF loop
  <2> QED BY <2>1, DoneCall DEF Errors
<1> HIDE DEF n, m, r
<1>4. /\ NamesKept /\ kind[Fresh] = "none" /\ kind'[Fresh] # "none"
      /\ kind' \in [Ents -> {"none", "dir", "file"}]
      /\ name' \in [Ents -> EntNames]
      /\ mode' \in [Ents -> SUBSET Bits]
  BY <1>1, <1>2, NewDirentStep
<1>5. DirTypes' /\ DirsConsistent' /\ ListedAllocated'
  BY <1>1, <1>4, AddDirentInv
<1>6. TreeTypeOK'
  BY <1>1, <1>4, <1>5 DEF DirTypes, TreeTypeOK
<1>7. HeldNext(r)
  BY ZenonT(40), <1>3, <1>4 DEF Held, HeldNext, Keeps, NamesKept, Calls
<1> QED BY <1>1, <1>3, <1>4, <1>5, <1>6, <1>7, TreeStep

\* Facts about the record of locals for a view that is to be linked.
LEMMA PcLinkCall ==
    ASSUME NEW c \in Calls, NEW pc \in PCs, NEW link \in Ents
    PROVE  [c EXCEPT !.pc = pc, !.link = link] \in Calls
BY DEF Calls

\* The file openFile creates is allocated and in no directory yet.
LEMMA OpenCreateInv ==
    ASSUME IInv, NEW t \in Threads, OpenCreate(t)
    PROVE  IInv'
<1> USE CallFacts
<1> DEFINE c == call[t]
           r == [c EXCEPT !.pc = "openLink", !.link = Fresh]
<1>1. PICK err \in Errors :
        \/ /\ call' = [call EXCEPT ![t] = Done(err)]
           /\ UNCHANGED treeVars
        \/ /\ Free # {}
           /\ NewDirent(Fresh, "file", c.base, c.perm)
           /\ call' = [call EXCEPT ![t] = r]
           /\ UNCHANGED <<dirents, direntMap, closes, referredAs>>
  <2>1. (IF CreateErr(c) # "ok" THEN CreateErr(c) ELSE "EIO") \in Errors
    BY DEF CreateErr, Errors
  <2> QED BY <2>1 DEF OpenCreate
<1>2. CASE call' = [call EXCEPT ![t] = Done(err)] /\ UNCHANGED treeVars
  BY <1>2, DoneCall, LocalStep
<1>3. CASE /\ Free # {}
           /\ NewDirent(Fresh, "file", c.base, c.perm)
           /\ call' = [call EXCEPT ![t] = r]
           /\ UNCHANGED <<dirents, direntMap, closes, referredAs>>
  <2>1. Fresh \in Ents /\ Fresh # Nil
    BY <1>3, FreshType, DirsAssumption
  <2>2. r \in Calls
    <3>1. "openLink" \in PCs
      BY DEF PCs
    <3> QED BY <2>1, <3>1, PcLinkCall
  <2>3. r.pc = "openLink" /\ r.link = Fresh /\ r.old = c.old
    BY DEF Calls
  <2>4. Ready(r)
    BY <2>1, <2>3 DEF Ready, Goal
  <2>5. /\ NamesKept /\ kind'[Fresh] # "none"
        /\ kind' \in [Ents -> {"none", "dir", "file"}]
        /\ name' \in [Ents -> EntNames]
        /\ mode' \in [Ents -> SUBSET Bits]
    BY <1>3, <2>1, NewDirentStep
  <2>6. TreeTypeOK' /\ UNCHANGED <<dirents, direntMap>>
    BY <1>3, <2>5 DEF TreeTypeOK
  <2>7. DirsConsistent' /\ ListedAllocated'
    BY <2>5, <2>6, SameDirsInv
  <2>8. HeldNext(r)
    BY <2>3, <2>5 DEF Held, HeldNext, NamesKept, Calls
  <2> QED BY <1>3, <2>2, <2>4, <2>5, <2>6, <2>7, <2>8, TreeStep
<1> QED BY <1>1, <1>2, <1>3

\* Linking it replaces whatever came to have its name meanwhile.
LEMMA OpenLinkInv ==
    ASSUME IInv, NEW t \in Threads, OpenLink(t)
    PROVE  IInv'
<1> USE CallFacts
<1> DEFINE c == call[t]
           r == Done("ok")
<1>1. c.pc = "openLink" /\ call' = [call EXCEPT ![t] = r]
  BY DEF OpenLink
<1>2. r \in Calls /\ Ready(r) /\ Keeps(r, c)
  BY DoneCall DEF Errors
<1>3. c.link \in Ents /\ kind[c.link] # "none"
  BY <1>1 DEF Ready, Goal, Calls, Held
<1>4. UNCHANGED <<kind, name, mode, closes, referredAs>>
      /\ AddDirent(c.at, c.link)
  BY DEF OpenLink
<1>5. NamesKept /\ name' \in [Ents -> EntNames] /\ kind'[c.link] # "none"
      /\ name'[c.link] = name[c.link]
  BY <1>3, <1>4 DEF NamesKept, TreeTypeOK
<1>6. DirTypes' /\ DirsConsistent' /\ ListedAllocated'
  BY <1>3, <1>4, <1>5, AddDirentInv
<1>7. TreeTypeOK'
  BY <1>4, <1>6 DEF DirTypes, TreeTypeOK
<1>8. HeldNext(r)
  BY <1>2, <1>4 DEF Held, HeldNext, Keeps
<1> HIDE DEF r
<1> QED BY <1>1, <1>2, <1>5, <1>6, <1>7, <1>8, TreeStep

-----------------------------------------------------------------------------
\* Reallocate, and addFile after the directories were made.
LEMMA PcLinkOldCall ==
    ASSUME NEW c \in Calls, NEW link \in Ents, NEW old \in Ents
    PROVE  [c EXCEPT !.link = link, !.old = old] \in Calls
BY DEF Calls

\* The copy Reallocate makes is allocated and in no directory yet.
LEMMA ReallocCopyInv ==
    ASSUME IInv, NEW t \in Threads, ReallocCopy(t)
    PROVE  IInv'
<1> USE CallFacts
<1> DEFINE c == call[t]
           e == Found(c)
           w == [c EXCEPT !.link = Fresh, !.old = e]
           r == MkdirAll(w, Dir(c.path))
<1>1. PICK err \in Errors :
        \/ /\ call' = [call EXCEPT ![t] = Done(err)]
           /\ UNCHANGED treeVars
        \/ /\ ReallocErr(e) = "ok"
           /\ Free # {}
           /\ NewDirent(Fresh, "file", Base(c.path), Bits)
           /\ call' = [call EXCEPT ![t] = r]
           /\ UNCHANGED <<dirents, direntMap, closes, referredAs>>
  <2>1. (IF ReallocErr(e) # "ok" THEN ReallocErr(e) ELSE "EIO") \in Errors
    BY DEF ReallocErr, Errors
  <2> QED BY <2>1 DEF ReallocCopy
<1>2. CASE call' = [call EXCEPT ![t] = Done(err)] /\ UNCHANGED treeVars
  BY <1>2, DoneCall, LocalStep
<1>3. CASE /\ ReallocErr(e) = "ok"
           /\ Free # {}
           /\ NewDirent(Fresh, "file", Base(c.path), Bits)
           /\ call' = [call EXCEPT ![t] = r]
           /\ UNCHANGED <<dirents, direntMap, closes, referredAs>>
  <2>1. Fresh \in Ents /\ Fresh # Nil
    BY <1>3, FreshType, DirsAssumption
  <2>2. e \in Ents /\ e # Nil /\ kind[e] # "none"
    BY <1>3, FoundType, DirsAssumption DEF ReallocErr
  <2>3. Base(c.path) \in EntNames /\ Dir(c.path) \in Seq(Names)
    BY PathTypes
  <2> HIDE DEF e
  <2>4. w \in Calls
    BY <2>1, <2>2, PcLinkOldCall
  <2>5. w.link = Fresh /\ w.old = e /\ w.op = c.op
    BY DEF Calls
  <2> HIDE DEF w
  <2>6. r \in Calls /\ Ready(r) /\ Keeps(r, w)
    BY <2>1, <2>2, <2>3, <2>4, <2>5, MkdirAllCall DEF HasFile
  <2> HIDE DEF r
  <2>7. /\ NamesKept /\ kind'[Fresh] # "none"
        /\ kind' \in [Ents -> {"none", "dir", "file"}]
        /\ name' \in [Ents -> EntNames]
        /\ mode' \in [Ents -> SUBSET Bits]
    BY <1>3, <2>1, <2>3, NewDirentStep
  <2>8. TreeTypeOK' /\ UNCHANGED <<dirents, direntMap>>
    BY <1>3, <2>7 DEF TreeTypeOK
  <2>9. DirsConsistent' /\ ListedAllocated'
    BY <2>7, <2>8, SameDirsInv
  <2>10. HeldNext(r)
    BY <2>2, <2>5, <2>6, <2>7 DEF Keeps, HeldNext, NamesKept
  <2> QED BY <1>3, <2>6, <2>7, <2>8, <2>9, <2>10, TreeStep
<1> QED BY <1>1, <1>2, <1>3

\* Facts about the record of locals for the entry addFile replaces.
LEMMA PcAtEntCall ==
    ASSUME NEW c \in Calls, NEW pc \in PCs, NEW at \in Ents, NEW ent \in Ents
    PROVE  [c EXCEPT !.pc = pc, !.at = at, !.ent = ent] \in Calls
BY DEF Calls

\* IsWritableDir returns one of the errors of the operations.
LEMMA WritableErrType ==
    /\ \A e : WritableErr(e) \in Errors
    /\ WritableErr(Nil) # "ok"
BY DEF WritableErr, SearchErr, Errors

\* The lookup of addFile leaves the tree alone.
LEMMA AddLookupInv ==
    ASSUME IInv, NEW t \in Threads, AddLookup(t)
    PROVE  IInv'
<1> USE CallFacts
<1> DEFINE c == call[t]
           parent == Found(c)
           ent == Lookup(parent, Base(c.path))
           link == [c EXCEPT !.pc = "addLink", !.at = parent]
           close == [c EXCEPT !.pc = "addClose", !.at = parent, !.ent = ent]
<1>1. c.pc = "add" /\ UNCHANGED treeVars
  BY DEF AddLookup
<1>2. \/ call' = [call EXCEPT ![t] = Done(WritableErr(parent))]
      \/ WritableErr(parent) = "ok" /\ call' = [call EXCEPT ![t] = link]
      \/ /\ WritableErr(parent) = "ok" /\ ent # Nil
         /\ call' = [call EXCEPT ![t] = close]
  BY DEF AddLookup
<1>3. CASE call' = [call EXCEPT ![t] = Done(WritableErr(parent))]
  BY <1>1, <1>3, WritableErrType, DoneCall, LocalStep
<1>4. CASE /\ WritableErr(parent) = "ok"
           /\ \/ call' = [call EXCEPT ![t] = link]
              \/ ent # Nil /\ call' = [call EXCEPT ![t] = close]
  <2>1. parent \in Ents
    BY <1>4, WritableErrType, FoundType
  <2>2. HasFile(c)
    BY <1>1 DEF Ready, Goal
  <2>3. Base(c.path) \in EntNames
    BY PathTypes
  <2> HIDE DEF parent
  <2>4. CASE call' = [call EXCEPT ![t] = link]
    <3>1. link \in Calls
      <4>1. "addLink" \in PCs
        BY DEF PCs
      <4> QED BY <2>1, <4>1, PcAtCall
    <3>2. /\ link.pc = "addLink" /\ link.op = c.op
          /\ link.link = c.link /\ link.old = c.old
      BY DEF Calls
    <3> HIDE DEF link
    <3>3. Ready(link) /\ Keeps(link, c)
      BY <2>2, <3>2 DEF Ready, Goal, HasFile, Keeps
    <3> QED BY <1>1, <2>4, <3>1, <3>3, LocalStep
  <2>5. CASE ent # Nil /\ call' = [call EXCEPT ![t] = close]
    <3>1. ent \in Ents
      BY <2>1, <2>3, <2>5 DEF TreeTypeOK, Lookup
    <3> HIDE DEF ent
    <3>2. close \in Calls
      <4>1. "addClose" \in PCs
        BY DEF PCs
      <4> QED BY <2>1, <3>1, <4>1, PcAtEntCall
    <3>3. /\ close.pc = "addClose" /\ close.op = c.op
          /\ close.link = c.link /\ close.old = c.old
      BY DEF Calls
    <3> HIDE DEF close
    <3>4. Ready(close) /\ Keeps(close, c)
      BY <2>2, <3>3 DEF Ready, Goal, HasFile, Keeps
    <3> QED BY <1>1, <2>5, <3>2, <3>4, LocalStep
  <2> QED BY <1>4, <2>4, <2>5
<1> QED BY <1>2, <1>3, <1>4

\* Closing the view addFile replaces keeps the entries as they are.
LEMMA AddCloseInv ==
    ASSUME IInv, NEW t \in Threads, AddClose(t)
    PROVE  IInv'
<1> USE CallFacts
<1> DEFINE c == call[t]
           r == [c EXCEPT !.pc = "addLink", !.ent = Nil]
<1>1. c.pc = "addClose" /\ call' = [call EXCEPT ![t] = r]
  BY DEF AddClose
<1>2. r \in Calls
  <2>1. "addLink" \in PCs
    BY DEF PCs
  <2> QED BY <2>1, PcEntCall
<1>3. HasFile(c)
  BY <1>1 DEF Ready, Goal
<1>4. /\ r.pc = "addLink" /\ r.op = c.op
      /\ r.link = c.link /\ r.old = c.old
  BY DEF Calls
<1> HIDE DEF r
<1>5. Ready(r) /\ Keeps(r, c)
  BY <1>3, <1>4 DEF Ready, Goal, HasFile, Keeps
<1>6. TreeTypeOK' /\ UNCHANGED <<kind, name, dirents, direntMap>>
  <2>1. closes' \in [Ents -> 0..2]
    BY NotifyCloseType DEF AddClose
  <2> QED BY <2>1 DEF AddClose, TreeTypeOK
<1> QED BY <1>1, <1>2, <1>5, <1>6, SameLinksStep

\* addFile links an allocated entry under the name it was allocated with.
LEMMA AddLinkInv ==
    ASSUME IInv, NEW t \in Threads, AddLink(t)
    PROVE  IInv'
<1> USE CallFacts
<1> DEFINE c == call[t]
           meta == [c EXCEPT !.pc = "meta"]
           r == IF c.op = "AddFile" THEN Done("ok") ELSE meta
<1>1. c.pc = "addLink" /\ call' = [call EXCEPT ![t] = r]
  BY DEF AddLink
<1>2. HasFile(c)
  BY <1>1 DEF Ready, Goal
<1>3. r \in Calls /\ Ready(r) /\ Keeps(r, c)
  <2>1. CASE c.op = "AddFile"
    BY <2>1, DoneCall DEF Errors
  <2>2. CASE c.op # "AddFile"
    <3>1. meta \in Calls
      <4>1. "meta" \in PCs
        BY DEF PCs
      <4> QED BY <4>1, PcCall
    <3>2. meta.pc = "meta" /\ meta.link = c.link /\ meta.old = c.old
      BY DEF Calls
    <3>3. Ready(meta) /\ Keeps(meta, c)
      BY <1>2, <2>2, <3>2 DEF Ready, Goal, HasFile, Keeps
    <3> QED BY <2>2, <3>1, <3>3
  <2> QED BY <2>1, <2>2
<1> HIDE DEF r
<1>4. c.link \in Ents /\ kind[c.link] # "none"
  BY <1>2 DEF HasFile, Calls, Held
<1>5. UNCHANGED <<kind, name, mode, closes, referredAs>>
      /\ AddDirent(c.at, c.link)
  BY DEF AddLink
<1>6. NamesKept /\ name' \in [Ents -> EntNames] /\ kind'[c.link] # "none"
      /\ name'[c.link] = name[c.link]
  BY <1>4, <1>5 DEF NamesKept, TreeTypeOK
<1>7. DirTypes' /\ DirsConsistent' /\ ListedAllocated'
  BY <1>4, <1>5, <1>6, AddDirentInv
<1>8. TreeTypeOK'
  BY <1>5, <1>7 DEF DirTypes, TreeTypeOK
<1>9. HeldNext(r)
  BY <1>3, <1>5 DEF Held, HeldNext, Keeps
<1> QED BY <1>1, <1>3, <1>6, <1>7, <1>8, <1>9, TreeStep

\* Reallocate ends with the mode and the Close of the old view.
LEMMA ReallocMetaInv ==
    ASSUME IInv, NEW t \in Threads, ReallocMeta(t)
    PROVE  IInv'
<1> USE CallFacts
<1> DEFINE c == call[t]
<1>1. PICK err \in Errors : call' = [call EXCEPT ![t] = Done(err)]
  BY DEF ReallocMeta, Errors
<1>2. c.link \in Ents /\ c.old \in Ents
  BY DEF ReallocMeta, Ready, Goal, Calls
<1>3. TreeTypeOK' /\ UNCHANGED <<kind, name, dirents, direntMap>>
  <2>1. closes' \in [Ents -> 0..2]
    BY NotifyCloseType DEF ReallocMeta
  <2>2. mode' \in [Ents -> SUBSET Bits]
    BY <1>2 DEF ReallocMeta, TreeTypeOK
  <2> QED BY <2>1, <2>2 DEF ReallocMeta, TreeTypeOK
<1> QED BY <1>1, <1>3, DoneCall, SameLinksStep

-----------------------------------------------------------------------------
(***************************************************************************)
(* The theorems.                                                           *)
(***************************************************************************)
\* Every step, of any goroutine at any point, keeps the inductive invariant.
LEMMA NextInv == IInv /\ [Next]_vars => IInv'
<1> SUFFICES ASSUME IInv, [Next]_vars PROVE IInv'
  OBVIOUS
<1>1. ASSUME NEW t \in Threads, Call(t) PROVE IInv'
  BY <1>1, CallInv
<1>2. ASSUME NEW t \in Threads, Step(t) PROVE IInv'
  <2>1. CASE Walk(t) \/ Chmod(t) \/ MkdirCheck(t) \/ MkdirAdd(t)
             \/ MkdirAllLookup(t) \/ MkdirAllAdd(t)
    BY <2>1, WalkInv, ChmodInv, MkdirCheckInv, MkdirAddInv, MkdirAllLookupInv,
       MkdirAllAddInv
  <2>2. CASE OpenExisting(t) \/ OpenCreate(t) \/ OpenLink(t)
    BY <2>2, OpenExistingInv, OpenCreateInv, OpenLinkInv
  <2>3. CASE RemoveCheck(t) \/ RemoveClose(t) \/ RemoveUnlink(t)
             \/ RemoveAllAgain(t) \/ RemoveAllList(t) \/ RemoveAllNext(t)
    BY <2>3, RemoveCheckInv, RemoveCloseInv, RemoveUnlinkInv,
       RemoveAllAgainInv, RemoveAllListInv, RemoveAllNextInv
  <2>4. CASE RenameOld(t) \/ RenameNew(t) \/ RenameUnlink(t) \/ RenameLink(t)
    BY <2>4, RenameOldInv, RenameNewInv, RenameUnlinkInv, RenameLinkInv
  <2>5. CASE ReallocCopy(t) \/ AddLookup(t) \/ AddClose(t) \/ AddLink(t)
             \/ ReallocMeta(t)
    BY <2>5, ReallocCopyInv, AddLookupInv, AddCloseInv, AddLinkInv,
       ReallocMetaInv
  <2> QED BY <1>2, <2>1, <2>2, <2>3, <2>4, <2>5 DEF Step
<1>3. CASE UNCHANGED vars
  <2>1. UNCHANGED <<dirents, direntMap>> /\ NamesKept /\ TypeOK'
    BY <1>3 DEF vars, treeVars, NamesKept, IInv, TypeOK, TreeTypeOK
  <2>2. DirsConsistent' /\ ListedAllocated'
    BY <2>1, SameDirsInv DEF IInv, TypeOK
  <2>3. \A t \in Threads : (Ready(call[t]) /\ Held(call[t]))'
    BY <1>3 DEF vars, treeVars, IInv, Held
  <2> QED BY <2>1, <2>2, <2>3 DEF IInv
<1> QED BY <1>1, <1>2, <1>3 DEF Next

\* The inductive invariant holds in every reachable state.
LEMMA Inductive == Spec => []IInv
BY InitInv, NextInv, PTL DEF Spec

\* Every variable keeps its type, in particular no operation ever stores the
\* nil pointer as the directory it works in.
THEOREM TypeCorrect == Spec => []TypeOK
<1>1. IInv => TypeOK
  BY DEF IInv
<1> QED BY <1>1, Inductive, PTL

\* "dirents and direntMap hold same objects", dir.go says of the two fields of
\* a directory: so they do, whatever operations run concurrently.
THEOREM DirsAgree == Spec => []DirsConsistent
<1>1. IInv => DirsConsistent
  BY DEF IInv
<1> QED BY <1>1, Inductive, PTL

-----------------------------------------------------------------------------
(***************************************************************************)
(* The entries of a directory change only while its permission bits allow  *)
(* it, whatever other operations do between the check of an operation and  *)
(* its changes, as long as they do not chmod.  The inductive invariant is  *)
(* stated for kinds K and modes M, because the step that allocates a       *)
(* dirent sets the locals of its operation as well.                        *)
(***************************************************************************)
\* where an operation has looked at the write permission of the directory at
Checked == {"mkdirAdd", "openLink", "removeClose", "removeUnlink",
            "renameUnlink", "renameLink", "addClose", "addLink"}

\* the directories an operation has in its locals are directories
InDirs(K, c) ==
    /\ K[c.at] = "dir" /\ K[c.from] = "dir"
    /\ c.link # Nil => K[c.link] = "file"
    /\ \A i \in DOMAIN c.stack : K[c.stack[i].dir] = "dir"

MayChmod == \E t \in Threads : "Chmod" \in Ops[t]

\* if any goroutine may chmod it is the only one
ChmodAlone == MayChmod => \A t, u \in Threads : t = u

\* what an operation found of d stays true as long as nobody else may chmod
Writable(M, d) == ChmodAlone => "w" \in M[d]

Sound(K, M, c) ==
    /\ InDirs(K, c)
    /\ c.pc \in Checked => Writable(M, c.at)
    /\ Goal(c) \in {"renameNew", "renameUnlink"} => Writable(M, c.from)
    /\ Goal(c) = "chmod" => MayChmod

PInv ==
    /\ IInv
    /\ kind[Root] = "dir"
    /\ \A t \in Threads : Sound(kind, mode, call[t])

-----------------------------------------------------------------------------
(***************************************************************************)
(* How a step may leave an operation.                                      *)
(***************************************************************************)
LEMMA DoneSound ==
    ASSUME NEW K, NEW M, NEW err, K[Root] = "dir"
    PROVE  Sound(K, M, Done(err))
<1>1. /\ Done(err).pc = "idle" /\ Done(err).at = Root /\ Done(err).from = Root
      /\ Done(err).link = Nil /\ Done(err).stack = <<>>
  BY DEF Done, NoCall
<1> QED BY <1>1 DEF Sound, InDirs, Checked, Goal

LEMMA ReturnSound ==
    ASSUME NEW K, NEW M, NEW c \in Calls, NEW err, K[Root] = "dir",
           InDirs(K, c)
    PROVE  Sound(K, M, Return(c, err))
<1> DEFINE again == [c EXCEPT !.pc = "again", !.ent = Nil]
<1>1. /\ again.pc = "again" /\ again.at = c.at /\ again.from = c.from
      /\ again.link = c.link /\ again.stack = c.stack
  BY DEF Calls
<1> HIDE DEF again
<1>2. Sound(K, M, again)
  BY <1>1 DEF Sound, InDirs, Checked, Goal
<1>3. Return(c, err) \in {again, Done("ok"), Done(err)}
  BY DEF Return, again
<1> QED BY <1>2, <1>3, DoneSound

LEMMA AfterRemoveSound ==
    ASSUME NEW K, NEW M, NEW c \in Calls, NEW err, K[Root] = "dir",
           InDirs(K, c)
    PROVE  Sound(K, M, AfterRemove(c, err))
<1> DEFINE next == [c EXCEPT !.pc = "next", !.ent = Nil]
           list == [c EXCEPT !.pc = "list"]
<1>1. /\ next.pc = "next" /\ next.at = c.at /\ next.from = c.from
      /\ next.link = c.link /\ next.stack = c.stack
      /\ list.pc = "list" /\ list.at = c.at /\ list.from = c.from
      /\ list.link = c.link /\ list.stack = c.stack
  BY DEF Calls
<1> HIDE DEF next, list
<1>2. Sound(K, M, next) /\ Sound(K, M, list)
  BY <1>1 DEF Sound, InDirs, Checked, Goal
<1>3. AfterRemove(c, err) \in {next, list, Return(c, err), Done(err)}
  BY DEF AfterRemove, next, list
<1> QED BY <1>2, <1>3, DoneSound, ReturnSound

LEMMA ArriveSound ==
    ASSUME NEW K, NEW M, NEW c \in Calls, c.next \in Targets, InDirs(K, c),
           c.next = "renameNew" => Writable(M, c.from),
           c.next = "chmod" => MayChmod
    PROVE  Sound(K, M, Arrive(c))
<1> DEFINE there == [c EXCEPT !.pc = c.next, !.rest = <<>>]
           walk == [c EXCEPT !.pc = "walk"]
<1>1. /\ there.pc = c.next /\ there.at = c.at /\ there.from = c.from
      /\ there.link = c.link /\ there.stack = c.stack
      /\ walk.pc = "walk" /\ walk.at = c.at /\ walk.from = c.from
      /\ walk.link = c.link /\ walk.stack = c.stack /\ walk.next = c.next
  BY DEF Calls
<1> HIDE DEF there, walk
<1>2. Sound(K, M, there)
  BY <1>1 DEF Sound, InDirs, Checked, Goal, Targets
<1>3. Sound(K, M, walk)
  BY <1>1 DEF Sound, InDirs, Checked, Goal, Targets
<1>4. Arrive(c) \in {there, walk}
  BY DEF Arrive, there, walk
<1> QED BY <1>2, <1>3, <1>4

LEMMA FindParentSound ==
    ASSUME NEW K, NEW M, NEW c \in Calls, NEW p \in Seq(Names),
           NEW next \in Targets, K[Root] = "dir", InDirs(K, c),
           next = "renameNew" => Writable(M, c.from),
           next = "chmod" => MayChmod
    PROVE  Sound(K, M, FindParent(c, p, next))
<1> DEFINE w == [c EXCEPT !.at = Root, !.base = Base(p), !.rest = p,
                          !.next = next]
<1>1. w \in Calls
  BY PathTypes, DirsAssumption DEF Calls
<1>2. /\ w.next = next /\ w.at = Root /\ w.from = c.from
      /\ w.link = c.link /\ w.stack = c.stack
  BY DEF Calls
<1>3. FindParent(c, p, next) \in {Return(c, SearchErr(Root)), Arrive(w)}
  BY DEF FindParent
<1> HIDE DEF w
<1>4. InDirs(K, w)
  BY <1>2 DEF InDirs
<1>5. Sound(K, M, Arrive(w))
  BY <1>1, <1>2, <1>4, ArriveSound
<1> QED BY <1>3, <1>5, ReturnSound

LEMMA MkdirAllLoopSound ==
    ASSUME NEW K, NEW M, NEW c \in Calls, NEW at \in Ents,
           NEW rest \in Seq(Names), K[Root] = "dir", K[at] = "dir",
           InDirs(K, c)
    PROVE  Sound(K, M, MkdirAllLoop(c, at, rest))
<1> DEFINE loop == [c EXCEPT !.pc = "mkdirAll", !.at = at, !.rest = rest]
<1>1. /\ loop.pc = "mkdirAll" /\ loop.at = at /\ loop.from = c.from
      /\ loop.link = c.link /\ loop.stack = c.stack
  BY DEF Calls
<1> HIDE DEF loop
<1>2. Sound(K, M, loop)
  BY <1>1 DEF Sound, InDirs, Checked, Goal
<1>3. Sound(K, M, FindParent(c, Dir(c.path), "add"))
  <2>1. /\ Dir(c.path) \in Seq(Names) /\ "add" \in Targets
        /\ "add" \notin {"renameNew", "chmod"}
    BY PathTypes DEF Calls, Targets
  <2> QED BY <2>1, FindParentSound
<1>4. MkdirAllLoop(c, at, rest)
         \in {loop, Done("ok"), FindParent(c, Dir(c.path), "add")}
  BY DEF MkdirAllLoop, loop
<1> QED BY <1>2, <1>3, <1>4, DoneSound

LEMMA MkdirAllSound ==
    ASSUME NEW K, NEW M, NEW c \in Calls, NEW p \in Seq(Names),
           K[Root] = "dir", InDirs(K, c)
    PROVE  Sound(K, M, MkdirAll(c, p))
<1>1. MkdirAll(c, p) \in {Done(SearchErr(Root)), MkdirAllLoop(c, Root, p)}
  BY DEF MkdirAll
<1> QED BY <1>1, DoneSound, MkdirAllLoopSound, DirsAssumption

-----------------------------------------------------------------------------
(***************************************************************************)
(* The steps.  All but Chmod leave directories what they are, and their    *)
(* permission bits.                                                        *)
(***************************************************************************)
DirsStay ==
    \A x \in Ents :
       /\ kind[x] = "dir" => kind'[x] = "dir" /\ mode'[x] = mode[x]
       /\ kind[x] = "file" => kind'[x] = "file"

LEMMA InDirsStay ==
    ASSUME DirsStay, NEW c \in Calls, InDirs(kind, c)
    PROVE  InDirs(kind', c)
<1>1. /\ c.at \in Ents /\ c.from \in Ents /\ c.link \in Ents \cup {Nil}
      /\ c.stack \in Seq(Frames)
  BY DEF Calls, Frames
<1>2. \A i \in DOMAIN c.stack : c.stack[i] \in Frames
  BY <1>1
<1>3. \A i \in DOMAIN c.stack : c.stack[i].dir \in Ents
  BY <1>2 DEF Frames
<1> QED BY <1>1, <1>3 DEF DirsStay, InDirs

\* A step of t after which its operation is d.
LEMMA SoundStep ==
    ASSUME PInv, IInv', NEW t \in Threads, NEW d, Sound(kind', mode', d),
           call' = [call EXCEPT ![t] = d], DirsStay
    PROVE  PInv'
<1>1. call \in [Threads -> Calls]
  BY DEF PInv, IInv, TypeOK
<1>2. kind'[Root] = "dir"
  BY DirsAssumption DEF PInv, DirsStay
<1>3. ASSUME NEW u \in Threads
      PROVE  Sound(kind', mode', call'[u])
  <2>1. CASE u = t
    BY <1>1, <2>1
  <2>2. CASE u # t
    <3>1. call'[u] = call[u] /\ Sound(kind, mode, call[u]) /\ call[u] \in Calls
      BY <1>1, <2>2 DEF PInv
    <3>2. InDirs(kind', call[u])
      BY <3>1, InDirsStay DEF Sound
    <3>3. call[u].at \in Ents /\ call[u].from \in Ents
      BY <3>1 DEF Calls
    <3> QED BY <3>1, <3>2, <3>3 DEF DirsStay, Sound, InDirs, Writable
  <2> QED BY <2>1, <2>2
<1> QED BY <1>2, <1>3 DEF PInv

\* One that leaves kinds and modes alone.
LEMMA SameStep ==
    ASSUME PInv, IInv', NEW t \in Threads, NEW d, Sound(kind, mode, d),
           call' = [call EXCEPT ![t] = d], UNCHANGED <<kind, mode>>
    PROVE  PInv'
  BY SoundStep DEF DirsStay

\* One that returns.
LEMMA DoneStep ==
    ASSUME PInv, IInv', NEW t \in Threads, NEW err, DirsStay,
           call' = [call EXCEPT ![t] = Done(err)]
    PROVE  PInv'
<1>1. kind'[Root] = "dir"
  BY DirsAssumption DEF PInv, DirsStay
<1> QED BY <1>1, DoneSound, SoundStep

LEMMA NewDirentStays ==
    ASSUME TreeTypeOK, NEW e \in Ents, NEW k, NEW n, NEW m,
           NewDirent(e, k, n, m)
    PROVE  DirsStay /\ kind'[e] = k
  BY DEF NewDirent, TreeTypeOK, DirsStay

-----------------------------------------------------------------------------
(***************************************************************************)
(* The calls.                                                              *)
(***************************************************************************)
\* An operation that begins has no directory but the root.
LEMMA BeginSound ==
    ASSUME NEW K, NEW M, NEW d \in Calls, K[Root] = "dir",
           d.at = Root, d.from = Root, d.link = Nil, d.stack = <<>>,
           NEW p \in Seq(Names), NEW next \in Targets \ {"renameNew"},
           next = "chmod" => MayChmod
    PROVE  Sound(K, M, FindParent(d, p, next))
<1>1. InDirs(K, d)
  BY DEF InDirs
<1> QED BY <1>1, FindParentSound

LEMMA NoCallFields ==
    /\ NoCall \in Calls /\ NoCall.at = Root /\ NoCall.from = Root
    /\ NoCall.link = Nil /\ NoCall.stack = <<>>
  BY NoCallType DEF NoCall

LEMMA CallPermitted ==
    ASSUME PInv, IInv', NEW t \in Threads, Call(t)
    PROVE  PInv'
<1> USE NoCallFields
<1>0. kind[Root] = "dir" /\ TreeTypeOK
  BY DEF PInv, IInv, TypeOK
<1>1. CASE CallChmod(t)
  <2>1. PICK p \in Paths, m \in Perms :
          call' = [call EXCEPT ![t] =
            FindParent([NoCall EXCEPT !.op = "Chmod", !.path = p, !.perm = m],
                       p, "chmod")]
    BY <1>1 DEF CallChmod
  <2> DEFINE d == [NoCall EXCEPT !.op = "Chmod", !.path = p, !.perm = m]
  <2>2. p \in Seq(Names) /\ m \in SUBSET Bits
    BY SynthAssumption, PathTypes DEF FlagType
  <2>3. /\ d \in Calls /\ d.at = Root /\ d.from = Root
        /\ d.link = Nil /\ d.stack = <<>>
    BY ZenonT(40), <2>2 DEF Calls, OpNames
  <2>4. call' = [call EXCEPT ![t] = FindParent(d, p, "chmod")]
    BY <2>1
  <2>5. UNCHANGED <<kind, mode>>
    BY <1>1 DEF CallChmod, treeVars
  <2> HIDE DEF d
  <2>6. Sound(kind, mode, FindParent(d, p, "chmod"))
    <3>1. MayChmod
      BY <1>1 DEF CallChmod, Begin, MayChmod
    <3> QED BY <1>0, <2>2, <2>3, <3>1, BeginSound DEF Targets
  <2> QED BY <2>4, <2>5, <2>6, SameStep
<1>2. CASE CallMkdir(t)
  <2>1. PICK p \in Paths, m \in Perms :
          call' = [call EXCEPT ![t] =
            FindParent([NoCall EXCEPT !.op = "Mkdir", !.path = p, !.perm = m],
                       Dir(p), "mkdir")]
    BY <1>2 DEF CallMkdir
  <2> DEFINE d == [NoCall EXCEPT !.op = "Mkdir", !.path = p, !.perm = m]
  <2>2. p \in Seq(Names) /\ m \in SUBSET Bits /\ Dir(p) \in Seq(Names)
    BY SynthAssumption, PathTypes DEF FlagType
  <2>3. /\ d \in Calls /\ d.at = Root /\ d.from = Root
        /\ d.link = Nil /\ d.stack = <<>>
    BY ZenonT(40), <2>2 DEF Calls, OpNames
  <2>4. call' = [call EXCEPT ![t] = FindParent(d, Dir(p), "mkdir")]
    BY <2>1
  <2>5. UNCHANGED <<kind, mode>>
    BY <1>2 DEF CallMkdir, treeVars
  <2> HIDE DEF d
  <2>6. Sound(kind, mode, FindParent(d, Dir(p), "mkdir"))
    BY <1>0, <2>2, <2>3, BeginSound DEF Targets
  <2> QED BY <2>4, <2>5, <2>6, SameStep
<1>3. CASE CallMkdirAll(t)
  <2>1. PICK p \in Paths, m \in Perms :
          call' = [call EXCEPT ![t] =
            MkdirAll([NoCall EXCEPT !.op = "MkdirAll", !.path = p, !.perm = m], p)]
    BY <1>3 DEF CallMkdirAll
  <2> DEFINE d == [NoCall EXCEPT !.op = "MkdirAll", !.path = p, !.perm = m]
  <2>2. p \in Seq(Names) /\ m \in SUBSET Bits
    BY SynthAssumption, PathTypes DEF FlagType
  <2>3. /\ d \in Calls /\ d.at = Root /\ d.from = Root
        /\ d.link = Nil /\ d.stack = <<>>
    BY ZenonT(40), <2>2 DEF Calls, OpNames
  <2>4. call' = [call EXCEPT ![t] = MkdirAll(d, p)]
    BY <2>1
  <2>5. UNCHANGED <<kind, mode>>
    BY <1>3 DEF CallMkdirAll, treeVars
  <2> HIDE DEF d
  <2>6. InDirs(kind, d)
    BY <1>0, <2>3 DEF InDirs
  <2>7. Sound(kind, mode, MkdirAll(d, p))
    BY <1>0, <2>2, <2>3, <2>6, MkdirAllSound
  <2> QED BY <2>4, <2>5, <2>7, SameStep
<1>4. CASE CallOpenFile(t)
  <2>1. PICK p \in Paths, fl \in Flags, m \in Perms :
          call' = [call EXCEPT ![t] =
            FindParent([NoCall EXCEPT !.op = "OpenFile", !.path = p,
                                      !.flag = fl, !.perm = m],
                       p, "open")]
    BY <1>4 DEF CallOpenFile
  <2> DEFINE d == [NoCall EXCEPT !.op = "OpenFile", !.path = p,
                                 !.flag = fl, !.perm = m]
  <2>2. p \in Seq(Names) /\ m \in SUBSET Bits /\ fl \in FlagType
    BY SynthAssumption, PathTypes DEF FlagType
  <2>3. /\ d \in Calls /\ d.at = Root /\ d.from = Root
        /\ d.link = Nil /\ d.stack = <<>>
    BY ZenonT(40), <2>2 DEF Calls, OpNames
  <2>4. call' = [call EXCEPT ![t] = FindParent(d, p, "open")]
    BY <2>1
  <2>5. UNCHANGED <<kind, mode>>
    BY <1>4 DEF CallOpenFile, treeVars
  <2> HIDE DEF d
  <2>6. Sound(kind, mode, FindParent(d, p, "open"))
    BY <1>0, <2>2, <2>3, BeginSound DEF Targets
  <2> QED BY <2>4, <2>5, <2>6, SameStep
<1>5. CASE CallRemove(t)
  <2>1. PICK p \in Paths :
          call' = [call EXCEPT ![t] =
            FindParent([NoCall EXCEPT !.op = "Remove", !.path = p], p, "remove")]
    BY <1>5 DEF CallRemove
  <2> DEFINE d == [NoCall EXCEPT !.op = "Remove", !.path = p]
  <2>2. p \in Seq(Names)
    BY SynthAssumption, PathTypes DEF FlagType
  <2>3. /\ d \in Calls /\ d.at = Root /\ d.from = Root
        /\ d.link = Nil /\ d.stack = <<>>
    BY ZenonT(40), <2>2 DEF Calls, OpNames
  <2>4. call' = [call EXCEPT ![t] = FindParent(d, p, "remove")]
    BY <2>1
  <2>5. UNCHANGED <<kind, mode>>
    BY <1>5 DEF CallRemove, treeVars
  <2> HIDE DEF d
  <2>6. Sound(kind, mode, FindParent(d, p, "remove"))
    BY <1>0, <2>2, <2>3, BeginSound DEF Targets
  <2> QED BY <2>4, <2>5, <2>6, SameStep
<1>6. CASE CallReallocate(t)
  <2>1. PICK p \in Paths :
          call' = [call EXCEPT ![t] =
            FindParent([NoCall EXCEPT !.op = "Reallocate", !.path = p,
                                      !.perm = Bits],
                       p, "reallocate")]
    BY <1>6 DEF CallReallocate
  <2> DEFINE d == [NoCall EXCEPT !.op = "Reallocate", !.path = p, !.perm = Bits]
  <2>2. p \in Seq(Names)
    BY SynthAssumption, PathTypes DEF FlagType
  <2>3. /\ d \in Calls /\ d.at = Root /\ d.from = Root
        /\ d.link = Nil /\ d.stack = <<>>
    BY ZenonT(40), <2>2 DEF Calls, OpNames
  <2>4. call' = [call EXCEPT ![t] = FindParent(d, p, "reallocate")]
    BY <2>1
  <2>5. UNCHANGED <<kind, mode>>
    BY <1>6 DEF CallReallocate, treeVars
  <2> HIDE DEF d
  <2>6. Sound(kind, mode, FindParent(d, p, "reallocate"))
    BY <1>0, <2>2, <2>3, BeginSound DEF Targets
  <2> QED BY <2>4, <2>5, <2>6, SameStep
<1>7. CASE CallRemoveAll(t)
  <2>1. PICK p \in Paths :
          call' = [call EXCEPT ![t] =
            IF p = <<>> THEN Done("EACCES")
            ELSE FindParent([NoCall EXCEPT !.op = "RemoveAll", !.path = p],
                            p, "remove")]
    BY <1>7 DEF CallRemoveAll
  <2> DEFINE d == [NoCall EXCEPT !.op = "RemoveAll", !.path = p]
             r == IF p = <<>> THEN Done("EACCES") ELSE FindParent(d, p, "remove")
  <2>2. p \in Seq(Names)
    BY SynthAssumption
  <2>3. /\ d \in Calls /\ d.at = Root /\ d.from = Root
        /\ d.link = Nil /\ d.stack = <<>>
    BY ZenonT(40), <2>2 DEF Calls, OpNames
  <2>4. call' = [call EXCEPT ![t] = r]
    BY <2>1
  <2>5. UNCHANGED <<kind, mode>>
    BY <1>7 DEF CallRemoveAll, treeVars
  <2> HIDE DEF d
  <2>6. Sound(kind, mode, FindParent(d, p, "remove"))
    BY <1>0, <2>2, <2>3, BeginSound DEF Targets
  <2>7. Sound(kind, mode, r)
    BY <1>0, <2>6, DoneSound
  <2> HIDE DEF r
  <2> QED BY <2>4, <2>5, <2>7, SameStep
<1>8. CASE CallRename(t)
  <2>1. PICK p \in Paths, q \in Paths :
          call' = [call EXCEPT ![t] =
            IF p = q THEN Done("ok")
            ELSE IF p = <<>> \/ q = <<>> THEN Done("EBUSY")
            ELSE IF IsPrefix(p, q) THEN Done("EINVAL")
            ELSE FindParent([NoCall EXCEPT !.op = "Rename", !.path = p, !.to = q],
                            p, "renameOld")]
    BY <1>8 DEF CallRename
  <2> DEFINE d == [NoCall EXCEPT !.op = "Rename", !.path = p, !.to = q]
             f == FindParent(d, p, "renameOld")
             r == IF p = q THEN Done("ok")
                  ELSE IF p = <<>> \/ q = <<>> THEN Done("EBUSY")
                  ELSE IF IsPrefix(p, q) THEN Done("EINVAL")
                  ELSE f
  <2>2. p \in Seq(Names) /\ q \in Seq(Names)
    BY SynthAssumption
  <2>3. /\ d \in Calls /\ d.at = Root /\ d.from = Root
        /\ d.link = Nil /\ d.stack = <<>>
    BY ZenonT(40), <2>2 DEF Calls, OpNames
  <2>4. call' = [call EXCEPT ![t] = r]
    BY <2>1
  <2>5. UNCHANGED <<kind, mode>>
    BY <1>8 DEF CallRename, treeVars
  <2> HIDE DEF d
  <2>6. Sound(kind, mode, f)
    BY <1>0, <2>2, <2>3, BeginSound DEF Targets
  <2> HIDE DEF f
  <2>7. r \in {Done("ok"), Done("EBUSY"), Done("EINVAL"), f}
    OBVIOUS
  <2> HIDE DEF r
  <2>8. Sound(kind, mode, r)
    BY <1>0, <2>6, <2>7, DoneSound
  <2> QED BY <2>4, <2>5, <2>8, SameStep
<1>9. CASE CallAddFile(t)
  <2>1. PICK p \in Paths :
        \/ /\ call' = [call EXCEPT ![t] = Done("EIO")]
           /\ UNCHANGED treeVars
        \/ /\ Room(Len(Dir(p)) + 1) /\ Free # {}
           /\ \E m \in Perms : NewDirent(Fresh, "file", Base(p), m)
           /\ call' = [call EXCEPT ![t] =
                MkdirAll([NoCall EXCEPT !.op = "AddFile", !.path = p,
                            !.perm = Bits, !.link = Fresh], Dir(p))]
    BY <1>9 DEF CallAddFile
  <2>2. CASE call' = [call EXCEPT ![t] = Done("EIO")] /\ UNCHANGED treeVars
    <3>1. DirsStay
      BY <2>2 DEF treeVars, DirsStay
    <3> QED BY <2>2, <3>1, DoneStep
  <2>3. CASE /\ Free # {}
             /\ \E m \in Perms : NewDirent(Fresh, "file", Base(p), m)
             /\ call' = [call EXCEPT ![t] =
                  MkdirAll([NoCall EXCEPT !.op = "AddFile", !.path = p,
                              !.perm = Bits, !.link = Fresh], Dir(p))]
    <3> DEFINE d == [NoCall EXCEPT !.op = "AddFile", !.path = p,
                              !.perm = Bits, !.link = Fresh]
               r == MkdirAll(d, Dir(p))
    <3>1. p \in Seq(Names) /\ Dir(p) \in Seq(Names)
      BY SynthAssumption, PathTypes
    <3>2. Fresh \in Ents /\ kind[Fresh] = "none"
      BY <2>3, FreshType
    <3>3. /\ d \in Calls /\ d.at = Root /\ d.from = Root
          /\ d.link = Fresh /\ d.stack = <<>>
      BY ZenonT(40), <3>1, <3>2 DEF Calls, OpNames
    <3>4. call' = [call EXCEPT ![t] = r]
      BY <2>3
    <3>5. PICK m \in Perms : NewDirent(Fresh, "file", Base(p), m)
      BY <2>3
    <3>6. DirsStay /\ kind'[Fresh] = "file"
      BY <1>0, <3>2, <3>5, NewDirentStays
    <3>7. kind'[Root] = "dir"
      BY <1>0, <3>6, DirsAssumption DEF DirsStay
    <3> HIDE DEF d
    <3>8. InDirs(kind', d)
      BY <3>3, <3>6, <3>7 DEF InDirs
    <3>9. Sound(kind', mode', r)
      BY <3>1, <3>3, <3>7, <3>8, MkdirAllSound
    <3> HIDE DEF r
    <3> QED BY <3>4, <3>6, <3>9, SoundStep
  <2> QED BY <2>1, <2>2, <2>3
<1> QED BY <1>1, <1>2, <1>3, <1>4, <1>5, <1>6, <1>7, <1>8, <1>9 DEF Call

-----------------------------------------------------------------------------
(***************************************************************************)
(* The steps of an operation.                                              *)
(***************************************************************************)
\* What each of them may rely on.
LEMMA StepFacts ==
    ASSUME PInv, NEW t \in Threads
    PROVE  /\ IInv /\ TreeTypeOK /\ kind[Root] = "dir"
           /\ call[t] \in Calls /\ call[t].at \in Ents
           /\ call[t].base \in EntNames
           /\ Sound(kind, mode, call[t]) /\ InDirs(kind, call[t])
  BY CallFacts DEF PInv, Sound

\* An operation that goes on where it is, past its checks.
LEMMA GoesOnSound ==
    ASSUME NEW K, NEW M, NEW c \in Calls, NEW d, InDirs(K, c),
           d.at = c.at, d.from = c.from, d.stack = c.stack,
           d.link = c.link \/ (d.link \in Ents /\ K[d.link] = "file"),
           d.pc \in Checked => Writable(M, c.at),
           Goal(d) \in {"renameNew", "renameUnlink"} => Writable(M, c.from),
           Goal(d) # "chmod"
    PROVE  Sound(K, M, d)
  BY DEF Sound, InDirs

LEMMA WalkPermitted ==
    ASSUME PInv, IInv', NEW t \in Threads, Walk(t)
    PROVE  PInv'
<1> USE StepFacts
<1> DEFINE c == call[t]
           child == Lookup(c.at, Head(c.rest))
           w == [c EXCEPT !.at = child, !.rest = Tail(c.rest)]
           r == IF SearchErr(child) # "ok" THEN Return(c, SearchErr(child))
                ELSE Arrive(w)
<1>1. /\ call' = [call EXCEPT ![t] = r] /\ UNCHANGED <<kind, mode>>
      /\ c.pc = "walk"
  BY DEF Walk, treeVars
<1>2. c.rest # <<>> /\ Head(c.rest) \in EntNames /\ Tail(c.rest) \in Seq(Names)
      /\ c.next \in Targets
  <2>1. Len(c.rest) > 1 /\ c.next \in Targets /\ c.rest \in Seq(Names)
    BY <1>1, CallFacts DEF Ready
  <2> QED BY <2>1 DEF EntNames
<1>3. CASE SearchErr(child) # "ok"
  BY <1>1, <1>3, ReturnSound, SameStep
<1>4. CASE SearchErr(child) = "ok"
  <2>1. child # Nil /\ kind[child] = "dir"
    BY <1>4 DEF SearchErr
  <2>2. child \in Ents
    BY <1>2, <2>1 DEF TreeTypeOK, Lookup
  <2>3. /\ w \in Calls /\ w.next = c.next /\ w.at = child
        /\ w.from = c.from /\ w.link = c.link /\ w.stack = c.stack
    BY ZenonT(40), <2>2, <1>2 DEF Calls
  <2>4. /\ c.next = "renameNew" => Writable(mode, c.from)
        /\ c.next = "chmod" => MayChmod
    BY <1>1 DEF Sound, Goal
  <2> HIDE DEF w
  <2>5. InDirs(kind, w)
    BY <2>1, <2>3 DEF InDirs
  <2>6. Sound(kind, mode, Arrive(w))
    BY <1>2, <2>3, <2>4, <2>5, ArriveSound
  <2> QED BY <1>1, <1>4, <2>6, SameStep
<1> QED BY <1>3, <1>4

\* The one step that takes permissions away.  Nobody else can rely on them
\* when chmod runs alone.
LEMMA ChmodPermitted ==
    ASSUME PInv, IInv', NEW t \in Threads, Chmod(t)
    PROVE  PInv'
<1> USE StepFacts
<1>1. PICK err : call' = [call EXCEPT ![t] = Done(err)]
  BY DEF Chmod
<1>2. /\ kind' = kind /\ call'[t] = Done(err)
      /\ \A u \in Threads : u # t => call'[u] = call[u]
  BY <1>1 DEF Chmod, IInv, TypeOK
<1>3. ChmodAlone => \A u \in Threads : u = t
  BY DEF Chmod, Sound, Goal, ChmodAlone
<1>4. ASSUME NEW u \in Threads PROVE Sound(kind', mode', call'[u])
  <2>1. CASE u = t
    BY <1>2, <2>1, DoneSound
  <2>2. CASE u # t
    <3>1. Sound(kind, mode, call[u]) /\ ~ChmodAlone
      BY <1>3, <2>2
    <3> QED BY <1>2, <2>2, <3>1 DEF Sound, Writable
  <2> QED BY <2>1, <2>2
<1> QED BY <1>2, <1>4 DEF PInv

LEMMA MkdirPermitted ==
    ASSUME PInv, IInv', NEW t \in Threads, MkdirCheck(t) \/ MkdirAdd(t)
    PROVE  PInv'
<1> USE StepFacts
<1> DEFINE c == call[t]
<1>1. CASE MkdirCheck(t)
  <2> DEFINE parent == Found(c)
             add == [c EXCEPT !.pc = "mkdirAdd", !.at = parent]
             r == IF MkdirErr(c, parent) # "ok" THEN Done(MkdirErr(c, parent))
                  ELSE add
  <2>1. call' = [call EXCEPT ![t] = r] /\ UNCHANGED <<kind, mode>>
    BY <1>1 DEF MkdirCheck, treeVars
  <2>2. CASE MkdirErr(c, parent) # "ok"
    BY <2>1, <2>2, DoneSound, SameStep
  <2>3. CASE MkdirErr(c, parent) = "ok"
    <3>1. parent # Nil /\ kind[parent] = "dir" /\ Writable(mode, parent)
      BY <2>3 DEF MkdirErr, HasPerm, Writable
    <3>2. /\ add.pc = "mkdirAdd" /\ add.at = parent /\ add.from = c.from
          /\ add.link = c.link /\ add.stack = c.stack
      BY DEF Calls
    <3>3. call' = [call EXCEPT ![t] = add]
      BY <2>1, <2>3
    <3> HIDE DEF add, parent
    <3>4. Sound(kind, mode, add)
      BY <3>1, <3>2 DEF Sound, InDirs, Goal
    <3> QED BY <2>1, <3>3, <3>4, SameStep
  <2> QED BY <2>2, <2>3
<1>2. CASE MkdirAdd(t)
  <2>1. /\ Fresh \in Ents /\ NewDirent(Fresh, "dir", Base(c.path), c.perm \ Umask)
        /\ call' = [call EXCEPT ![t] = Done("ok")]
    BY <1>2, FreshType DEF MkdirAdd
  <2>2. DirsStay
    BY <2>1, NewDirentStays
  <2> QED BY <2>1, <2>2, DoneStep
<1> QED BY <1>1, <1>2

LEMMA MkdirAllPermitted ==
    ASSUME PInv, IInv', NEW t \in Threads, MkdirAllLookup(t) \/ MkdirAllAdd(t)
    PROVE  PInv'
<1> USE StepFacts
<1> DEFINE c == call[t]
<1>1. c.rest # <<>> /\ Head(c.rest) \in EntNames /\ Tail(c.rest) \in Seq(Names)
  <2>1. c.rest # <<>> /\ c.rest \in Seq(Names)
    BY CallFacts DEF MkdirAllLookup, MkdirAllAdd, Ready
  <2> QED BY <2>1 DEF EntNames
<1>2. CASE MkdirAllLookup(t)
  <2> DEFINE child == Lookup(c.at, Head(c.rest))
             add == [c EXCEPT !.pc = "mkdirAllAdd"]
             r == IF child = Nil THEN add
                  ELSE IF SearchErr(child) # "ok" THEN Done(SearchErr(child))
                  ELSE MkdirAllLoop(c, child, Tail(c.rest))
  <2>1. call' = [call EXCEPT ![t] = r] /\ UNCHANGED <<kind, mode>>
    BY <1>2 DEF MkdirAllLookup, treeVars
  <2>2. Sound(kind, mode, add)
    <3>1. /\ add.pc = "mkdirAllAdd" /\ add.at = c.at /\ add.from = c.from
          /\ add.link = c.link /\ add.stack = c.stack
      BY DEF Calls
    <3> HIDE DEF add
    <3> QED BY <3>1 DEF Sound, InDirs, Goal, Checked
  <2>3. ASSUME child # Nil, SearchErr(child) = "ok"
        PROVE  Sound(kind, mode, MkdirAllLoop(c, child, Tail(c.rest)))
    <3>1. kind[child] = "dir"
      BY <2>3 DEF SearchErr
    <3>2. child \in Ents \cup {Nil}
      BY <1>1 DEF TreeTypeOK, Lookup
    <3> QED BY <1>1, <2>3, <3>1, <3>2, MkdirAllLoopSound
  <2>4. Sound(kind, mode, r)
    BY <2>2, <2>3, DoneSound
  <2> HIDE DEF r
  <2> QED BY <2>1, <2>4, SameStep
<1>3. CASE MkdirAllAdd(t)
  <2> DEFINE loop == MkdirAllLoop(c, Fresh, Tail(c.rest))
             r == IF "x" \notin c.perm \ Umask THEN Done("EACCES") ELSE loop
  <2>1. /\ Fresh \in Ents /\ NewDirent(Fresh, "dir", Head(c.rest), c.perm \ Umask)
        /\ call' = [call EXCEPT ![t] = r]
    BY <1>3, FreshType DEF MkdirAllAdd
  <2>2. kind[Fresh] = "none"
    BY <2>1 DEF NewDirent
  <2>3. DirsStay /\ kind'[Fresh] = "dir"
    BY <2>1, NewDirentStays
  <2>4. kind'[Root] = "dir" /\ InDirs(kind', c)
    BY <2>3, InDirsStay, DirsAssumption DEF DirsStay
  <2>5. Sound(kind', mode', loop)
    BY <1>1, <2>1, <2>3, <2>4, MkdirAllLoopSound
  <2> HIDE DEF loop
  <2>6. Sound(kind', mode', r)
    BY <2>4, <2>5, DoneSound
  <2> HIDE DEF r
  <2> QED BY <2>1, <2>3, <2>6, SoundStep
<1> QED BY <1>2, <1>3

LEMMA OpenPermitted ==
    ASSUME PInv, IInv', NEW t \in Threads,
           OpenExisting(t) \/ OpenCreate(t) \/ OpenLink(t)
    PROVE  PInv'
<1> USE StepFacts
<1> DEFINE c == call[t]
           r == [c EXCEPT !.pc = "openLink", !.link = Fresh]
<1>1. \/ /\ \E err : call' = [call EXCEPT ![t] = Done(err)]
         /\ UNCHANGED <<kind, mode>>
      \/ /\ CreateErr(c) = "ok" /\ Free # {}
         /\ NewDirent(Fresh, "file", c.base, c.perm)
         /\ call' = [call EXCEPT ![t] = r]
  BY DEF OpenExisting, OpenCreate, OpenLink, treeVars
<1>2. CASE /\ \E err : call' = [call EXCEPT ![t] = Done(err)]
           /\ UNCHANGED <<kind, mode>>
  <2>1. DirsStay
    BY <1>2 DEF DirsStay
  <2> QED BY <1>2, <2>1, DoneStep
<1>3. CASE /\ CreateErr(c) = "ok" /\ Free # {}
           /\ NewDirent(Fresh, "file", c.base, c.perm)
           /\ call' = [call EXCEPT ![t] = r]
  <2>1. Fresh \in Ents /\ DirsStay /\ kind'[Fresh] = "file"
    BY <1>3, FreshType, NewDirentStays
  <2>2. Writable(mode, c.at) /\ mode'[c.at] = mode[c.at]
    BY <1>3, <2>1 DEF CreateErr, HasPerm, Writable, InDirs, DirsStay
  <2>3. InDirs(kind', c)
    BY <2>1, InDirsStay
  <2>4. /\ r.pc = "openLink" /\ r.link = Fresh /\ r.at = c.at
        /\ r.from = c.from /\ r.stack = c.stack
    BY DEF Calls
  <2> HIDE DEF r
  <2>5. Goal(r) = "openLink"
    BY <2>4 DEF Goal
  <2>6. Sound(kind', mode', r)
    BY <2>1, <2>2, <2>3, <2>4, <2>5 DEF Sound, InDirs, Writable
  <2> QED BY <1>3, <2>1, <2>6, SoundStep
<1> QED BY <1>1, <1>2, <1>3

LEMMA RemovePermitted ==
    ASSUME PInv, IInv', NEW t \in Threads,
           RemoveCheck(t) \/ RemoveClose(t) \/ RemoveUnlink(t)
    PROVE  PInv'
<1> USE StepFacts
<1> DEFINE c == call[t]
<1>1. UNCHANGED <<kind, mode>>
  BY DEF RemoveCheck, RemoveClose, RemoveUnlink, treeVars
<1>2. CASE RemoveCheck(t)
  <2> DEFINE close == [c EXCEPT !.pc = "removeClose",
                                !.ent = Lookup(c.at, c.base)]
  <2>1. \/ call' = [call EXCEPT ![t] = AfterRemove(c, RemoveErr(c))]
        \/ RemoveErr(c) = "ok" /\ call' = [call EXCEPT ![t] = close]
    BY <1>2 DEF RemoveCheck
  <2>2. CASE call' = [call EXCEPT ![t] = AfterRemove(c, RemoveErr(c))]
    BY <1>1, <2>2, AfterRemoveSound, SameStep
  <2>3. CASE RemoveErr(c) = "ok" /\ call' = [call EXCEPT ![t] = close]
    <3>1. Writable(mode, c.at)
      BY <2>3 DEF RemoveErr, HasPerm, Writable
    <3>2. /\ close.pc = "removeClose" /\ close.at = c.at /\ close.from = c.from
          /\ close.link = c.link /\ close.stack = c.stack
      BY DEF Calls
    <3> HIDE DEF close
    <3>3. Goal(close) = "removeClose"
      BY <3>2 DEF Goal
    <3>4. Sound(kind, mode, close)
      BY <3>1, <3>2, <3>3, GoesOnSound
    <3> QED BY <1>1, <2>3, <3>4, SameStep
  <2> QED BY <2>1, <2>2, <2>3
<1>3. CASE RemoveClose(t)
  <2>1. PICK err : call' = [call EXCEPT ![t] =
                              [c EXCEPT !.pc = "removeUnlink", !.err = err]]
    BY <1>3 DEF RemoveClose
  <2> DEFINE r == [c EXCEPT !.pc = "removeUnlink", !.err = err]
  <2>2. Writable(mode, c.at)
    BY <1>3 DEF RemoveClose, Sound, Checked
  <2>3. /\ r.pc = "removeUnlink" /\ r.at = c.at /\ r.from = c.from
        /\ r.link = c.link /\ r.stack = c.stack
    BY DEF Calls
  <2>4. call' = [call EXCEPT ![t] = r]
    BY <2>1
  <2> HIDE DEF r
  <2>5. Goal(r) = "removeUnlink"
    BY <2>3 DEF Goal
  <2>6. Sound(kind, mode, r)
    BY <2>2, <2>3, <2>5, GoesOnSound
  <2> QED BY <1>1, <2>4, <2>6, SameStep
<1>4. CASE RemoveUnlink(t)
  <2> DEFINE c0 == [c EXCEPT !.err = "ok"]
  <2>1. call' = [call EXCEPT ![t] = AfterRemove(c0, c.err)]
    BY <1>4 DEF RemoveUnlink
  <2>2. /\ c0 \in Calls /\ c0.at = c.at /\ c0.from = c.from
        /\ c0.link = c.link /\ c0.stack = c.stack
    BY ZenonT(40) DEF Calls, Errors
  <2> HIDE DEF c0
  <2>3. Sound(kind, mode, AfterRemove(c0, c.err))
    BY <2>2, AfterRemoveSound DEF InDirs
  <2> QED BY <1>1, <2>1, <2>3, SameStep
<1> QED BY <1>2, <1>3, <1>4

LEMMA RemoveAllPermitted ==
    ASSUME PInv, IInv', NEW t \in Threads,
           RemoveAllAgain(t) \/ RemoveAllList(t) \/ RemoveAllNext(t)
    PROVE  PInv'
<1> USE StepFacts
<1> DEFINE c == call[t]
<1>1. UNCHANGED <<kind, mode>>
  BY DEF RemoveAllAgain, RemoveAllList, RemoveAllNext, treeVars
<1>2. CASE RemoveAllAgain(t)
  <2> DEFINE w == [c EXCEPT !.op = "removeAllFrom"]
  <2>1. call' = [call EXCEPT ![t] = FindParent(w, c.path, "remove")]
    BY <1>2 DEF RemoveAllAgain
  <2>2. /\ w \in Calls /\ w.at = c.at /\ w.from = c.from
        /\ w.link = c.link /\ w.stack = c.stack /\ c.path \in Seq(Names)
    BY ZenonT(40) DEF Calls
  <2> HIDE DEF w
  <2>3. InDirs(kind, w)
    BY <2>2 DEF InDirs
  <2>4. "remove" \in Targets /\ "remove" \notin {"renameNew", "chmod"}
    BY DEF Targets
  <2>5. Sound(kind, mode, FindParent(w, c.path, "remove"))
    BY <2>2, <2>3, <2>4, FindParentSound
  <2> QED BY <1>1, <2>1, <2>5, SameStep
<1>3. c.stack \in Seq(Frames)
  BY DEF Calls, Frames
<1>4. CASE RemoveAllList(t)
  <2> DEFINE d == Lookup(c.at, c.base)
             frame == [dir |-> d, names |-> ListName(d)]
             next == [c EXCEPT !.pc = "next", !.ent = Nil,
                               !.stack = Append(c.stack, frame)]
  <2>1. CASE d = Nil \/ (d # Nil /\ kind[d] = "file")
    <3>1. call' = [call EXCEPT ![t] = Done("panic")]
      BY <1>4, <2>1 DEF RemoveAllList
    <3> QED BY <1>1, <3>1, DoneSound, SameStep
  <2>2. CASE ~(d = Nil \/ (d # Nil /\ kind[d] = "file"))
    <3>1. d \in Ents /\ kind[d] # "none"
      BY <2>2, LookupAllocated DEF IInv
    <3>2. kind[d] = "dir"
      BY <2>2, <3>1 DEF TreeTypeOK
    <3>3. call' = [call EXCEPT ![t] = next]
      BY <1>4, <2>2 DEF RemoveAllList
    <3>4. frame \in Frames /\ frame.dir = d
      BY <3>1, ListNameType DEF Frames
    <3>5. /\ next.pc = "next" /\ next.at = c.at /\ next.from = c.from
          /\ next.link = c.link /\ next.stack = Append(c.stack, frame)
      BY DEF Calls
    <3> HIDE DEF next, frame, d
    <3>6. \A i \in DOMAIN next.stack : kind[next.stack[i].dir] = "dir"
      <4>1. /\ \A i \in 1 .. Len(c.stack) :
                 Append(c.stack, frame)[i] = c.stack[i]
            /\ Append(c.stack, frame)[Len(c.stack) + 1] = frame
            /\ DOMAIN Append(c.stack, frame) = 1 .. Len(c.stack) + 1
            /\ DOMAIN c.stack = 1 .. Len(c.stack) /\ Len(c.stack) \in Nat
        BY <1>3, <3>4
      <4> QED BY <3>2, <3>4, <3>5, <4>1 DEF InDirs
    <3>7. Sound(kind, mode, next)
      BY <3>5, <3>6 DEF Sound, InDirs, Goal, Checked
    <3> QED BY <1>1, <3>3, <3>7, SameStep
  <2> QED BY <2>1, <2>2
<1>5. CASE RemoveAllNext(t)
  <2> DEFINE top == Last(c.stack)
             pop == [c EXCEPT !.stack = Front(c.stack)]
             frame == [top EXCEPT !.names = Tail(@)]
             stack == Append(Front(c.stack), frame)
             remove == [c EXCEPT !.pc = "remove", !.at = top.dir,
                                 !.base = Head(top.names), !.stack = stack]
  <2>1. c.pc = "next"
    BY <1>5 DEF RemoveAllNext
  <2>2. CASE c.stack = <<>>
    <3>1. call' = [call EXCEPT ![t] = Done("ok")]
      BY <1>5, <2>2 DEF RemoveAllNext
    <3> QED BY <1>1, <3>1, DoneSound, SameStep
  <2>3. CASE c.stack # <<>>
    <3>1. /\ Len(c.stack) \in 1 .. Len(c.stack)
          /\ Len(c.stack) - 1 \in 0 .. Len(c.stack)
          /\ DOMAIN c.stack = 1 .. Len(c.stack)
      BY <1>3, <2>3
    <3>2. /\ Front(c.stack) \in Seq(Frames)
          /\ Len(Front(c.stack)) = Len(c.stack) - 1
          /\ DOMAIN Front(c.stack) = 1 .. Len(c.stack) - 1
          /\ \A i \in 1 .. Len(c.stack) - 1 : Front(c.stack)[i] = c.stack[i]
      BY <1>3, <3>1 DEF Front
    <3>3. top \in Frames /\ kind[top.dir] = "dir"
      BY <1>3, <3>1 DEF Last, InDirs
    <3>4. CASE top.names = <<>>
      <4>1. call' = [call EXCEPT ![t] = pop]
        BY <1>5, <2>3, <3>4 DEF RemoveAllNext
      <4>2. /\ pop.pc = "next" /\ pop.at = c.at /\ pop.from = c.from
            /\ pop.link = c.link /\ pop.stack = Front(c.stack)
        BY <2>1 DEF Calls
      <4> HIDE DEF pop
      <4>3. \A i \in DOMAIN pop.stack : kind[pop.stack[i].dir] = "dir"
        BY <3>1, <3>2, <4>2 DEF InDirs
      <4>4. Sound(kind, mode, pop)
        BY <4>2, <4>3 DEF Sound, InDirs, Goal, Checked
      <4> QED BY <1>1, <4>1, <4>4, SameStep
    <3>5. CASE top.names # <<>>
      <4>1. call' = [call EXCEPT ![t] = remove]
        BY <1>5, <2>3, <3>5 DEF RemoveAllNext
      <4>2. frame \in Frames /\ frame.dir = top.dir
        <5>1. Tail(top.names) \in Seq(EntNames)
          BY <3>3, <3>5 DEF Frames
        <5> QED BY <3>3, <5>1 DEF Frames
      <4>3. /\ remove.pc = "remove" /\ remove.at = top.dir
            /\ remove.from = c.from /\ remove.link = c.link
            /\ remove.stack = stack
        BY DEF Calls
      <4> HIDE DEF remove, frame, top
      <4>4. \A i \in DOMAIN remove.stack : kind[remove.stack[i].dir] = "dir"
        <5>1. /\ \A i \in 1 .. Len(c.stack) - 1 : stack[i] = Front(c.stack)[i]
              /\ stack[Len(c.stack)] = frame
              /\ DOMAIN stack = 1 .. Len(c.stack)
          BY <3>1, <3>2, <4>2
        <5> QED BY <3>1, <3>2, <3>3, <4>2, <4>3, <5>1 DEF InDirs
      <4> HIDE DEF stack
      <4>5. Sound(kind, mode, remove)
        BY <3>3, <4>3, <4>4 DEF Sound, InDirs, Goal, Checked
      <4> QED BY <1>1, <4>1, <4>5, SameStep
    <3> QED BY <3>4, <3>5
  <2> QED BY <2>2, <2>3
<1> QED BY <1>2, <1>4, <1>5

LEMMA RenamePermitted ==
    ASSUME PInv, IInv', NEW t \in Threads,
           RenameOld(t) \/ RenameNew(t) \/ RenameUnlink(t) \/ RenameLink(t)
    PROVE  PInv'
<1> USE StepFacts
<1> DEFINE c == call[t]
<1>1. UNCHANGED <<kind, mode>>
  BY DEF RenameOld, RenameNew, RenameUnlink, RenameLink, treeVars
<1>2. CASE \E err : call' = [call EXCEPT ![t] = Done(err)]
  <2>1. DirsStay
    BY <1>1 DEF DirsStay
  <2> QED BY <1>2, <2>1, DoneStep
<1>3. CASE RenameOld(t) /\ ~\E err : call' = [call EXCEPT ![t] = Done(err)]
  <2> DEFINE target == Lookup(c.at, c.base)
             w == [c EXCEPT !.old = target, !.from = c.at]
  <2>1. /\ HasPerm(c.at, {"w"})
        /\ call' = [call EXCEPT ![t] = FindParent(w, c.to, "renameNew")]
    BY <1>3 DEF RenameOld
  <2>2. target \in Ents \cup {Nil} /\ c.to \in Seq(Names)
    BY DEF TreeTypeOK, Lookup, Calls
  <2>3. /\ w \in Calls /\ w.at = c.at /\ w.from = c.at
        /\ w.link = c.link /\ w.stack = c.stack
    BY ZenonT(40), <2>2 DEF Calls
  <2> HIDE DEF w
  <2>4. InDirs(kind, w) /\ Writable(mode, w.from)
    BY <2>1, <2>3 DEF InDirs, HasPerm, Writable
  <2>5. Sound(kind, mode, FindParent(w, c.to, "renameNew"))
    BY <2>2, <2>3, <2>4, FindParentSound DEF Targets
  <2> QED BY <1>1, <2>1, <2>5, SameStep
<1>4. CASE RenameNew(t) /\ ~\E err : call' = [call EXCEPT ![t] = Done(err)]
  <2> DEFINE r == [c EXCEPT !.pc = "renameUnlink"]
  <2>1. call' = [call EXCEPT ![t] = r] /\ HasPerm(c.at, {"w"})
        /\ c.pc = "renameNew"
    BY <1>4 DEF RenameNew
  <2>2. Writable(mode, c.at) /\ Writable(mode, c.from)
    BY <2>1 DEF HasPerm, Writable, Sound, Goal
  <2>3. /\ r.pc = "renameUnlink" /\ r.at = c.at /\ r.from = c.from
        /\ r.link = c.link /\ r.stack = c.stack
    BY DEF Calls
  <2> HIDE DEF r
  <2>4. Goal(r) = "renameUnlink"
    BY <2>3 DEF Goal
  <2>5. Sound(kind, mode, r)
    BY <2>2, <2>3, <2>4, GoesOnSound
  <2> QED BY <1>1, <2>1, <2>5, SameStep
<1>5. CASE RenameUnlink(t)
  <2> DEFINE r == [c EXCEPT !.pc = "renameLink"]
  <2>1. call' = [call EXCEPT ![t] = r] /\ Writable(mode, c.at)
    BY <1>5 DEF RenameUnlink, Sound, Checked
  <2>2. /\ r.pc = "renameLink" /\ r.at = c.at /\ r.from = c.from
        /\ r.link = c.link /\ r.stack = c.stack
    BY DEF Calls
  <2> HIDE DEF r
  <2>3. Goal(r) = "renameLink"
    BY <2>2 DEF Goal
  <2>4. Sound(kind, mode, r)
    BY <2>1, <2>2, <2>3, GoesOnSound
  <2> QED BY <1>1, <2>1, <2>4, SameStep
<1>6. CASE RenameLink(t)
  BY <1>2, <1>6 DEF RenameLink
<1> QED BY <1>2, <1>3, <1>4, <1>5, <1>6

LEMMA AddPermitted ==
    ASSUME PInv, IInv', NEW t \in Threads,
           ReallocCopy(t) \/ AddLookup(t) \/ AddClose(t) \/ AddLink(t)
             \/ ReallocMeta(t)
    PROVE  PInv'
<1> USE StepFacts
<1> DEFINE c == call[t]
<1>1. CASE ReallocCopy(t)
  <2> DEFINE e == Found(c)
             d == [c EXCEPT !.link = Fresh, !.old = e]
             r == MkdirAll(d, Dir(c.path))
  <2>1. CASE /\ \E err : call' = [call EXCEPT ![t] = Done(err)]
             /\ UNCHANGED treeVars
    <3>1. DirsStay
      BY <2>1 DEF treeVars, DirsStay
    <3> QED BY <2>1, <3>1, DoneStep
  <2>2. CASE /\ Free # {} /\ NewDirent(Fresh, "file", Base(c.path), Bits)
             /\ call' = [call EXCEPT ![t] = r]
    <3>1. /\ Fresh \in Ents /\ DirsStay /\ kind'[Fresh] = "file"
          /\ Dir(c.path) \in Seq(Names) /\ e \in Ents \cup {Nil}
      BY <2>2, FreshType, NewDirentStays, PathTypes, FoundType DEF Calls
    <3>2. /\ d \in Calls /\ d.at = c.at /\ d.from = c.from
          /\ d.link = Fresh /\ d.stack = c.stack
      BY ZenonT(40), <3>1 DEF Calls
    <3>3. kind'[Root] = "dir" /\ InDirs(kind', c)
      BY <3>1, InDirsStay, DirsAssumption DEF DirsStay
    <3> HIDE DEF d
    <3>4. InDirs(kind', d)
      BY <3>1, <3>2, <3>3 DEF InDirs
    <3>5. Sound(kind', mode', r)
      BY <3>1, <3>2, <3>3, <3>4, MkdirAllSound
    <3> HIDE DEF r
    <3> QED BY <2>2, <3>1, <3>5, SoundStep
  <2> QED BY <1>1, <2>1, <2>2 DEF ReallocCopy
<1>2. CASE AddLookup(t)
  <2> DEFINE parent == Found(c)
             ent == Lookup(parent, Base(c.path))
             link == [c EXCEPT !.pc = "addLink", !.at = parent]
             close == [c EXCEPT !.pc = "addClose", !.at = parent, !.ent = ent]
  <2>1. UNCHANGED <<kind, mode>>
    BY <1>2 DEF AddLookup, treeVars
  <2>2. CASE WritableErr(parent) # "ok"
    <3>1. call' = [call EXCEPT ![t] = Done(WritableErr(parent))]
      BY <1>2, <2>2 DEF AddLookup
    <3> QED BY <2>1, <3>1, DoneSound, SameStep
  <2>3. CASE WritableErr(parent) = "ok"
    <3>1. kind[parent] = "dir" /\ Writable(mode, parent)
      BY <2>3 DEF WritableErr, SearchErr, HasPerm, Writable
    <3>2. \/ call' = [call EXCEPT ![t] = link]
          \/ call' = [call EXCEPT ![t] = close]
      BY <1>2, <2>3 DEF AddLookup
    <3>3. /\ link.pc = "addLink" /\ link.at = parent /\ link.from = c.from
          /\ link.link = c.link /\ link.stack = c.stack
          /\ close.pc = "addClose" /\ close.at = parent
          /\ close.from = c.from
          /\ close.link = c.link /\ close.stack = c.stack
      BY DEF Calls
    <3> HIDE DEF link, close, parent, ent
    <3>4. Goal(link) = "addLink" /\ Goal(close) = "addClose"
      BY <3>3 DEF Goal
    <3>5. Sound(kind, mode, link) /\ Sound(kind, mode, close)
      BY <3>1, <3>3, <3>4 DEF Sound, InDirs
    <3> QED BY <2>1, <3>2, <3>5, SameStep
  <2> QED BY <2>2, <2>3
<1>3. CASE AddClose(t)
  <2> DEFINE r == [c EXCEPT !.pc = "addLink", !.ent = Nil]
  <2>1. /\ call' = [call EXCEPT ![t] = r] /\ UNCHANGED <<kind, mode>>
        /\ Writable(mode, c.at)
    BY <1>3 DEF AddClose, Sound, Checked
  <2>2. /\ r.pc = "addLink" /\ r.at = c.at /\ r.from = c.from
        /\ r.link = c.link /\ r.stack = c.stack
    BY DEF Calls
  <2> HIDE DEF r
  <2>3. Goal(r) = "addLink"
    BY <2>2 DEF Goal
  <2>4. Sound(kind, mode, r)
    BY <2>1, <2>2, <2>3, GoesOnSound
  <2> QED BY <2>1, <2>4, SameStep
<1>4. CASE AddLink(t)
  <2> DEFINE r == [c EXCEPT !.pc = "meta"]
  <2>1. UNCHANGED <<kind, mode>>
    BY <1>4 DEF AddLink
  <2>2. /\ r.pc = "meta" /\ r.at = c.at /\ r.from = c.from
        /\ r.link = c.link /\ r.stack = c.stack
    BY DEF Calls
  <2>3. call' = [call EXCEPT ![t] = Done("ok")] \/ call' = [call EXCEPT ![t] = r]
    BY <1>4 DEF AddLink
  <2> HIDE DEF r
  <2>4. Goal(r) = "meta" /\ r.pc \notin Checked
    BY <2>2 DEF Goal, Checked
  <2>5. Sound(kind, mode, r)
    BY <2>2, <2>4, GoesOnSound
  <2> QED BY <2>1, <2>3, <2>5, DoneSound, SameStep
<1>5. CASE ReallocMeta(t)
  <2>1. c.link # Nil /\ c.link \in Ents
    BY <1>5, CallFacts DEF ReallocMeta, Ready, Goal, Calls
  <2>2. kind[c.link] = "file"
    BY <2>1 DEF InDirs
  <2>3. DirsStay
    BY <1>5, <2>1, <2>2 DEF ReallocMeta, TreeTypeOK, DirsStay
  <2>4. \E err : call' = [call EXCEPT ![t] = Done(err)]
    BY <1>5 DEF ReallocMeta
  <2> QED BY <2>3, <2>4, DoneStep
<1> QED BY <1>1, <1>2, <1>3, <1>4, <1>5

-----------------------------------------------------------------------------
(***************************************************************************)
(* The invariant is inductive, and what it says of the directories that    *)
(* the steps change.                                                       *)
(***************************************************************************)
LEMMA InitPermitted == Init => PInv
<1> SUFFICES ASSUME Init PROVE PInv
  OBVIOUS
<1>1. IInv
  BY InitInv
<1>2. kind[Root] = "dir"
  BY DirsAssumption DEF Init, TreeInit
<1>3. ASSUME NEW t \in Threads PROVE Sound(kind, mode, call[t])
  <2>1. call[t] = NoCall /\ NoCall.pc = "idle"
    BY NoCallType DEF Init
  <2> QED BY <1>2, <2>1, NoCallFields DEF Sound, InDirs, Checked, Goal
<1> QED BY <1>1, <1>2, <1>3 DEF PInv

LEMMA NextPermitted == PInv /\ [Next]_vars => PInv'
<1> SUFFICES ASSUME PInv, [Next]_vars PROVE PInv'
  OBVIOUS
<1>0. IInv'
  BY NextInv DEF PInv
<1>1. ASSUME NEW t \in Threads, Call(t) PROVE PInv'
  BY <1>0, <1>1, CallPermitted
<1>2. ASSUME NEW t \in Threads, Step(t) PROVE PInv'
  <2>1. CASE Walk(t) \/ Chmod(t) \/ MkdirCheck(t) \/ MkdirAdd(t)
             \/ MkdirAllLookup(t) \/ MkdirAllAdd(t)
    BY <1>0, <2>1, WalkPermitted, ChmodPermitted, MkdirPermitted,
       MkdirAllPermitted
  <2>2. CASE OpenExisting(t) \/ OpenCreate(t) \/ OpenLink(t)
    BY <1>0, <2>2, OpenPermitted
  <2>3. CASE RemoveCheck(t) \/ RemoveClose(t) \/ RemoveUnlink(t)
    BY <1>0, <2>3, RemovePermitted
  <2>4. CASE RemoveAllAgain(t) \/ RemoveAllList(t) \/ RemoveAllNext(t)
    BY <1>0, <2>4, RemoveAllPermitted
  <2>5. CASE RenameOld(t) \/ RenameNew(t) \/ RenameUnlink(t) \/ RenameLink(t)
    BY <1>0, <2>5, RenamePermitted
  <2>6. CASE ReallocCopy(t) \/ AddLookup(t) \/ AddClose(t) \/ AddLink(t)
             \/ ReallocMeta(t)
    BY <1>0, <2>6, AddPermitted
  <2> QED BY <1>2, <2>1, <2>2, <2>3, <2>4, <2>5, <2>6 DEF Step
<1>3. CASE UNCHANGED vars
  <2>1. UNCHANGED <<kind, mode, call>>
    BY <1>3 DEF vars, treeVars
  <2> QED BY <1>0, <2>1 DEF PInv, Sound, InDirs
<1> QED BY <1>1, <1>2, <1>3 DEF Next

\* A step changes the entries of the directory of its operation alone, which
\* the operation found writable, and nobody took the permission away since.
LEMMA PermittedStep ==
    ASSUME ChmodAlone, PInv, [Next]_vars, NEW d \in Ents,
           dirents'[d] # dirents[d]
    PROVE  \/ "w" \in mode[d]
           \/ \E t \in Threads : call[t].pc = "mkdirAllAdd" /\ call[t].at = d
<1>0. \A t \in Threads : TreeTypeOK /\ Sound(kind, mode, call[t])
  BY StepFacts
<1>1. dirents \in [Ents -> Seq(Ents)] /\ ~UNCHANGED dirents
  BY DEF PInv, IInv, TypeOK, TreeTypeOK
<1>2. PICK t \in Threads : Call(t) \/ Step(t)
  BY <1>1 DEF Next, vars, treeVars
<1>3. ~Call(t)
  BY <1>1 DEF Call, CallChmod, CallMkdir, CallMkdirAll, CallOpenFile,
         CallRemove, CallRemoveAll, CallRename, CallAddFile, CallReallocate,
         treeVars
<1>4. MkdirAdd(t) \/ MkdirAllAdd(t) \/ OpenLink(t) \/ RemoveUnlink(t)
        \/ RenameUnlink(t) \/ RenameLink(t) \/ AddLink(t)
  BY <1>1, <1>2, <1>3 DEF Step, Walk, Chmod, MkdirCheck, MkdirAllLookup,
         OpenExisting, OpenCreate, RemoveCheck, RemoveClose, RemoveAllAgain,
         RemoveAllList, RemoveAllNext, RenameOld, RenameNew, ReallocCopy,
         AddLookup, AddClose, ReallocMeta, treeVars
<1>5. CASE MkdirAdd(t) \/ OpenLink(t) \/ RemoveUnlink(t) \/ RenameLink(t)
           \/ AddLink(t)
  <2>1. d = call[t].at
    BY <1>1, <1>5 DEF MkdirAdd, OpenLink, RemoveUnlink, RenameLink, AddLink,
                      AddDirent, RemoveName
  <2>2. call[t].pc \in Checked
    BY <1>5 DEF MkdirAdd, OpenLink, RemoveUnlink, RenameLink, AddLink, Checked
  <2> QED BY <1>0, <2>1, <2>2 DEF Sound, Writable
<1>6. CASE MkdirAllAdd(t)
  BY <1>1, <1>6 DEF MkdirAllAdd, AddDirent
<1>7. CASE RenameUnlink(t)
  <2>1. d = call[t].from /\ Goal(call[t]) = "renameUnlink"
    BY <1>1, <1>7 DEF RenameUnlink, RemoveName, Goal
  <2> QED BY <1>0, <2>1 DEF Sound, Writable
<1> QED BY <1>4, <1>5, <1>6, <1>7

\* What an operation holds is what it takes it for, in every state.
LEMMA Permitted == Spec => []PInv
BY InitPermitted, NextPermitted, PTL DEF Spec

\* The entries of a directory change only while its permission bits allow
\* writing, in every operation but mkdirAll: a check made before other
\* goroutines had their turn still holds when the entry is linked or unlinked.
\* A Chmod between the two would refute it, so either nobody may chmod or there
\* is one goroutine.
THEOREM WritesPermitted ==
    ASSUME ChmodAlone
    PROVE  Spec => WritePermission
<1>1. PInv /\ [Next]_vars =>
        [\A d \in Ents : dirents'[d] # dirents[d] =>
            \/ "w" \in mode[d]
            \/ \E t \in Threads : call[t].pc = "mkdirAllAdd" /\ call[t].at = d
        ]_vars
  BY PermittedStep
<1> QED BY <1>1, Permitted, PTL DEF Spec, WritePermission

-----------------------------------------------------------------------------
(***************************************************************************)
(* Forests.  K gives the entries of each directory.  The last conjunct is  *)
(* the form of "no directory is inside itself" that a step can be shown to *)
(* keep: in every set of entries is one that none of the set contains.     *)
(***************************************************************************)
Kids == [d \in Ents |-> ToSet(dirents[d])]

Apart(K, e) == \A d \in Ents : e \notin K[d]

Forest(K) ==
    /\ Apart(K, Root)
    /\ \A e, d1, d2 \in Ents : e \in K[d1] /\ e \in K[d2] => d1 = d2
    /\ \A S \in SUBSET Ents : S # {} =>
          \E e \in S : \A d \in S : e \notin K[d]

Inward(K, C) == \A d \in C : K[d] \subseteq C

\* a set keeps x out of what is below e
Outside(K, e, x) ==
    \E C \in SUBSET Ents : Inward(K, C) /\ e \in C /\ x \notin C

\* at gets no other entries than those of U, and nothing else gets any
Linked(K, L, at, U) ==
    \A x \in Ents : L[x] \subseteq K[x] \/ (x = at /\ L[x] \subseteq K[x] \cup U)

\* Entries without parents can be put into a directory that is not below them.
LEMMA GraftForest ==
    ASSUME NEW K, NEW L, NEW at \in Ents, NEW U, NEW C \in SUBSET Ents,
           Forest(K), Linked(K, L, at, U), U \subseteq C, at \notin C,
           Inward(K, C), \A w \in U : w # Root /\ Apart(K, w)
    PROVE  Forest(L)
<1>1. ASSUME NEW x \in Ents, NEW e \in L[x]
      PROVE  e \in K[x] \/ (x = at /\ e \in U)
  BY <1>1 DEF Linked
<1>2. Apart(L, Root)
  BY <1>1 DEF Apart, Forest
<1>3. ASSUME NEW e \in Ents, NEW d1 \in Ents, NEW d2 \in Ents,
             e \in L[d1], e \in L[d2]
      PROVE  d1 = d2
  <2>1. e \in K[d1] \/ (d1 = at /\ e \in U)
    BY <1>3, <1>1
  <2>2. e \in K[d2] \/ (d2 = at /\ e \in U)
    BY <1>3, <1>1
  <2>3. e \in U => e \notin K[d1] /\ e \notin K[d2]
    BY DEF Apart
  <2> QED BY <1>3, <2>1, <2>2, <2>3 DEF Forest
<1>4. ASSUME NEW S \in SUBSET Ents, S # {}
      PROVE  \E e \in S : \A d \in S : e \notin L[d]
  <2>1. CASE S \ C = {}
    <3>1. PICK e \in S : \A d \in S : e \notin K[d]
      BY <1>4 DEF Forest
    <3>2. \A d \in S : d \in Ents /\ d # at
      BY <2>1
    <3> QED BY <3>1, <3>2, <1>1
  <2>2. CASE S \ C # {}
    <3>1. PICK e \in S \ C : \A d \in S \ C : e \notin K[d]
      BY <2>2 DEF Forest
    <3>2. \A d \in C : e \notin K[d]
      BY <3>1 DEF Inward
    <3>3. e \notin U
      BY <3>1
    <3> QED BY <3>1, <3>2, <3>3, <1>1
  <2> QED BY <2>1, <2>2
<1> QED BY <1>2, <1>3, <1>4 DEF Forest

\* An entry without entries can be put anywhere without bringing what was
\* outside another one into it.
LEMMA OutsideStays ==
    ASSUME NEW K, NEW L, NEW at \in Ents, NEW U \in SUBSET Ents,
           Linked(K, L, at, U), at \notin U, \A w \in U : K[w] = {},
           NEW e \in Ents, NEW x \in Ents \ U, Outside(K, e, x)
    PROVE  Outside(L, e, x)
<1>1. PICK C \in SUBSET Ents : Inward(K, C) /\ e \in C /\ x \notin C
  BY DEF Outside
<1>2. Inward(L, C \cup U)
  <2>1. ASSUME NEW d \in C PROVE L[d] \subseteq C \cup U
    BY <1>1 DEF Inward, Linked
  <2>2. ASSUME NEW d \in U PROVE L[d] \subseteq C \cup U
    BY DEF Linked
  <2> QED BY <2>1, <2>2 DEF Inward
<1> QED BY <1>1, <1>2 DEF Outside

\* What one walks into from outside of an entry is outside of it, unless it is
\* that entry.
LEMMA OutsideChild ==
    ASSUME NEW K, Forest(K), NEW e \in Ents, NEW x \in Ents, Outside(K, e, x),
           NEW y \in Ents, y \in K[x], y # e
    PROVE  Outside(K, e, y)
<1>1. PICK C \in SUBSET Ents : Inward(K, C) /\ e \in C /\ x \notin C
  BY DEF Outside
<1>2. \A d \in C : y \notin K[d]
  BY <1>1 DEF Forest
<1>3. Inward(K, C \ {y})
  BY <1>1, <1>2 DEF Inward
<1> QED BY <1>1, <1>3 DEF Outside

\* The root is outside of everything that is in a directory.
LEMMA OutsideRoot ==
    ASSUME NEW K \in [Ents -> SUBSET Ents], Forest(K), NEW e \in Ents, e # Root
    PROVE  Outside(K, e, Root)
<1>1. Inward(K, Ents \ {Root})
  BY DEF Inward, Forest, Apart
<1> QED BY <1>1 DEF Outside

-----------------------------------------------------------------------------
(***************************************************************************)
(* The entries of the directories, and what the writes do to them.         *)
(***************************************************************************)
\* The entries of a directory are dirents.
LEMMA KidsType ==
    ASSUME TreeTypeOK
    PROVE  /\ Kids \in [Ents -> SUBSET Ents]
           /\ \A d \in Ents : \A i \in DOMAIN dirents[d] : dirents[d][i] \in Kids[d]
           /\ \A d \in Ents : \A e \in Kids[d] :
                 \E i \in DOMAIN dirents[d] : dirents[d][i] = e
           /\ \A d \in Ents : dirents[d] = <<>> => Kids[d] = {}
BY DEF TreeTypeOK, Kids, ToSet

\* What a lookup returns is an entry of the directory, and the only one there
\* of its name.
LEMMA LookupKid ==
    ASSUME TreeTypeOK, DirsConsistent, NEW d \in Ents
    PROVE  /\ \A n \in EntNames : Lookup(d, n) # Nil =>
                 Lookup(d, n) \in Kids[d] /\ name[Lookup(d, n)] = n
           /\ \A e \in Kids[d] : Lookup(d, name[e]) = e
<1>1. MapIsListed(d) /\ ListIsMapped(d)
  BY DEF DirsConsistent
<1> QED BY <1>1, KidsType DEF MapIsListed, ListIsMapped, Lookup

\* AddDirent gives the directory one entry more, and may take one away.
LEMMA AddDirentLinks ==
    ASSUME TreeTypeOK, TreeTypeOK', DirsConsistent, NEW d \in Ents,
           NEW u \in Ents, AddDirent(d, u)
    PROVE  /\ Linked(Kids, Kids', d, {u})
           /\ \A x \in Ents : x # d => dirents'[x] = dirents[x]
<1> DEFINE old == direntMap[d][name'[u]]
           rest == Unlist(dirents[d], old)
<1>1. dirents' = [dirents EXCEPT ![d] = Append(rest, u)]
  BY DEF AddDirent
<1>2. dirents[d] \in Seq(Ents) /\ Injective(dirents[d])
  BY DEF TreeTypeOK, DirsConsistent, ListedOnce, Injective
<1> HIDE DEF old
<1>3. /\ rest \in Seq(Ents)
      /\ \A k \in DOMAIN rest : \E i \in DOMAIN dirents[d] : dirents[d][i] = rest[k]
  BY <1>2, UnlistElements
<1> HIDE DEF rest
<1>4. /\ dirents'[d] = Append(rest, u)
      /\ \A x \in Ents : x # d => dirents'[x] = dirents[x]
  BY <1>1 DEF TreeTypeOK
<1>5. ASSUME NEW e \in Kids'[d] PROVE e \in Kids[d] \cup {u}
  <2>1. PICK k \in DOMAIN dirents'[d] : dirents'[d][k] = e
    BY <1>5 DEF Kids, ToSet
  <2>2. (k \in DOMAIN rest /\ e = rest[k]) \/ e = u
    BY <1>3, <1>4, <2>1
  <2> QED BY <1>3, <2>2 DEF Kids, ToSet
<1>6. \A x \in Ents : x # d => Kids'[x] = Kids[x]
  BY <1>4 DEF Kids
<1> QED BY <1>4, <1>5, <1>6 DEF Linked

\* RemoveName only takes entries away, the one of that name among them.
LEMMA RemoveNameUnlinks ==
    ASSUME TreeTypeOK, TreeTypeOK', DirsConsistent, NEW d \in Ents,
           NEW n \in EntNames, RemoveName(d, n)
    PROVE  /\ Linked(Kids, Kids', d, {})
           /\ \A x \in Ents : x # d => dirents'[x] = dirents[x]
           /\ Lookup(d, n) \notin Kids'[d]
<1> DEFINE rest == Unlist(dirents[d], direntMap[d][n])
<1>1. dirents' = [dirents EXCEPT ![d] = rest]
  BY DEF RemoveName
<1>2. dirents[d] \in Seq(Ents) /\ Injective(dirents[d])
  BY DEF TreeTypeOK, DirsConsistent, ListedOnce, Injective
<1>3. /\ rest \in Seq(Ents)
      /\ \A k \in DOMAIN rest :
            /\ rest[k] # direntMap[d][n]
            /\ \E i \in DOMAIN dirents[d] : dirents[d][i] = rest[k]
  BY <1>2, UnlistElements
<1> HIDE DEF rest
<1>4. /\ dirents'[d] = rest
      /\ \A x \in Ents : x # d => dirents'[x] = dirents[x]
  BY <1>1 DEF TreeTypeOK
<1>5. Kids'[d] \subseteq Kids[d] /\ direntMap[d][n] \notin Kids'[d]
  BY <1>3, <1>4 DEF Kids, ToSet
<1>6. \A x \in Ents : x # d => Kids'[x] = Kids[x]
  BY <1>4 DEF Kids
<1> QED BY <1>4, <1>5, <1>6 DEF Linked, Lookup

-----------------------------------------------------------------------------
(***************************************************************************)
(* A forest has the shape that Dirs asks for.                              *)
(***************************************************************************)
\* Subtree(e) is in every closed set that e is in.
LEMMA SubtreeIsLeast ==
    ASSUME TreeTypeOK, NEW e \in Ents, NEW x \in Ents
    PROVE  x \in Subtree(e) <=>
             \A C \in SUBSET Ents : e \in C /\ Inward(Kids, C) => x \in C
<1> DEFINE closed == {S \in {{e} \cup T : T \in SUBSET (Ents \ {e})} : Closed(S)}
<1>1. ASSUME NEW C \in SUBSET Ents
      PROVE  Closed(C) <=> Inward(Kids, C)
  BY KidsType DEF Closed, Inward
<1>2. ASSUME NEW C \in SUBSET Ents, e \in C, Inward(Kids, C)
      PROVE  C \in closed
  <2>1. C \ {e} \in SUBSET (Ents \ {e}) /\ C = {e} \cup (C \ {e})
    BY <1>2
  <2> QED BY <1>1, <1>2, <2>1
<1>3. ASSUME NEW S \in closed
      PROVE  S \in SUBSET Ents /\ e \in S /\ Inward(Kids, S)
  BY <1>1, <1>3
<1>4. Subtree(e) = {y \in Ents : \A S \in closed : y \in S}
  BY DEF Subtree
<1> HIDE DEF closed
<1> QED BY <1>2, <1>3, <1>4

\* In a forest nothing is below itself.
LEMMA ForestNotInside ==
    ASSUME TreeTypeOK, Forest(Kids), NEW e \in Ents, NEW d \in Kids[e]
    PROVE  e \notin Subtree(d)
<1> SUFFICES ASSUME e \in Subtree(d) PROVE FALSE
  OBVIOUS
<1> DEFINE S == {x \in Ents : x \in Subtree(d) /\ e \in Subtree(x)}
<1>1. d \in Ents /\ Kids \in [Ents -> SUBSET Ents]
  BY KidsType
<1>2. \A x \in Ents : x \in Subtree(x)
  BY SubtreeIsLeast
<1>3. d \in S /\ e \in S
  BY <1>1, <1>2
<1>4. PICK m \in S : \A p \in S : m \notin Kids[p]
  BY <1>3 DEF Forest
<1>5. m # d
  BY <1>3, <1>4
<1>6. PICK p \in Ents : p \in Subtree(d) /\ m \in Kids[p]
  <2> DEFINE C == {x \in Ents : x \in Subtree(d)} \ {m}
  <2>1. ~Inward(Kids, C)
    BY <1>1, <1>2, <1>4, <1>5, SubtreeIsLeast
  <2>2. PICK p \in C : ~(Kids[p] \subseteq C)
    BY <2>1 DEF Inward
  <2>3. PICK y \in Kids[p] : y \notin C
    BY <2>2
  <2>4. y \in Ents /\ y \in Subtree(d)
    BY <1>1, <2>3, SubtreeIsLeast DEF Inward
  <2> QED BY <2>2, <2>3, <2>4
<1>7. e \in Subtree(p)
  <2>1. ASSUME NEW C \in SUBSET Ents, p \in C, Inward(Kids, C) PROVE e \in C
    <3>1. m \in C
      BY <1>6, <2>1 DEF Inward
    <3> QED BY <1>4, <2>1, <3>1, SubtreeIsLeast
  <2> QED BY <2>1, SubtreeIsLeast
<1> QED BY <1>4, <1>6, <1>7

\* A forest has the shape that TreeShape asks for.
LEMMA ForestShape ==
    ASSUME TreeTypeOK, Forest(Kids),
           \A d \in Ents : kind[d] # "dir" => dirents[d] = <<>>
    PROVE  TreeShape
<1> SUFFICES ASSUME NEW e \in Ents
             PROVE  /\ Cardinality(Parents(e)) <= (IF e = Root THEN 0 ELSE 1)
                    /\ \A d \in ToSet(dirents[e]) : e \notin Subtree(d)
  BY DEF TreeShape
<1>1. Parents(e) = {d \in Ents : e \in Kids[d]}
  BY DEF Parents, Kids
<1>2. Cardinality(Parents(e)) <= (IF e = Root THEN 0 ELSE 1)
  <2>1. CASE Parents(e) = {}
    BY <2>1, FS_EmptySet
  <2>2. ASSUME NEW d \in Parents(e) PROVE Cardinality(Parents(e)) = 1 /\ e # Root
    <3>1. Parents(e) = {d} /\ e # Root
      BY <1>1, <2>2 DEF Forest, Apart
    <3> QED BY <3>1, FS_Singleton
  <2> QED BY <2>1, <2>2
<1>3. \A d \in ToSet(dirents[e]) : e \notin Subtree(d)
  BY ForestNotInside DEF Kids
<1> QED BY <1>2, <1>3

-----------------------------------------------------------------------------
(***************************************************************************)
(* The invariant of the operations.                                        *)
(*                                                                         *)
(* A file that an operation has made and not linked yet is in no directory *)
(* and no other operation knows it.                                        *)
(***************************************************************************)
Pending(c) == c.link # Nil /\ c.pc # "meta"

PendingApart ==
    \A t \in Threads : Pending(call[t]) =>
        /\ Apart(Kids, call[t].link)
        /\ \A u \in Threads : Pending(call[u]) /\ call[u].link = call[t].link
                              => t = u

(***************************************************************************)
(* Rename puts a directory into another one, which must not be below it.   *)
(* The code compares the two paths before it walks either; what a walk     *)
(* finds at a path may change behind it.  A trail is what the walk along p *)
(* went through up to component m.  Some of it may be gone, but what is    *)
(* not is still where it was, as only a Rename moves an entry.             *)
(***************************************************************************)
Trail(A, p, m) ==
    /\ A[0] = Root
    /\ \A i \in 1..m :
        /\ A[i] # Root
        /\ kind[A[i]] # "none"
        /\ name[A[i]] = p[i]
        /\ \A d \in Ents : A[i] \in Kids[d] => d = A[i - 1]
        /\ \A u \in Threads : Pending(call[u]) => call[u].link # A[i]

\* how many components of p a walk along p has behind it
Behind(c, p) == IF c.pc = "walk" THEN Len(p) - Len(c.rest) ELSE Len(p) - 1

\* what it has left are the others
Along(c, p) ==
    c.pc = "walk" => /\ Len(c.rest) <= Len(p)
                     /\ \A i \in 1..Len(c.rest) :
                           c.rest[i] = p[Len(p) - Len(c.rest) + i]

\* the walk to the parent of the old name
FirstWalk(c, A) ==
    /\ Along(c, c.path) /\ c.base = Base(c.path)
    /\ Trail(A, c.path, Behind(c, c.path))
    /\ A[Behind(c, c.path)] = c.at

\* The walk to the parent of the new name: where it is on the trail of the
\* first, the two paths have been the same so far; and it has not entered the
\* old target.
SecondWalk(c, A) ==
    /\ Along(c, c.to)
    /\ Trail(A, c.path, Len(c.path))
    /\ A[Len(c.path)] = c.old /\ A[Len(c.path) - 1] = c.from
    /\ \A j \in 0..(Len(c.path) - 1) : c.at = A[j] =>
          /\ Behind(c, c.to) = j
          /\ \A i \in 1..j : c.to[i] = c.path[i]
    /\ Outside(Kids, c.old, c.at)

RenameGoals == {"renameOld", "renameNew", "renameUnlink", "renameLink"}

Trails == [Nat -> Ents]

Moving(t, c) ==
    Goal(c) \in RenameGoals =>
        /\ "Rename" \in Ops[t]
        /\ c.path # <<>> /\ c.to # <<>> /\ ~IsPrefix(c.path, c.to)
        /\ Goal(c) = "renameOld" => \E A \in Trails : FirstWalk(c, A)
        /\ Goal(c) # "renameOld" => \E A \in Trails : SecondWalk(c, A)
        /\ Goal(c) = "renameLink" => Apart(Kids, c.old)

TInv ==
    /\ PInv
    /\ Forest(Kids)
    /\ \A d \in Ents : kind[d] # "dir" => dirents[d] = <<>>
    /\ PendingApart
    /\ \A t \in Threads : Moving(t, call[t])

\* Two goroutines that rename can put two directories into each other.
RenamesAlone ==
    \A t, u \in Threads : "Rename" \in Ops[t] /\ "Rename" \in Ops[u] => t = u

-----------------------------------------------------------------------------
(***************************************************************************)
(* A step of t after which its operation is d and which puts the entries   *)
(* of U into the directory at, entries that only t knows.                  *)
(***************************************************************************)
Own(t, w) == kind[w] = "none" \/ (Pending(call[t]) /\ w = call[t].link)

KindsKept ==
    \A x \in Ents : kind[x] # "none" => kind'[x] = kind[x] /\ name'[x] = name[x]

Puts(t, d, at, U) ==
    /\ call' = [call EXCEPT ![t] = d]
    /\ KindsKept
    /\ kind[at] = "dir"
    /\ Linked(Kids, Kids', at, U)
    /\ \A x \in Ents : x # at => dirents'[x] = dirents[x]
    /\ \A w \in U : Own(t, w)
    /\ Pending(d) => d.link \notin U /\ Own(t, d.link)

\* Entries of its own are no directory's, have no entries and are no other
\* operation's.
LEMMA OwnApart ==
    ASSUME TInv, NEW t \in Threads, NEW w \in Ents, Own(t, w)
    PROVE  /\ kind[w] # "dir" /\ w # Root /\ Apart(Kids, w) /\ Kids[w] = {}
           /\ \A u \in Threads : u # t /\ Pending(call[u]) => call[u].link # w
<1>1. /\ TreeTypeOK /\ kind[Root] = "dir" /\ ListedAllocated
      /\ \A u \in Threads : /\ call[u] \in Calls /\ InDirs(kind, call[u])
                            /\ Held(call[u])
  BY StepFacts, CallFacts DEF TInv, PInv
<1>2. kind[w] # "dir"
  BY <1>1 DEF Own, InDirs, Pending
<1>3. Apart(Kids, w)
  <2>1. CASE kind[w] = "none"
    BY <1>1, <2>1, KidsType DEF ListedAllocated, Apart
  <2>2. CASE Pending(call[t]) /\ w = call[t].link
    BY <2>2 DEF TInv, PendingApart
  <2> QED BY <2>1, <2>2 DEF Own
<1>4. Kids[w] = {}
  BY <1>1, <1>2, KidsType DEF TInv
<1>5. ASSUME NEW u \in Threads, u # t, Pending(call[u])
      PROVE  call[u].link # w
  BY <1>1, <1>5 DEF Own, Pending, Held, TInv, PendingApart
<1> QED BY <1>1, <1>2, <1>3, <1>4, <1>5

\* What is put nowhere else goes in, and the forest stays one.
LEMMA PutsFiles ==
    ASSUME TInv, PInv', NEW t \in Threads, NEW d, NEW at \in Ents,
           NEW U \in SUBSET Ents, Puts(t, d, at, U)
    PROVE  /\ at \notin U
           /\ \A w \in U : w # Root /\ Apart(Kids, w) /\ Kids[w] = {}
           /\ Forest(Kids)'
           /\ (\A x \in Ents : kind[x] # "dir" => dirents[x] = <<>>)'
<1>1. \A w \in U : /\ kind[w] # "dir" /\ w # Root /\ Apart(Kids, w)
                   /\ Kids[w] = {}
  BY OwnApart DEF Puts
<1>2. at \notin U
  BY <1>1 DEF Puts
<1>3. Inward(Kids, U)
  BY <1>1 DEF Inward
<1>4. Forest(Kids) /\ Linked(Kids, Kids', at, U)
  BY DEF TInv, Puts
<1>5. Forest(Kids')
  BY <1>1, <1>2, <1>3, <1>4, GraftForest
<1>6. ASSUME NEW x \in Ents, kind'[x] # "dir" PROVE dirents'[x] = <<>>
  <2>1. kind[x] # "dir" /\ x # at
    BY <1>6 DEF KindsKept, Puts
  <2> QED BY <2>1 DEF TInv, Puts
<1>7. Forest(Kids)'
  BY <1>5 DEF Forest, Apart
<1> QED BY <1>1, <1>2, <1>6, <1>7

\* What is pending after such a step was pending before, or is new.
LEMMA PutsPending ==
    ASSUME TInv, PInv', NEW t \in Threads, NEW d, NEW at \in Ents,
           NEW U \in SUBSET Ents, Puts(t, d, at, U)
    PROVE  PendingApart'
<1>1. /\ call'[t] = d /\ \A u \in Threads : u # t => call'[u] = call[u]
      /\ \A u \in Threads : call[u] \in Calls /\ call'[u] \in Calls
  BY DEF Puts, TInv, PInv, IInv, TypeOK
<1>2. Pending(d) => d.link \in Ents /\ Own(t, d.link)
  BY <1>1 DEF Puts, Pending, Calls
<1>3. ASSUME NEW u \in Threads, Pending(call'[u])
      PROVE  /\ call'[u].link \in Ents \ U
             /\ Apart(Kids, call'[u].link)
  <2>1. CASE u = t
    BY <1>1, <1>2, <1>3, <2>1, OwnApart DEF Puts
  <2>2. CASE u # t
    <3>1. call'[u] = call[u] /\ Pending(call[u]) /\ call[u].link \in Ents
      BY <1>1, <1>3, <2>2 DEF Pending, Calls
    <3>2. Apart(Kids, call[u].link)
      BY <3>1 DEF TInv, PendingApart
    <3>3. call[u].link \notin U
      BY <2>2, <3>1, OwnApart DEF Puts
    <3> QED BY <3>1, <3>2, <3>3
  <2> QED BY <2>1, <2>2
<1>4. ASSUME NEW u \in Threads, Pending(call'[u])
      PROVE  Apart(Kids', call'[u].link)
  <2>1. ASSUME NEW x \in Ents PROVE call'[u].link \notin Kids'[x]
    BY <1>3, <1>4 DEF Puts, Linked, Apart
  <2> QED BY <2>1 DEF Apart
<1>5. ASSUME NEW u \in Threads, NEW v \in Threads, Pending(call'[u]),
             Pending(call'[v]), call'[v].link = call'[u].link
      PROVE  u = v
  <2>1. CASE u # t /\ v # t
    BY <1>1, <1>5, <2>1 DEF TInv, PendingApart
  <2>2. CASE u = t /\ v # t
    <3>1. Own(t, d.link) /\ d.link \in Ents /\ call[v].link = d.link
          /\ Pending(call[v])
      BY <1>1, <1>2, <1>5, <2>2
    <3> QED BY <2>2, <3>1, OwnApart
  <2>3. CASE v = t /\ u # t
    <3>1. Own(t, d.link) /\ d.link \in Ents /\ call[u].link = d.link
          /\ Pending(call[u])
      BY <1>1, <1>2, <1>5, <2>3
    <3> QED BY <2>3, <3>1, OwnApart
  <2> QED BY <2>1, <2>2, <2>3
<1>6. \A u \in Threads : Pending(call'[u]) =>
        /\ Apart(Kids', call'[u].link)
        /\ \A v \in Threads : Pending(call'[v]) /\ call'[v].link = call'[u].link
                              => u = v
  BY <1>4, <1>5
<1> QED BY <1>6 DEF PendingApart, Apart, Pending

\* An entry that no operation has for its own stays where it was.
LEMMA PutsTrail ==
    ASSUME TInv, PInv', NEW t \in Threads, NEW d, NEW at \in Ents,
           NEW U \in SUBSET Ents, Puts(t, d, at, U),
           NEW A \in Trails, NEW p, NEW m \in Nat, Trail(A, p, m)
    PROVE  Trail(A, p, m)'
<1>1. /\ call'[t] = d /\ \A u \in Threads : u # t => call'[u] = call[u]
      /\ \A u \in Threads : call[u] \in Calls /\ call'[u] \in Calls
  BY DEF Puts, TInv, PInv, IInv, TypeOK
<1>2. ASSUME NEW i \in 1..m
      PROVE  /\ A[i] # Root
             /\ kind'[A[i]] # "none"
             /\ name'[A[i]] = p[i]
             /\ \A x \in Ents : A[i] \in Kids'[x] => x = A[i - 1]
             /\ \A u \in Threads : Pending(call'[u]) => call'[u].link # A[i]
  <2>1. A[i] \in Ents
    BY DEF Trails
  <2>2. /\ A[i] # Root /\ kind[A[i]] # "none" /\ name[A[i]] = p[i]
        /\ \A x \in Ents : A[i] \in Kids[x] => x = A[i - 1]
        /\ \A u \in Threads : Pending(call[u]) => call[u].link # A[i]
    BY DEF Trail
  <2>3. ~Own(t, A[i])
    BY <2>2 DEF Own
  <2>4. kind'[A[i]] # "none" /\ name'[A[i]] = p[i]
    BY <2>1, <2>2 DEF Puts, KindsKept
  <2>5. A[i] \notin U
    BY <2>3 DEF Puts
  <2>6. ASSUME NEW x \in Ents, A[i] \in Kids'[x] PROVE x = A[i - 1]
    BY <2>2, <2>5, <2>6 DEF Puts, Linked
  <2>7. ASSUME NEW u \in Threads, Pending(call'[u])
        PROVE  call'[u].link # A[i]
    BY <1>1, <2>2, <2>3, <2>7 DEF Puts
  <2> QED BY <2>2, <2>4, <2>6, <2>7
<1>3. A[0] = Root
  BY DEF Trail
<1> QED BY <1>2, <1>3 DEF Trail, Pending

\* What a step may rely on of the locals of its operation.
LEMMA WalksTyped ==
    ASSUME TInv, NEW t \in Threads, NEW c, c = call[t]
    PROVE  /\ c \in Calls /\ Ready(c)
           /\ c.path \in Seq(Names) /\ c.to \in Seq(Names) /\ c.rest \in Seq(Names)
           /\ Len(c.path) \in Nat /\ Len(c.to) \in Nat /\ Len(c.rest) \in Nat
           /\ c.at \in Ents /\ kind[c.at] = "dir"
           /\ c.from \in Ents /\ kind[c.from] = "dir"
           /\ c.base \in EntNames
           /\ c.old # Nil => c.old \in Ents
<1>1. IInv /\ InDirs(kind, c)
  BY StepFacts DEF TInv
<1>2. /\ c \in Calls /\ Ready(c)
      /\ c.path \in Seq(Names) /\ c.to \in Seq(Names) /\ c.rest \in Seq(Names)
      /\ c.at \in Ents /\ c.from \in Ents /\ c.base \in EntNames
  BY <1>1, CallFacts
<1>3. c.old # Nil => c.old \in Ents
  BY <1>2 DEF Calls
<1> QED BY <1>1, <1>2, <1>3 DEF InDirs

\* So a walk stays on its trail, and outside of what it has to keep out of.
LEMMA PutsWalks ==
    ASSUME TInv, PInv', NEW t \in Threads, NEW d, NEW at \in Ents,
           NEW U \in SUBSET Ents, Puts(t, d, at, U), NEW A \in Trails,
           NEW c, c.at \in Ents \ U, c.path # <<>>, c.path \in Seq(Names),
           c.pc = "walk" => c.rest \in Seq(Names)
    PROVE  /\ FirstWalk(c, A) => FirstWalk(c, A)'
           /\ SecondWalk(c, A) /\ c.old \in Ents => SecondWalk(c, A)'
<1>1. /\ at \notin U /\ \A w \in U : Kids[w] = {}
      /\ Linked(Kids, Kids', at, U)
  BY PutsFiles DEF Puts
<1>2. Len(c.path) \in Nat /\ Len(c.path) > 0
      /\ (c.pc = "walk" => Len(c.rest) \in Nat)
  OBVIOUS
<1>3. ASSUME FirstWalk(c, A) PROVE FirstWalk(c, A)'
  <2>1. Behind(c, c.path) \in Nat
    <3>1. CASE c.pc = "walk"
      <4>1. Len(c.rest) <= Len(c.path)
        BY <1>3, <3>1 DEF Along, FirstWalk
      <4>2. Behind(c, c.path) = Len(c.path) - Len(c.rest)
        BY <3>1 DEF Behind
      <4> QED BY <1>2, <3>1, <4>1, <4>2
    <3>2. CASE c.pc # "walk"
      <4>1. Behind(c, c.path) = Len(c.path) - 1
        BY <3>2 DEF Behind
      <4> QED BY <1>2, <4>1
    <3> QED BY <3>1, <3>2
  <2>2. Trail(A, c.path, Behind(c, c.path))'
    BY <1>3, <2>1, PutsTrail DEF FirstWalk
  <2> QED BY <1>3, <2>2 DEF FirstWalk, Along, Behind
<1>4. ASSUME SecondWalk(c, A), c.old \in Ents PROVE SecondWalk(c, A)'
  <2>1. Trail(A, c.path, Len(c.path))'
    BY <1>2, <1>4, PutsTrail DEF SecondWalk
  <2>2. Outside(Kids', c.old, c.at)
    BY <1>1, <1>4, OutsideStays DEF SecondWalk
  <2>3. Outside(Kids, c.old, c.at)'
    BY <2>2 DEF Outside, Inward
  <2> QED BY <1>4, <2>1, <2>3 DEF SecondWalk, Along, Behind
<1> QED BY <1>3, <1>4

\* That holds of the walks of the others.
LEMMA PutsMoving ==
    ASSUME TInv, PInv', NEW t \in Threads, NEW d, NEW at \in Ents,
           NEW U \in SUBSET Ents, Puts(t, d, at, U),
           NEW u \in Threads, NEW c, c = call[u], u # t
    PROVE  Moving(u, c)'
<1>1. /\ Moving(u, c) /\ c \in Calls /\ Ready(c) /\ c.at \in Ents /\ kind[c.at] = "dir"
      /\ c.path \in Seq(Names) /\ c.rest \in Seq(Names)
      /\ c.old # Nil => c.old \in Ents
  BY WalksTyped DEF TInv
<1>2. /\ \A w \in U : kind[w] # "dir"
      /\ Linked(Kids, Kids', at, U)
  BY OwnApart DEF Puts
<1> SUFFICES ASSUME Goal(c) \in RenameGoals
             PROVE  /\ Goal(c) = "renameOld" => \E A \in Trails : FirstWalk(c, A)'
                    /\ Goal(c) # "renameOld" => \E A \in Trails : SecondWalk(c, A)'
                    /\ Goal(c) = "renameLink" => Apart(Kids', c.old)
  BY <1>1 DEF Moving, Apart
<1>3. c.at \notin U /\ c.path # <<>>
  BY <1>1, <1>2 DEF Moving
<1>4. Goal(c) # "renameOld" => c.old \in Ents
  BY <1>1 DEF Ready, RenameGoals
<1>5. ASSUME NEW A \in Trails
      PROVE  /\ FirstWalk(c, A) => FirstWalk(c, A)'
             /\ SecondWalk(c, A) /\ c.old \in Ents => SecondWalk(c, A)'
  BY <1>1, <1>3, PutsWalks
<1>6. ASSUME Goal(c) = "renameLink" PROVE Apart(Kids', c.old)
  <2>1. PICK A \in Trails : SecondWalk(c, A)
    BY <1>1, <1>6 DEF Moving
  <2>2. c.old \notin U
    <3>1. Len(c.path) \in Nat /\ Len(c.path) > 0
      BY <1>1, <1>3
    <3>2. c.old = A[Len(c.path)] /\ kind[c.old] # "none"
          /\ \A v \in Threads : Pending(call[v]) => call[v].link # c.old
      BY <2>1, <3>1 DEF SecondWalk, Trail
    <3> QED BY <3>2 DEF Puts, Own
  <2>3. Apart(Kids, c.old)
    BY <1>1, <1>6 DEF Moving
  <2> QED BY <1>2, <2>2, <2>3 DEF Linked, Apart
<1> QED BY <1>1, <1>4, <1>5, <1>6 DEF Moving

\* It is left to see where the walk of t itself is.
LEMMA PutsStep ==
    ASSUME TInv, PInv', NEW t \in Threads, NEW d, NEW at \in Ents,
           NEW U \in SUBSET Ents, Puts(t, d, at, U), Moving(t, d)'
    PROVE  TInv'
<1>1. /\ call'[t] = d /\ \A u \in Threads : u # t => call'[u] = call[u]
  BY DEF Puts, TInv, PInv, IInv, TypeOK
<1>2. ASSUME NEW u \in Threads PROVE Moving(u, call[u])'
  <2>1. PICK c : c = call[u]
    OBVIOUS
  <2>2. CASE u = t
    BY <1>1, <2>2 DEF Moving
  <2>3. CASE u # t
    <3>1. Moving(u, c)'
      BY <2>1, <2>3, PutsMoving
    <3> QED BY <1>1, <2>1, <2>3, <3>1 DEF Moving
  <2> QED BY <2>2, <2>3
<1>3. PendingApart' /\ Forest(Kids)'
      /\ (\A x \in Ents : kind[x] # "dir" => dirents[x] = <<>>)'
  BY PutsPending, PutsFiles
<1> QED BY <1>2, <1>3 DEF TInv

\* A step that leaves the directories alone puts nothing anywhere.
LEMMA StillPuts ==
    ASSUME TInv, NEW t \in Threads, NEW d,
           call' = [call EXCEPT ![t] = d], UNCHANGED dirents,
           KindsKept, Pending(d) => Own(t, d.link)
    PROVE  Puts(t, d, Root, {})
<1>1. Kids' = Kids /\ kind[Root] = "dir"
  BY DEF Kids, TInv, PInv
<1> QED BY <1>1 DEF Puts, Linked

\* A step of an operation that is not a Rename, or no longer.
LEMMA LeaveStep ==
    ASSUME TInv, PInv', NEW t \in Threads, NEW d,
           call' = [call EXCEPT ![t] = d], UNCHANGED <<kind, name, dirents>>,
           d.link \in {call[t].link, Nil}, call[t].pc # "meta" \/ d.link = Nil,
           Goal(d) \notin RenameGoals
    PROVE  TInv'
<1>1. KindsKept /\ (Pending(d) => Own(t, d.link))
  BY DEF KindsKept, Pending, Own
<1>2. Puts(t, d, Root, {})
  BY <1>1, StillPuts
<1>3. Moving(t, d)'
  BY DEF Moving
<1> QED BY <1>2, <1>3, PutsStep, DirsAssumption

\* A step that links and unlinks nothing, of an operation that does not rename.
LEMMA StillStep ==
    ASSUME TInv, PInv', NEW t \in Threads, NEW d,
           call' = [call EXCEPT ![t] = d], UNCHANGED <<kind, name, dirents>>,
           Keeps(d, call[t]), call[t].pc # "meta" \/ d.link = Nil,
           Goal(d) \notin RenameGoals
    PROVE  TInv'
BY LeaveStep DEF Keeps

-----------------------------------------------------------------------------
(***************************************************************************)
(* Where the helpers of the operations lead.                               *)
(***************************************************************************)
\* Where the helpers leave an operation: at no step of a Rename.
LEMMA DoneGoal ==
    ASSUME NEW err
    PROVE  /\ Done(err).pc = "idle" /\ Goal(Done(err)) = "idle"
           /\ Done(err).link = Nil
BY NoCallType DEF Done, Goal, Calls

\* The same for Return.
LEMMA ReturnGoal ==
    ASSUME NEW c \in Calls, NEW err
    PROVE  Goal(Return(c, err)) \in {"idle", "again"}
<1> DEFINE again == [c EXCEPT !.pc = "again", !.ent = Nil]
<1>1. Goal(again) = "again"
  BY DEF Goal, Calls
<1>2. Return(c, err) \in {again, Done("ok"), Done(err)}
  BY DEF Return
<1> QED BY <1>1, <1>2, DoneGoal

\* The same for what follows a removal.
LEMMA AfterRemoveGoal ==
    ASSUME NEW c \in Calls, NEW err
    PROVE  Goal(AfterRemove(c, err)) \in {"idle", "again", "next", "list"}
<1> DEFINE next == [c EXCEPT !.pc = "next", !.ent = Nil]
           list == [c EXCEPT !.pc = "list"]
<1>1. Goal(next) = "next" /\ Goal(list) = "list"
  BY DEF Goal, Calls
<1>2. AfterRemove(c, err) \in {next, list, Return(c, err), Done(err)}
  BY DEF AfterRemove
<1> QED BY <1>1, <1>2, DoneGoal, ReturnGoal

\* A walk that arrives is where it was to go.
LEMMA ArriveGoal ==
    ASSUME NEW c \in Calls, c.next \in Targets
    PROVE  Goal(Arrive(c)) = c.next
<1> DEFINE there == [c EXCEPT !.pc = c.next, !.rest = <<>>]
           walk == [c EXCEPT !.pc = "walk"]
<1>1. Goal(there) = c.next /\ Goal(walk) = c.next
  BY DEF Goal, Calls, Targets
<1>2. Arrive(c) \in {there, walk}
  BY DEF Arrive
<1> QED BY <1>1, <1>2

\* So is one that begins, or the operation has returned.
LEMMA FindParentGoal ==
    ASSUME NEW c \in Calls, NEW p \in Seq(Names), NEW next \in Targets
    PROVE  Goal(FindParent(c, p, next)) \in {next, "idle", "again"}
<1> DEFINE w == [c EXCEPT !.at = Root, !.base = Base(p), !.rest = p,
                          !.next = next]
<1>1. w \in Calls /\ w.next = next
  BY PathTypes, DirsAssumption DEF Calls
<1>2. FindParent(c, p, next) \in {Return(c, SearchErr(Root)), Arrive(w)}
  BY DEF FindParent
<1> HIDE DEF w
<1> QED BY <1>1, <1>2, ReturnGoal, ArriveGoal

\* The loop of mkdirAll renames nothing.
LEMMA MkdirAllLoopGoal ==
    ASSUME NEW c \in Calls, NEW at \in Ents, NEW rest \in Seq(Names)
    PROVE  Goal(MkdirAllLoop(c, at, rest)) \in {"mkdirAll", "add", "idle", "again"}
<1> DEFINE loop == [c EXCEPT !.pc = "mkdirAll", !.at = at, !.rest = rest]
<1>1. Goal(loop) = "mkdirAll"
  BY DEF Goal, Calls
<1>2. Goal(FindParent(c, Dir(c.path), "add")) \in {"add", "idle", "again"}
  <2>1. Dir(c.path) \in Seq(Names) /\ "add" \in Targets
    BY PathTypes DEF Calls, Targets
  <2> QED BY <2>1, FindParentGoal
<1>3. MkdirAllLoop(c, at, rest) \in
        {loop, Done("ok"), FindParent(c, Dir(c.path), "add")}
  BY DEF MkdirAllLoop
<1> QED BY <1>1, <1>2, <1>3, DoneGoal

\* Nor does its beginning.
LEMMA MkdirAllGoal ==
    ASSUME NEW c \in Calls, NEW p \in Seq(Names)
    PROVE  Goal(MkdirAll(c, p)) \in {"mkdirAll", "add", "idle", "again"}
<1>1. MkdirAll(c, p) \in {Done(SearchErr(Root)), MkdirAllLoop(c, Root, p)}
  BY DEF MkdirAll
<1> QED BY <1>1, DoneGoal, MkdirAllLoopGoal, DirsAssumption

-----------------------------------------------------------------------------
(***************************************************************************)
(* The steps that leave the directories alone, those of a Rename apart.    *)
(***************************************************************************)
\* A step that links nothing and returns.
LEMMA DoneStill ==
    ASSUME TInv, PInv', NEW t \in Threads, NEW err,
           call' = [call EXCEPT ![t] = Done(err)],
           UNCHANGED <<kind, name, dirents>>
    PROVE  TInv'
<1>1. Keeps(Done(err), call[t]) /\ Done(err).link = Nil
  BY NoCallType DEF Done, Keeps, Calls
<1> QED BY <1>1, DoneGoal, StillStep DEF RenameGoals

\* An operation that goes on past its checks, with the dirents it has.
LEMMA GoesOnStill ==
    ASSUME TInv, PInv', NEW t \in Threads, NEW d,
           call' = [call EXCEPT ![t] = d], UNCHANGED <<kind, name, dirents>>,
           d.link = call[t].link, d.old = call[t].old, call[t].pc # "meta",
           d.pc \notin RenameGoals, d.pc # "walk"
    PROVE  TInv'
BY StillStep DEF Keeps, Goal

\* A step that links nothing and ends a walk with an error.
LEMMA ReturnStill ==
    ASSUME TInv, PInv', NEW t \in Threads, NEW c, c = call[t], NEW err \in Errors,
           call' = [call EXCEPT ![t] = Return(c, err)], c.pc # "meta",
           UNCHANGED <<kind, name, dirents>>
    PROVE  TInv'
<1>1. c \in Calls
  BY WalksTyped
<1>2. Keeps(Return(c, err), c) /\ Goal(Return(c, err)) \notin RenameGoals
  BY <1>1, ReturnCall, ReturnGoal DEF RenameGoals
<1> QED BY <1>2, StillStep

\* The checks of Mkdir and MkdirAll.
LEMMA MkdirStill ==
    ASSUME TInv, PInv', NEW t \in Threads, MkdirCheck(t) \/ MkdirAllLookup(t)
    PROVE  TInv'
<1>1. PICK c : c = call[t]
  OBVIOUS
<1>2. c \in Calls /\ Ready(c) /\ c.rest \in Seq(Names) /\ TreeTypeOK
      /\ c.at \in Ents
  BY <1>1, WalksTyped, StepFacts DEF TInv
<1>3. UNCHANGED <<kind, name, dirents>>
  BY DEF MkdirCheck, MkdirAllLookup, treeVars
<1>4. CASE MkdirCheck(t)
  <2> DEFINE add == [c EXCEPT !.pc = "mkdirAdd", !.at = Found(c)]
  <2>1. \/ \E err : call' = [call EXCEPT ![t] = Done(err)]
        \/ call' = [call EXCEPT ![t] = add]
    BY <1>1, <1>4 DEF MkdirCheck
  <2>2. add.pc = "mkdirAdd" /\ add.link = c.link /\ add.old = c.old
    BY <1>2 DEF Calls
  <2>3. c.pc # "meta"
    BY <1>1, <1>4 DEF MkdirCheck
  <2> HIDE DEF add
  <2> QED BY <1>1, <1>3, <2>1, <2>2, <2>3, DoneStill, GoesOnStill DEF RenameGoals
<1>5. CASE MkdirAllLookup(t)
  <2> DEFINE add == [c EXCEPT !.pc = "mkdirAllAdd"]
             child == Lookup(c.at, Head(c.rest))
             loop == MkdirAllLoop(c, child, Tail(c.rest))
  <2>1. \/ \E err : call' = [call EXCEPT ![t] = Done(err)]
        \/ call' = [call EXCEPT ![t] = add]
        \/ child # Nil /\ call' = [call EXCEPT ![t] = loop]
    BY <1>1, <1>5 DEF MkdirAllLookup
  <2>2. add.pc = "mkdirAllAdd" /\ add.link = c.link /\ add.old = c.old
    BY <1>2 DEF Calls
  <2>3. c.pc = "mkdirAll"
    BY <1>1, <1>5 DEF MkdirAllLookup
  <2>4. /\ c.rest # <<>> /\ Head(c.rest) \in EntNames
        /\ Tail(c.rest) \in Seq(Names)
        /\ c.op = "MkdirAll" \/ HasFile(c)
    <3>1. c.rest # <<>> /\ (c.op = "MkdirAll" \/ HasFile(c))
      BY <1>2, <2>3 DEF Ready, Goal
    <3> QED BY <1>2, <3>1 DEF EntNames
  <2>5. ASSUME child # Nil
        PROVE  Keeps(loop, c) /\ Goal(loop) \notin RenameGoals
    <3>1. child \in Ents
      BY <1>2, <2>4, <2>5 DEF TreeTypeOK, Lookup
    <3> QED BY <1>2, <2>4, <3>1, MkdirAllLoopCall, MkdirAllLoopGoal
            DEF RenameGoals
  <2> HIDE DEF add, child, loop
  <2> QED BY <1>1, <1>3, <2>1, <2>2, <2>3, <2>5, DoneStill, GoesOnStill,
             StillStep DEF RenameGoals
<1> QED BY <1>4, <1>5

\* The steps of a removal that do not unlink.
LEMMA RemoveStill ==
    ASSUME TInv, PInv', NEW t \in Threads,
           \/ RemoveCheck(t) \/ RemoveClose(t)
           \/ RemoveAllAgain(t) \/ RemoveAllList(t) \/ RemoveAllNext(t)
    PROVE  TInv'
<1>1. PICK c : c = call[t]
  OBVIOUS
<1>2. c \in Calls /\ Ready(c) /\ c.path \in Seq(Names)
  BY <1>1, WalksTyped
<1>3. UNCHANGED <<kind, name, dirents>> /\ c.pc # "meta"
  BY <1>1 DEF RemoveCheck, RemoveClose, RemoveAllAgain, RemoveAllList,
          RemoveAllNext, treeVars
<1>4. CASE RemoveCheck(t)
  <2> DEFINE close == [c EXCEPT !.pc = "removeClose",
                                !.ent = Lookup(c.at, c.base)]
             err == RemoveErr(c)
  <2>1. \/ call' = [call EXCEPT ![t] = AfterRemove(c, err)]
        \/ call' = [call EXCEPT ![t] = close]
    BY <1>1, <1>4 DEF RemoveCheck
  <2>2. close.pc = "removeClose" /\ close.link = c.link /\ close.old = c.old
    BY <1>2 DEF Calls
  <2>3. err \in Errors
    BY DEF RemoveErr, Errors
  <2> HIDE DEF close, err
  <2>4. /\ Keeps(AfterRemove(c, err), c)
        /\ Goal(AfterRemove(c, err)) \notin RenameGoals
    BY <1>2, <2>3, AfterRemoveCall, AfterRemoveGoal DEF RenameGoals
  <2> QED BY <1>1, <1>3, <2>1, <2>2, <2>4, GoesOnStill, StillStep
          DEF RenameGoals
<1>5. CASE RemoveClose(t)
  <2>1. PICK err : call' = [call EXCEPT ![t] = [c EXCEPT !.pc = "removeUnlink",
                                                         !.err = err]]
    BY <1>1, <1>5 DEF RemoveClose
  <2> DEFINE d == [c EXCEPT !.pc = "removeUnlink", !.err = err]
  <2>2. d.pc = "removeUnlink" /\ d.link = c.link /\ d.old = c.old
    BY <1>2 DEF Calls
  <2>3. call' = [call EXCEPT ![t] = d]
    BY <2>1
  <2> HIDE DEF d
  <2> QED BY <1>1, <1>3, <2>2, <2>3, GoesOnStill DEF RenameGoals
<1>6. CASE RemoveAllAgain(t)
  <2> DEFINE d == [c EXCEPT !.op = "removeAllFrom"]
             f == FindParent(d, c.path, "remove")
  <2>1. call' = [call EXCEPT ![t] = f]
    BY <1>1, <1>6 DEF RemoveAllAgain
  <2>2. d \in Calls /\ d.link = c.link /\ d.old = c.old
    BY <1>2 DEF Calls
  <2> HIDE DEF d
  <2>3. "remove" \in Targets
    BY DEF Targets
  <2>4. Keeps(f, d) /\ Goal(f) \in {"remove", "idle", "again"}
    BY <1>2, <2>2, <2>3, FindParentCall, FindParentGoal
  <2>5. Keeps(f, c) /\ Goal(f) \notin RenameGoals
    BY <2>2, <2>4 DEF Keeps, RenameGoals
  <2> QED BY <1>1, <1>3, <2>1, <2>5, StillStep
<1>7. CASE RemoveAllList(t)
  <2>1. PICK s : \/ call' = [call EXCEPT ![t] = Done("panic")]
                 \/ call' = [call EXCEPT ![t] =
                       [c EXCEPT !.pc = "next", !.ent = Nil, !.stack = s]]
    BY <1>1, <1>7 DEF RemoveAllList
  <2> DEFINE d == [c EXCEPT !.pc = "next", !.ent = Nil, !.stack = s]
  <2>2. d.pc = "next" /\ d.link = c.link /\ d.old = c.old
    BY <1>2 DEF Calls
  <2>3. \/ call' = [call EXCEPT ![t] = Done("panic")]
        \/ call' = [call EXCEPT ![t] = d]
    BY <2>1
  <2> HIDE DEF d
  <2> QED BY <1>1, <1>3, <2>2, <2>3, DoneStill, GoesOnStill DEF RenameGoals
<1>8. CASE RemoveAllNext(t)
  <2> DEFINE top == Last(c.stack)
             pop == [c EXCEPT !.stack = Front(c.stack)]
             goes == [c EXCEPT !.pc = "remove", !.at = top.dir,
                           !.base = Head(top.names),
                           !.stack = Append(Front(c.stack),
                                [top EXCEPT !.names = Tail(@)])]
  <2>1. \/ call' = [call EXCEPT ![t] = Done("ok")]
        \/ call' = [call EXCEPT ![t] = pop]
        \/ call' = [call EXCEPT ![t] = goes]
    BY <1>1, <1>2, <1>8 DEF RemoveAllNext, Calls
  <2>2. /\ pop.pc = "next" /\ pop.link = c.link /\ pop.old = c.old
        /\ goes.pc = "remove" /\ goes.link = c.link /\ goes.old = c.old
    BY <1>1, <1>2, <1>8 DEF Calls, RemoveAllNext
  <2> HIDE DEF pop, goes
  <2> QED BY <1>1, <1>3, <2>1, <2>2, DoneStill, GoesOnStill DEF RenameGoals
<1> QED BY <1>4, <1>5, <1>6, <1>7, <1>8

\* The steps of addFile and Reallocate that do not link.
LEMMA AddStill ==
    ASSUME TInv, PInv', NEW t \in Threads,
           AddLookup(t) \/ AddClose(t) \/ ReallocMeta(t)
    PROVE  TInv'
<1>1. PICK c : c = call[t]
  OBVIOUS
<1>2. c \in Calls
  BY <1>1, WalksTyped
<1>3. UNCHANGED <<kind, name, dirents>>
  BY DEF AddLookup, AddClose, ReallocMeta, treeVars
<1>4. CASE AddLookup(t)
  <2> DEFINE parent == Found(c)
             link == [c EXCEPT !.pc = "addLink", !.at = parent]
             close == [c EXCEPT !.pc = "addClose", !.at = parent,
                                !.ent = Lookup(parent, Base(c.path))]
  <2>1. \/ \E err : call' = [call EXCEPT ![t] = Done(err)]
        \/ call' = [call EXCEPT ![t] = link]
        \/ call' = [call EXCEPT ![t] = close]
    BY <1>1, <1>4 DEF AddLookup
  <2>2. /\ link.pc = "addLink" /\ link.link = c.link /\ link.old = c.old
        /\ close.pc = "addClose" /\ close.link = c.link /\ close.old = c.old
    BY <1>2 DEF Calls
  <2>3. c.pc # "meta"
    BY <1>1, <1>4 DEF AddLookup
  <2> HIDE DEF link, close
  <2> QED BY <1>1, <1>3, <2>1, <2>2, <2>3, DoneStill, GoesOnStill
          DEF RenameGoals
<1>5. CASE AddClose(t)
  <2> DEFINE link == [c EXCEPT !.pc = "addLink", !.ent = Nil]
  <2>1. call' = [call EXCEPT ![t] = link] /\ c.pc # "meta"
    BY <1>1, <1>5 DEF AddClose
  <2>2. link.pc = "addLink" /\ link.link = c.link /\ link.old = c.old
    BY <1>2 DEF Calls
  <2> HIDE DEF link
  <2> QED BY <1>1, <1>3, <2>1, <2>2, GoesOnStill DEF RenameGoals
<1>6. CASE ReallocMeta(t)
  <2>1. \E err : call' = [call EXCEPT ![t] = Done(err)]
    BY <1>6 DEF ReallocMeta
  <2> QED BY <1>3, <2>1, DoneStill
<1> QED BY <1>4, <1>5, <1>6

-----------------------------------------------------------------------------
(***************************************************************************)
(* The steps that allocate, link or unlink an entry, those of a Rename     *)
(* apart.                                                                  *)
(***************************************************************************)
\* Allocation changes no dirent that exists.
LEMMA NewDirentKeeps ==
    ASSUME TreeTypeOK, NEW e \in Ents, NEW k, NEW n, NEW m,
           NewDirent(e, k, n, m)
    PROVE  kind[e] = "none" /\ KindsKept
BY DEF NewDirent, TreeTypeOK, KindsKept

\* What every step may rely on about the tree.
LEMMA TreeFacts ==
    ASSUME TInv, PInv'
    PROVE  TreeTypeOK /\ TreeTypeOK' /\ DirsConsistent /\ IInv
BY DEF TInv, PInv, IInv, TypeOK

\* An operation that is no Rename links an entry of its own and has it no more.
LEMMA LinkStep ==
    ASSUME TInv, PInv', NEW t \in Threads, NEW d,
           call' = [call EXCEPT ![t] = d], Goal(d) \notin RenameGoals,
           NEW u \in Ents, Own(t, u), KindsKept,
           AddDirent(call[t].at, u),
           Pending(d) => Own(t, d.link) /\ d.link # u
    PROVE  TInv'
<1>1. call[t].at \in Ents /\ kind[call[t].at] = "dir"
  BY WalksTyped
<1>2. Puts(t, d, call[t].at, {u})
  BY <1>1, TreeFacts, AddDirentLinks DEF Puts
<1>3. Moving(t, d)'
  BY DEF Moving
<1> QED BY <1>1, <1>2, <1>3, PutsStep

\* Mkdir links a directory nobody else knows.
LEMMA MkdirAddTree ==
    ASSUME TInv, PInv', NEW t \in Threads, MkdirAdd(t)
    PROVE  TInv'
<1>1. /\ Fresh \in Ents /\ AddDirent(call[t].at, Fresh)
      /\ NewDirent(Fresh, "dir", Base(call[t].path), call[t].perm \ Umask)
      /\ call' = [call EXCEPT ![t] = Done("ok")]
  BY FreshType DEF MkdirAdd
<1>2. kind[Fresh] = "none" /\ KindsKept
  BY <1>1, TreeFacts, NewDirentKeeps
<1>3. Goal(Done("ok")) \notin RenameGoals /\ ~Pending(Done("ok"))
  BY DoneGoal DEF RenameGoals, Pending
<1> HIDE DEF Fresh
<1> QED BY <1>1, <1>2, <1>3, LinkStep DEF Own

\* So does MkdirAll.
LEMMA MkdirAllAddTree ==
    ASSUME TInv, PInv', NEW t \in Threads, MkdirAllAdd(t)
    PROVE  TInv'
<1>1. PICK c : c = call[t]
  OBVIOUS
<1>2. c \in Calls /\ Ready(c) /\ c.rest \in Seq(Names) /\ Held(c)
  BY <1>1, WalksTyped, CallFacts, TreeFacts
<1> DEFINE loop == MkdirAllLoop(c, Fresh, Tail(c.rest))
<1>3. /\ Fresh \in Ents /\ AddDirent(call[t].at, Fresh) /\ c.pc = "mkdirAllAdd"
      /\ NewDirent(Fresh, "dir", Head(c.rest), c.perm \ Umask)
      /\ \/ call' = [call EXCEPT ![t] = Done("EACCES")]
         \/ call' = [call EXCEPT ![t] = loop]
  BY <1>1, FreshType DEF MkdirAllAdd
<1>4. kind[Fresh] = "none" /\ KindsKept
  BY <1>3, TreeFacts, NewDirentKeeps
<1>5. Goal(Done("EACCES")) \notin RenameGoals /\ ~Pending(Done("EACCES"))
  BY DoneGoal DEF RenameGoals, Pending
<1>6. Keeps(loop, c) /\ Goal(loop) \notin RenameGoals
  <2>1. c.rest # <<>> /\ (c.op = "MkdirAll" \/ HasFile(c))
    BY <1>2, <1>3 DEF Ready, Goal
  <2>2. Tail(c.rest) \in Seq(Names)
    BY <1>2, <2>1
  <2> QED BY <1>2, <1>3, <2>1, <2>2, MkdirAllLoopCall, MkdirAllLoopGoal
          DEF RenameGoals
<1> HIDE DEF loop, Fresh
<1>7. Pending(loop) => Own(t, loop.link) /\ loop.link # Fresh
  BY <1>1, <1>2, <1>3, <1>4, <1>6 DEF Pending, Own, Keeps, Held
<1> QED BY <1>3, <1>4, <1>5, <1>6, <1>7, LinkStep DEF Own

\* OpenFile and addFile link the file they made.
LEMMA LinkTree ==
    ASSUME TInv, PInv', NEW t \in Threads, OpenLink(t) \/ AddLink(t)
    PROVE  TInv'
<1>1. PICK c : c = call[t]
  OBVIOUS
<1>2. c \in Calls /\ Ready(c) /\ TreeTypeOK
  BY <1>1, WalksTyped, TreeFacts
<1> DEFINE meta == [c EXCEPT !.pc = "meta"]
<1>3. /\ AddDirent(call[t].at, c.link) /\ c.pc \in {"openLink", "addLink"}
      /\ UNCHANGED <<kind, name>>
      /\ \/ call' = [call EXCEPT ![t] = Done("ok")]
         \/ call' = [call EXCEPT ![t] = meta]
  BY <1>1 DEF OpenLink, AddLink
<1>4. c.link \in Ents /\ Own(t, c.link)
  <2>1. c.link # Nil
    BY <1>2, <1>3 DEF Ready, Goal, HasFile
  <2> QED BY <1>1, <1>2, <1>3, <2>1 DEF Own, Pending, Calls
<1>5. Goal(Done("ok")) \notin RenameGoals /\ ~Pending(Done("ok"))
  BY DoneGoal DEF RenameGoals, Pending
<1>6. Goal(meta) \notin RenameGoals /\ ~Pending(meta)
  BY <1>2 DEF Calls, Goal, RenameGoals, Pending
<1>7. KindsKept
  BY <1>3 DEF KindsKept
<1> HIDE DEF meta
<1> QED BY <1>3, <1>4, <1>5, <1>6, <1>7, LinkStep

\* A file that is made: the operation has it for its own.
LEMMA NewFileStep ==
    ASSUME TInv, PInv', NEW t \in Threads, NEW d,
           call' = [call EXCEPT ![t] = d], Goal(d) \notin RenameGoals,
           NEW f \in Ents, NEW n, NEW m, NewDirent(f, "file", n, m),
           UNCHANGED dirents, d.link \in {f, Nil}
    PROVE  TInv'
<1>1. kind[f] = "none" /\ KindsKept
  BY TreeFacts, NewDirentKeeps
<1>2. Pending(d) => Own(t, d.link)
  BY <1>1 DEF Pending, Own
<1>3. Puts(t, d, Root, {})
  BY <1>1, <1>2, StillPuts
<1>4. Moving(t, d)'
  BY DEF Moving
<1> QED BY <1>3, <1>4, PutsStep, DirsAssumption

\* OpenFile makes a file or only looks.
LEMMA OpenTree ==
    ASSUME TInv, PInv', NEW t \in Threads, OpenExisting(t) \/ OpenCreate(t)
    PROVE  TInv'
<1> DEFINE d == [call[t] EXCEPT !.pc = "openLink", !.link = Fresh]
<1>1. \/ /\ \E err : call' = [call EXCEPT ![t] = Done(err)]
         /\ UNCHANGED <<kind, name, dirents>>
      \/ /\ Fresh \in Ents /\ UNCHANGED dirents
         /\ NewDirent(Fresh, "file", call[t].base, call[t].perm)
         /\ call' = [call EXCEPT ![t] = d]
  BY FreshType DEF OpenExisting, OpenCreate, treeVars
<1>2. call[t] \in Calls
  BY WalksTyped
<1>3. d.link = Fresh /\ Goal(d) \notin RenameGoals
  BY <1>2 DEF Calls, Goal, RenameGoals
<1> HIDE DEF d, Fresh
<1> QED BY <1>1, <1>3, DoneStill, NewFileStep

\* Reallocate makes a file or returns.
LEMMA ReallocTree ==
    ASSUME TInv, PInv', NEW t \in Threads, ReallocCopy(t)
    PROVE  TInv'
<1>1. PICK c : c = call[t]
  OBVIOUS
<1>2. c \in Calls /\ c.path \in Seq(Names) /\ TreeTypeOK
  BY <1>1, WalksTyped, TreeFacts
<1> DEFINE r == [c EXCEPT !.link = Fresh, !.old = Found(c)]
           d == MkdirAll(r, Dir(c.path))
<1>3. \/ /\ \E err : call' = [call EXCEPT ![t] = Done(err)]
         /\ UNCHANGED <<kind, name, dirents>>
      \/ /\ Fresh \in Ents /\ UNCHANGED dirents /\ ReallocErr(Found(c)) = "ok"
         /\ NewDirent(Fresh, "file", Base(c.path), Bits)
         /\ call' = [call EXCEPT ![t] = d]
  BY <1>1, FreshType DEF ReallocCopy, treeVars
<1>4. CASE /\ \E err : call' = [call EXCEPT ![t] = Done(err)]
           /\ UNCHANGED <<kind, name, dirents>>
  BY <1>4, DoneStill
<1>5. CASE /\ Fresh \in Ents /\ UNCHANGED dirents /\ ReallocErr(Found(c)) = "ok"
           /\ NewDirent(Fresh, "file", Base(c.path), Bits)
           /\ call' = [call EXCEPT ![t] = d]
  <2>1. Found(c) \in Ents
    BY <1>2, <1>5, FoundType DEF ReallocErr
  <2>2. r \in Calls /\ r.link = Fresh /\ r.old = Found(c)
    BY <1>2, <1>5, <2>1 DEF Calls
  <2>3. HasFile(r)
    BY <1>5, <2>1, <2>2, DirsAssumption DEF HasFile
  <2>4. Dir(c.path) \in Seq(Names)
    BY <1>2, PathTypes
  <2> HIDE DEF r, Fresh
  <2>5. Keeps(d, r) /\ Goal(d) \notin RenameGoals
    BY <2>2, <2>3, <2>4, MkdirAllCall, MkdirAllGoal DEF RenameGoals
  <2>6. d.link \in {Fresh, Nil}
    BY <2>2, <2>5 DEF Keeps
  <2> HIDE DEF d
  <2> QED BY <1>5, <2>5, <2>6, NewFileStep
<1> QED BY <1>3, <1>4, <1>5

\* A removal only takes entries away.
LEMMA RemoveUnlinkTree ==
    ASSUME TInv, PInv', NEW t \in Threads, RemoveUnlink(t)
    PROVE  TInv'
<1>1. PICK c : c = call[t]
  OBVIOUS
<1>2. /\ c \in Calls /\ c.at \in Ents /\ kind[c.at] = "dir" /\ c.base \in EntNames
      /\ TreeTypeOK /\ TreeTypeOK' /\ DirsConsistent
  BY <1>1, WalksTyped, TreeFacts
<1> DEFINE r == [c EXCEPT !.err = "ok"]
           d == AfterRemove(r, c.err)
<1>3. /\ call' = [call EXCEPT ![t] = d] /\ c.pc = "removeUnlink"
      /\ RemoveName(c.at, c.base) /\ UNCHANGED <<kind, name>>
  BY <1>1 DEF RemoveUnlink
<1>4. r \in Calls /\ r.link = c.link /\ r.old = c.old /\ c.err \in Errors
  BY <1>2 DEF Calls, Errors
<1> HIDE DEF r
<1>5. Keeps(d, r) /\ Goal(d) \notin RenameGoals
  BY <1>4, AfterRemoveCall, AfterRemoveGoal DEF RenameGoals
<1>6. Pending(d) => Own(t, d.link)
  BY <1>1, <1>3, <1>4, <1>5 DEF Keeps, Pending, Own
<1> HIDE DEF d
<1>7. KindsKept
  BY <1>3 DEF KindsKept
<1>8. Puts(t, d, c.at, {})
  BY <1>2, <1>3, <1>6, <1>7, RemoveNameUnlinks DEF Puts
<1>9. Moving(t, d)'
  BY <1>5 DEF Moving
<1> QED BY <1>2, <1>8, <1>9, PutsStep

-----------------------------------------------------------------------------
(***************************************************************************)
(* The walks of a Rename.                                                  *)
(***************************************************************************)
\* A walk that arrives is still along its path.
LEMMA ArriveAlong ==
    ASSUME NEW w \in Calls, w.next \in Targets, NEW p \in Seq(Names),
           Len(w.rest) \in 1..Len(p),
           \A i \in 1..Len(w.rest) : w.rest[i] = p[Len(p) - Len(w.rest) + i]
    PROVE  /\ Behind(Arrive(w), p) = Len(p) - Len(w.rest)
           /\ Along(Arrive(w), p)
           /\ Arrive(w).path = w.path /\ Arrive(w).to = w.to
           /\ Arrive(w).at = w.at /\ Arrive(w).base = w.base
           /\ Arrive(w).from = w.from /\ Arrive(w).old = w.old
           /\ Arrive(w).link = w.link
           /\ Arrive(w).pc = "walk" => Arrive(w).rest = w.rest
<1> DEFINE there == [w EXCEPT !.pc = w.next, !.rest = <<>>]
           walk == [w EXCEPT !.pc = "walk"]
<1>1. Len(w.rest) \in Nat /\ Len(p) \in Nat
  BY DEF Calls
<1>2. CASE Len(w.rest) = 1
  <2>1. /\ there.pc = w.next /\ there.pc # "walk"
        /\ there.path = w.path /\ there.to = w.to
        /\ there.at = w.at /\ there.base = w.base
        /\ there.from = w.from /\ there.old = w.old /\ there.link = w.link
    BY DEF Calls, Targets
  <2>2. Arrive(w) = there
    BY <1>2 DEF Arrive
  <2> HIDE DEF there
  <2> QED BY <1>2, <2>1, <2>2 DEF Behind, Along
<1>3. CASE Len(w.rest) > 1
  <2>1. /\ walk.pc = "walk" /\ walk.rest = w.rest
        /\ walk.path = w.path /\ walk.to = w.to
        /\ walk.at = w.at /\ walk.base = w.base
        /\ walk.from = w.from /\ walk.old = w.old /\ walk.link = w.link
    BY DEF Calls
  <2>2. Arrive(w) = walk
    BY <1>1, <1>3 DEF Arrive
  <2> HIDE DEF walk
  <2>3. Len(w.rest) <= Len(p)
    BY <1>1, \A k \in Nat, m \in Nat : k \in 1..m => k <= m
  <2>4. Along(walk, p)
    BY <2>1, <2>3 DEF Along
  <2> QED BY <2>1, <2>2, <2>4 DEF Behind
<1> HIDE DEF there, walk
<1>4. Len(w.rest) = 1 \/ Len(w.rest) > 1
  BY <1>1, \A k \in Nat, m \in Nat : k \in 1..m => k = 1 \/ k > 1
<1> QED BY <1>2, <1>3, <1>4

\* A lookup leads to an entry that is where it was found and nowhere else.
LEMMA LookupTrail ==
    ASSUME TInv, NEW d \in Ents, NEW n \in EntNames, NEW e,
           e = Lookup(d, n), e # Nil
    PROVE  /\ e \in Ents /\ e \in Kids[d] /\ e # Root /\ kind[e] # "none"
           /\ name[e] = n
           /\ \A x \in Ents : e \in Kids[x] => x = d
           /\ \A u \in Threads : Pending(call[u]) => call[u].link # e
<1>1. TreeTypeOK /\ DirsConsistent /\ ListedAllocated
  BY DEF TInv, PInv, IInv, TypeOK
<1>2. e \in Ents /\ e \in Kids[d] /\ name[e] = n /\ kind[e] # "none"
  BY <1>1, LookupAllocated, LookupKid
<1>3. e # Root /\ \A x \in Ents : e \in Kids[x] => x = d
  BY <1>2 DEF TInv, Forest, Apart
<1>4. \A u \in Threads : Pending(call[u]) => call[u].link # e
  BY <1>2 DEF TInv, PendingApart, Apart
<1> QED BY <1>2, <1>3, <1>4

\* A trail goes on with the entry that a walk looked up.
LEMMA TrailGrows ==
    ASSUME TInv, NEW A \in Trails, NEW p \in Seq(Names), NEW m \in Nat,
           m < Len(p), Trail(A, p, m), A[m] \in Ents,
           NEW e, e = Lookup(A[m], p[m + 1]), e # Nil
    PROVE  /\ [A EXCEPT ![m + 1] = e] \in Trails
           /\ Trail([A EXCEPT ![m + 1] = e], p, m + 1)
<1> DEFINE B == [A EXCEPT ![m + 1] = e]
<1>1. p[m + 1] \in EntNames
  BY DEF EntNames
<1>2. /\ e \in Ents /\ e # Root /\ kind[e] # "none" /\ name[e] = p[m + 1]
      /\ \A x \in Ents : e \in Kids[x] => x = A[m]
      /\ \A u \in Threads : Pending(call[u]) => call[u].link # e
  BY <1>1, LookupTrail
<1>3. B \in Trails /\ B[m + 1] = e /\ \A i \in 0..m : B[i] = A[i]
  BY <1>2 DEF Trails
<1> HIDE DEF B
<1>4. B[0] = Root
  BY <1>3 DEF Trail
<1>5. ASSUME NEW i \in 1..(m + 1)
      PROVE  /\ B[i] # Root /\ kind[B[i]] # "none" /\ name[B[i]] = p[i]
             /\ \A x \in Ents : B[i] \in Kids[x] => x = B[i - 1]
             /\ \A u \in Threads : Pending(call[u]) => call[u].link # B[i]
  <2>1. CASE i = m + 1
    <3>1. B[i] = e /\ B[i - 1] = A[m]
      BY <1>3, <2>1
    <3> QED BY <1>2, <2>1, <3>1
  <2>2. CASE i \in 1..m
    <3>1. B[i] = A[i] /\ B[i - 1] = A[i - 1]
      BY <1>3, <2>2
    <3> QED BY <2>2, <3>1 DEF Trail
  <2> QED BY <2>1, <2>2
<1>6. Trail(B, p, m + 1)
  BY <1>4, <1>5 DEF Trail
<1> QED BY <1>3, <1>6 DEF B

\* Paths that have the components of p in common are below p.
LEMMA PrefixByComponents ==
    ASSUME NEW p \in Seq(Names), NEW q \in Seq(Names), Len(p) <= Len(q),
           \A i \in 1..Len(p) : q[i] = p[i]
    PROVE  IsPrefix(p, q)
<1> DEFINE s == SubSeq(p, 1, Len(p))
           r == SubSeq(q, 1, Len(p))
<1>1. Len(p) \in Nat /\ Len(q) \in Nat
  OBVIOUS
<1>2. s \in Seq(Names) /\ r \in Seq(Names) /\ Len(s) = Len(p) /\ Len(r) = Len(p)
  BY <1>1
<1>3. \A i \in 1..Len(p) : s[i] = p[i] /\ r[i] = q[i]
  BY <1>1
<1>4. s = r
  BY <1>2, <1>3, SeqEqual
<1> QED BY <1>4 DEF IsPrefix

-----------------------------------------------------------------------------
(***************************************************************************)
(* The steps of a Rename.                                                  *)
(***************************************************************************)
\* A step that leaves the directories alone, by which the Rename of t gets to d.
LEMMA RenameStill ==
    ASSUME TInv, PInv', NEW t \in Threads, NEW d \in Calls,
           call' = [call EXCEPT ![t] = d], UNCHANGED <<kind, name, dirents>>,
           d.link \in {call[t].link, Nil}, call[t].pc # "meta",
           Goal(d) \in RenameGoals \ {"renameLink"}, "Rename" \in Ops[t],
           d.path # <<>>, d.to # <<>>, ~IsPrefix(d.path, d.to),
           d.path \in Seq(Names), d.rest \in Seq(Names), d.at \in Ents,
           Goal(d) # "renameOld" => d.old \in Ents, NEW A \in Trails,
           Goal(d) = "renameOld" => FirstWalk(d, A),
           Goal(d) # "renameOld" => SecondWalk(d, A)
    PROVE  TInv'
<1>1. KindsKept /\ (Pending(d) => Own(t, d.link))
  BY DEF KindsKept, Pending, Own
<1>2. Puts(t, d, Root, {})
  BY <1>1, StillPuts
<1>3. /\ FirstWalk(d, A) => FirstWalk(d, A)'
      /\ SecondWalk(d, A) /\ d.old \in Ents => SecondWalk(d, A)'
  <2>1. {} \in SUBSET Ents /\ Root \in Ents /\ d.at \in Ents \ {}
    BY DirsAssumption
  <2> QED BY <1>2, <2>1, PutsWalks
<1>4. Moving(t, d)'
  BY <1>3 DEF Moving
<1> QED BY <1>2, <1>4, PutsStep, DirsAssumption

\* The walk to the parent of the old name finds one more component.
LEMMA FirstWalkGrows ==
    ASSUME TInv, NEW c \in Calls, c.pc = "walk", c.next \in Targets,
           c.path \in Seq(Names), c.rest \in Seq(Names), Len(c.rest) > 1,
           NEW A \in Trails, FirstWalk(c, A), NEW child \in Ents,
           child = Lookup(c.at, Head(c.rest)),
           NEW w \in Calls, w = [c EXCEPT !.at = child, !.rest = Tail(c.rest)]
    PROVE  \E B \in Trails : FirstWalk(Arrive(w), B)
<1> DEFINE p == c.path
           n == Len(c.path)
           k == Len(c.rest)
           m == n - k
           B == [A EXCEPT ![m + 1] = child]
<1>1. n \in Nat /\ k \in Nat /\ k > 1
  OBVIOUS
<1>2. k <= n /\ \A i \in 1..k : c.rest[i] = p[m + i]
  BY DEF FirstWalk, Along
<1>3. Behind(c, p) = m /\ Trail(A, p, m) /\ A[m] = c.at /\ c.base = Base(p)
  BY DEF FirstWalk, Behind
<1>4. /\ w.path = p /\ w.at = child /\ w.base = c.base /\ w.next = c.next
      /\ w.rest = Tail(c.rest)
  BY DEF Calls
<1>5. /\ w.rest \in Seq(Names) /\ Len(w.rest) = k - 1
      /\ \A i \in 1..(k - 1) : w.rest[i] = c.rest[i + 1]
      /\ Head(c.rest) = c.rest[1]
  BY <1>4, <1>1
<1> HIDE DEF n, k
<1>6. m \in Nat /\ m < n /\ Len(w.rest) \in 1..n /\ n - Len(w.rest) = m + 1
  BY <1>1, <1>2, <1>5
<1>7. \A i \in 1..(k - 1) : w.rest[i] = p[n - (k - 1) + i]
  <2> TAKE i \in 1..(k - 1)
  <2>1. i + 1 \in 1..k /\ m + (i + 1) = n - (k - 1) + i
    <3>1. i \in Int /\ 1 <= i /\ i <= k - 1
      BY <1>1
    <3>2. i + 1 \in 1..k
      BY <1>1, <3>1
    <3>3. m + (i + 1) = n - (k - 1) + i
      BY <1>1, <3>1
    <3> QED BY <3>2, <3>3
  <2> QED BY <1>2, <1>5, <2>1
<1>8. child = Lookup(A[m], p[m + 1]) /\ child # Nil
  BY <1>1, <1>2, <1>3, <1>5, DirsAssumption
<1>9. A[m] \in Ents
  BY <1>6 DEF Trails
<1>10. B \in Trails /\ Trail(B, p, m + 1)
  BY <1>3, <1>6, <1>8, <1>9, TrailGrows DEF n
<1>11. B[m + 1] = child
  BY <1>6 DEF Trails
<1> DEFINE r == Arrive(w)
<1>12. /\ Behind(r, p) = n - Len(w.rest) /\ Along(r, p)
       /\ r.path = w.path /\ r.at = w.at /\ r.base = w.base
  <2>1. \A i \in 1..Len(w.rest) : w.rest[i] = p[n - Len(w.rest) + i]
    BY <1>5, <1>7
  <2> QED BY <1>4, <1>6, <2>1, ArriveAlong DEF n
<1> HIDE DEF r, B
<1>13. FirstWalk(r, B)
  BY <1>3, <1>4, <1>6, <1>10, <1>11, <1>12 DEF FirstWalk
<1> QED BY <1>10, <1>13 DEF r

\* So does the walk to the parent of the new name.  To enter the old target it
\* would have to come from the parent of the old name, by the same components,
\* and then the new path would be below the old one.
LEMMA SecondWalkGrows ==
    ASSUME TInv, NEW c \in Calls, c.pc = "walk", c.next \in Targets,
           c.path \in Seq(Names), c.to \in Seq(Names), c.rest \in Seq(Names),
           Len(c.rest) > 1, c.path # <<>>, ~IsPrefix(c.path, c.to),
           c.at \in Ents, c.old \in Ents,
           NEW A \in Trails, SecondWalk(c, A), NEW child \in Ents,
           child = Lookup(c.at, Head(c.rest)),
           NEW w \in Calls, w = [c EXCEPT !.at = child, !.rest = Tail(c.rest)]
    PROVE  SecondWalk(Arrive(w), A)
<1> DEFINE p == c.path
           q == c.to
           n == Len(c.path)
           l == Len(c.to)
           k == Len(c.rest)
           m == l - k
<1>1. n \in Nat /\ n > 0 /\ l \in Nat /\ k \in Nat /\ k > 1
  OBVIOUS
<1>2. k <= l /\ \A i \in 1..k : c.rest[i] = q[m + i]
  BY DEF SecondWalk, Along
<1>3. /\ Behind(c, q) = m /\ Trail(A, p, n) /\ A[n] = c.old
      /\ A[n - 1] = c.from /\ Outside(Kids, c.old, c.at)
      /\ \A j \in 0..(n - 1) : c.at = A[j] =>
            m = j /\ \A i \in 1..j : q[i] = p[i]
  BY DEF SecondWalk, Behind
<1>4. /\ w.path = p /\ w.to = q /\ w.at = child /\ w.old = c.old
      /\ w.from = c.from /\ w.next = c.next /\ w.rest = Tail(c.rest)
  BY DEF Calls
<1>5. /\ w.rest \in Seq(Names) /\ Len(w.rest) = k - 1
      /\ \A i \in 1..(k - 1) : w.rest[i] = c.rest[i + 1]
      /\ Head(c.rest) = c.rest[1] /\ Head(c.rest) \in EntNames
  BY <1>4, <1>1 DEF EntNames
<1> HIDE DEF n, k, l
<1>6. m \in Nat /\ m < l /\ Len(w.rest) \in 1..l /\ l - Len(w.rest) = m + 1
  BY <1>1, <1>2, <1>5
<1>7. \A i \in 1..(k - 1) : w.rest[i] = q[l - (k - 1) + i]
  <2> TAKE i \in 1..(k - 1)
  <2>1. i + 1 \in 1..k /\ m + (i + 1) = l - (k - 1) + i
    <3>1. i \in Int /\ 1 <= i /\ i <= k - 1
      BY <1>1
    <3>2. i + 1 \in 1..k
      BY <1>1, <3>1
    <3>3. m + (i + 1) = l - (k - 1) + i
      BY <1>1, <3>1
    <3> QED BY <3>2, <3>3
  <2> QED BY <1>2, <1>5, <2>1
<1>8. /\ child \in Kids[c.at] /\ child # Root
      /\ name[child] = q[m + 1]
      /\ \A x \in Ents : child \in Kids[x] => x = c.at
  <2>1. child # Nil
    BY DirsAssumption
  <2>2. Head(c.rest) = q[m + 1]
    <3>1. 1 \in 1..k
      BY <1>1
    <3> QED BY <1>2, <1>5, <3>1
  <2> QED BY <1>5, <2>1, <2>2, LookupTrail
<1>9. ASSUME NEW j \in 0..n, child = A[j]
      PROVE  j < n /\ m + 1 = j /\ \A i \in 1..j : q[i] = p[i]
  <2>1. j \in 1..n
    BY <1>1, <1>3, <1>8, <1>9 DEF Trail
  <2>2. c.at = A[j - 1] /\ name[child] = p[j]
    BY <1>3, <1>8, <1>9, <2>1 DEF Trail
  <2>3. j - 1 \in 0..(n - 1)
    BY <1>1, <2>1
  <2>4. m = j - 1 /\ \A i \in 1..(j - 1) : q[i] = p[i]
    BY <1>3, <2>2, <2>3
  <2>5. m + 1 = j
    BY <2>1, <2>4
  <2>6. \A i \in 1..j : q[i] = p[i]
    <3>1. q[j] = p[j]
      BY <1>8, <2>2, <2>5
    <3>2. \A i \in 1..j : i = j \/ i \in 1..(j - 1)
      BY <2>1
    <3> QED BY <2>4, <3>1, <3>2
  <2>7. j # n
    <3> SUFFICES ASSUME j = n PROVE FALSE
      OBVIOUS
    <3>1. n <= l
      BY <1>1, <1>6, <2>5
    <3> QED BY <2>6, <3>1, PrefixByComponents DEF n, l
  <2> QED BY <1>1, <2>1, <2>5, <2>6, <2>7
<1>10. Outside(Kids, c.old, child)
  <2>1. child # c.old
    BY <1>1, <1>3, <1>9
  <2> QED BY <1>3, <1>8, <2>1, OutsideChild DEF TInv
<1> DEFINE r == Arrive(w)
<1>11. /\ Behind(r, q) = m + 1 /\ Along(r, q)
       /\ r.path = w.path /\ r.to = w.to /\ r.at = w.at /\ r.old = w.old
       /\ r.from = w.from
  <2>1. \A i \in 1..Len(w.rest) : w.rest[i] = q[l - Len(w.rest) + i]
    BY <1>5, <1>7
  <2>2. Behind(r, q) = l - Len(w.rest) /\ Along(r, q)
        /\ r.path = w.path /\ r.to = w.to /\ r.at = w.at /\ r.old = w.old
        /\ r.from = w.from
    BY <1>4, <1>6, <2>1, ArriveAlong DEF l
  <2> QED BY <1>6, <2>2
<1>12. \A j \in 0..(n - 1) : child = A[j] =>
          m + 1 = j /\ \A i \in 1..j : q[i] = p[i]
  <2> TAKE j \in 0..(n - 1)
  <2>1. j \in 0..n
    BY <1>1
  <2> QED BY <1>9, <2>1
<1> HIDE DEF r
<1>13. SecondWalk(r, A)
  BY <1>3, <1>4, <1>10, <1>11, <1>12 DEF SecondWalk, n
<1> QED BY <1>13 DEF r

\* A step of a walk, of a Rename or of another operation.
LEMMA WalkTree ==
    ASSUME TInv, PInv', NEW t \in Threads, Walk(t)
    PROVE  TInv'
<1>1. PICK c : c = call[t]
  OBVIOUS
<1>2. /\ c \in Calls /\ Ready(c) /\ c.path \in Seq(Names) /\ c.to \in Seq(Names)
      /\ c.rest \in Seq(Names) /\ c.at \in Ents /\ TreeTypeOK
      /\ c.old # Nil => c.old \in Ents
  BY <1>1, WalksTyped, TreeFacts
<1> DEFINE child == Lookup(c.at, Head(c.rest))
           w == [c EXCEPT !.at = child, !.rest = Tail(c.rest)]
<1>3. /\ call' = [call EXCEPT ![t] =
            IF SearchErr(child) # "ok" THEN Return(c, SearchErr(child))
            ELSE Arrive(w)]
      /\ UNCHANGED <<kind, name, dirents>> /\ c.pc = "walk"
  BY <1>1 DEF Walk, treeVars
<1>4. /\ c.rest # <<>> /\ Head(c.rest) \in EntNames /\ Tail(c.rest) \in Seq(Names)
      /\ c.next \in Targets /\ Len(c.rest) > 1
  <2>1. Len(c.rest) > 1 /\ c.next \in Targets
    BY <1>2, <1>3 DEF Ready
  <2> QED BY <1>2, <2>1 DEF EntNames
<1>5. CASE SearchErr(child) # "ok"
  <2>1. call' = [call EXCEPT ![t] = Return(c, SearchErr(child))]
    BY <1>3, <1>5
  <2>2. SearchErr(child) \in Errors /\ c.pc # "meta"
    BY <1>3, SearchErrType
  <2> HIDE DEF child
  <2> QED BY <1>1, <1>3, <2>1, <2>2, ReturnStill
<1>6. CASE SearchErr(child) = "ok"
  <2>1. child \in Ents
    BY <1>2, <1>4, <1>6 DEF SearchErr, TreeTypeOK, Lookup
  <2>2. /\ w \in Calls /\ w.rest = Tail(c.rest) /\ w.path = c.path /\ w.to = c.to
        /\ w.next = c.next /\ w.link = c.link /\ w.old = c.old /\ w.op = c.op
        /\ w.at = child
    BY ZenonT(40), <2>1, <1>2, <1>4 DEF Calls
  <2>3. call' = [call EXCEPT ![t] = Arrive(w)]
    BY <1>3, <1>6
  <2>4. PICK x : x = child
    OBVIOUS
  <2>5. PICK v : v = w
    OBVIOUS
  <2>6. x \in Ents /\ x = Lookup(c.at, Head(c.rest))
    BY <2>1, <2>4
  <2>7. v \in Calls /\ v = [c EXCEPT !.at = x, !.rest = Tail(c.rest)]
    BY <2>2, <2>4, <2>5
  <2> HIDE DEF w, child
  <2> DEFINE r == Arrive(v)
  <2>8. r \in Calls /\ Keeps(r, c) /\ Goal(r) = c.next /\ Goal(c) = c.next
    <3>1. c.next = "add" => HasFile(v)
      BY <1>2, <1>3, <2>2, <2>5 DEF Ready, Goal, HasFile
    <3>2. c.next = "renameNew" => v.old # Nil
      BY <1>2, <1>3, <2>2, <2>5 DEF Ready, Goal
    <3>3. r \in Calls /\ Keeps(r, v) /\ Goal(r) = c.next
      BY <1>4, <2>2, <2>5, <3>1, <3>2, ArriveCall, ArriveGoal
    <3> QED BY <1>3, <2>2, <2>5, <3>3 DEF Keeps, Goal
  <2>9. CASE c.next \notin RenameGoals
    <3> HIDE DEF r
    <3> QED BY <1>1, <1>3, <2>3, <2>5, <2>8, <2>9, StillStep DEF r
  <2>10. CASE c.next \in RenameGoals
    <3>1. /\ Moving(t, c) /\ c.next \in {"renameOld", "renameNew"}
          /\ c.next # "renameLink"
      BY <1>1, <1>4, <2>10 DEF TInv, Targets, RenameGoals
    <3>2. /\ "Rename" \in Ops[t] /\ c.path # <<>> /\ c.to # <<>>
          /\ ~IsPrefix(c.path, c.to)
      BY <2>8, <2>10, <3>1 DEF Moving
    <3>3. r.path = c.path /\ r.to = c.to /\ r.at = x
      <4> DEFINE there == [v EXCEPT !.pc = v.next, !.rest = <<>>]
                 walk == [v EXCEPT !.pc = "walk"]
      <4>1. /\ there.path = v.path /\ there.to = v.to /\ there.at = v.at
            /\ walk.path = v.path /\ walk.to = v.to /\ walk.at = v.at
        BY <2>7 DEF Calls
      <4>2. r \in {there, walk}
        BY DEF Arrive
      <4> HIDE DEF there, walk, r
      <4> QED BY <2>2, <2>4, <2>5, <4>1, <4>2
    <3>4. r.rest \in Seq(Names) /\ call' = [call EXCEPT ![t] = r]
      BY <2>3, <2>5, <2>8 DEF Calls
    <3>5. CASE c.next = "renameOld"
      <4>1. PICK A \in Trails : FirstWalk(c, A)
        BY <2>8, <2>10, <3>1, <3>5 DEF Moving
      <4>2. PICK B \in Trails : FirstWalk(r, B)
        BY <1>2, <1>3, <1>4, <2>6, <2>7, <4>1, FirstWalkGrows
      <4> HIDE DEF r
      <4>3. r.link \in {c.link, Nil}
        BY <2>8 DEF Keeps
      <4> QED BY <1>1, <1>2, <1>3, <2>6, <2>8, <2>10, <3>1, <3>2, <3>3, <3>4,
                 <3>5, <4>2, <4>3, RenameStill
    <3>6. CASE c.next = "renameNew"
      <4>1. PICK A \in Trails : SecondWalk(c, A)
        BY <2>8, <2>10, <3>1, <3>6 DEF Moving
      <4>2. c.old \in Ents
        BY <1>2, <2>8, <3>6 DEF Ready
      <4>3. SecondWalk(r, A)
        BY <1>2, <1>3, <1>4, <2>6, <2>7, <3>2, <4>1, <4>2, SecondWalkGrows
      <4>4. r.old \in Ents
        <5> DEFINE there == [v EXCEPT !.pc = v.next, !.rest = <<>>]
                   walk == [v EXCEPT !.pc = "walk"]
        <5>1. there.old = v.old /\ walk.old = v.old
          BY <2>7 DEF Calls
        <5>2. r \in {there, walk}
          BY DEF Arrive
        <5> HIDE DEF there, walk, r
        <5> QED BY <2>2, <2>5, <4>2, <5>1, <5>2
      <4> HIDE DEF r
      <4>5. r.link \in {c.link, Nil}
        BY <2>8 DEF Keeps
      <4> QED BY <1>1, <1>2, <1>3, <2>6, <2>8, <2>10, <3>1, <3>2, <3>3, <3>4,
                 <3>6, <4>3, <4>4, <4>5, RenameStill
    <3> QED BY <3>1, <3>5, <3>6
  <2> QED BY <2>9, <2>10
<1> QED BY <1>5, <1>6

\* The first walk begins at the root, with the whole path before it.
LEMMA FirstWalkBegins ==
    ASSUME NEW p \in Seq(Names), p # <<>>, NEW c \in Calls, c.path = p,
           NEW w, w = [c EXCEPT !.at = Root, !.base = Base(p), !.rest = p,
                                !.next = "renameOld"],
           NEW A \in Trails, A = [i \in Nat |-> Root]
    PROVE  FirstWalk(Arrive(w), A)
<1>1. w \in Calls
  BY PathTypes, DirsAssumption DEF Calls, Targets
<1>2. /\ w.at = Root /\ w.base = Base(p) /\ w.rest = p /\ w.path = p
      /\ w.next = "renameOld"
  BY DEF Calls
<1>3. Len(p) \in Nat /\ Len(p) \in 1..Len(p) /\ Len(p) - Len(p) = 0
  OBVIOUS
<1>4. \A i \in 1..Len(p) : p[i] = p[Len(p) - Len(p) + i]
  BY <1>3
<1>5. /\ Behind(Arrive(w), p) = 0 /\ Along(Arrive(w), p)
      /\ Arrive(w).path = p /\ Arrive(w).at = Root /\ Arrive(w).base = Base(p)
  <2>1. w.next \in Targets
    BY <1>2 DEF Targets
  <2>2. PICK v \in Calls : v = w
    BY <1>1
  <2>3. v.next \in Targets /\ Len(v.rest) \in 1..Len(p)
    BY <1>2, <1>3, <2>1, <2>2
  <2>4. \A i \in 1..Len(v.rest) : v.rest[i] = p[Len(p) - Len(v.rest) + i]
    BY <1>2, <1>4, <2>2
  <2>5. /\ Behind(Arrive(v), p) = Len(p) - Len(v.rest) /\ Along(Arrive(v), p)
        /\ Arrive(v).path = v.path /\ Arrive(v).at = v.at
        /\ Arrive(v).base = v.base
    BY <2>3, <2>4, ArriveAlong
  <2> QED BY <1>2, <1>3, <2>2, <2>5
<1>6. Trail(A, p, 0) /\ A[0] = Root
  BY DEF Trail
<1> QED BY <1>5, <1>6 DEF FirstWalk

\* A Rename begins at the root, with a trail of no entries.
LEMMA CallRenameTree ==
    ASSUME TInv, PInv', NEW t \in Threads, CallRename(t)
    PROVE  TInv'
<1>1. PICK p \in Paths, q \in Paths :
        call' = [call EXCEPT ![t] =
          IF p = q THEN Done("ok")
          ELSE IF p = <<>> \/ q = <<>> THEN Done("EBUSY")
          ELSE IF IsPrefix(p, q) THEN Done("EINVAL")
          ELSE FindParent([NoCall EXCEPT !.op = "Rename", !.path = p, !.to = q],
                          p, "renameOld")]
  BY DEF CallRename
<1> DEFINE c == [NoCall EXCEPT !.op = "Rename", !.path = p, !.to = q]
           w == [c EXCEPT !.at = Root, !.base = Base(p), !.rest = p,
                          !.next = "renameOld"]
<1>2. p \in Seq(Names) /\ q \in Seq(Names)
  BY SynthAssumption
<1>3. /\ c \in Calls /\ c.path = p /\ c.to = q /\ c.link = Nil /\ c.old = Nil
      /\ c.op = "Rename"
  BY ZenonT(40), <1>2, NoCallFields, NoCallType DEF Calls, OpNames
<1>4. /\ UNCHANGED <<kind, name, dirents>> /\ "Rename" \in Ops[t]
      /\ call[t].pc # "meta"
  BY DEF CallRename, Begin, Idle, treeVars
<1> HIDE DEF c
<1>5. CASE \E err : call' = [call EXCEPT ![t] = Done(err)]
  BY <1>4, <1>5, DoneStill
<1>6. CASE ~\E err : call' = [call EXCEPT ![t] = Done(err)]
  <2>1. /\ p # <<>> /\ q # <<>> /\ ~IsPrefix(p, q)
        /\ call' = [call EXCEPT ![t] = FindParent(c, p, "renameOld")]
    BY <1>1, <1>6 DEF c
  <2>2. Return(c, SearchErr(Root)) = Done(SearchErr(Root))
    BY <1>3 DEF Return
  <2>3. call' = [call EXCEPT ![t] = Arrive(w)]
    BY <1>6, <2>1, <2>2 DEF FindParent
  <2>4. /\ w \in Calls /\ w.path = p /\ w.to = q /\ w.link = Nil /\ w.old = Nil
        /\ w.at = Root /\ w.next = "renameOld"
    BY <1>2, <1>3, PathTypes, DirsAssumption DEF Calls, Targets
  <2>5. PICK A \in Trails : A = [i \in Nat |-> Root]
    BY DirsAssumption DEF Trails
  <2>6. PICK v : v = w
    OBVIOUS
  <2>7. FirstWalk(Arrive(v), A)
    BY <1>2, <1>3, <2>1, <2>5, <2>6, FirstWalkBegins
  <2> HIDE DEF w
  <2> DEFINE r == Arrive(v)
             there == [v EXCEPT !.pc = v.next, !.rest = <<>>]
             walk == [v EXCEPT !.pc = "walk"]
  <2>8. /\ there.path = p /\ there.to = q /\ there.at = Root /\ there.link = Nil
        /\ walk.path = p /\ walk.to = q /\ walk.at = Root /\ walk.link = Nil
    BY <2>4, <2>6 DEF Calls
  <2>9. r \in {there, walk}
    BY DEF Arrive
  <2>10. "renameOld" \in Targets
    BY DEF Targets
  <2>11. r \in Calls /\ Goal(r) = "renameOld"
    BY <2>4, <2>6, <2>10, ArriveCall, ArriveGoal
  <2> HIDE DEF there, walk, r
  <2>12. r.path = p /\ r.to = q /\ r.at = Root /\ r.link = Nil
    BY <2>8, <2>9
  <2>13. r.path \in Seq(Names) /\ r.rest \in Seq(Names)
    BY <2>11 DEF Calls
  <2>14. call' = [call EXCEPT ![t] = r]
    BY <2>3, <2>6 DEF r
  <2>15. Goal(r) \in RenameGoals \ {"renameLink"} /\ FirstWalk(r, A)
    BY <2>7, <2>11 DEF RenameGoals, r
  <2> QED BY <1>4, <2>1, <2>11, <2>12, <2>13, <2>14, <2>15, RenameStill,
             DirsAssumption
<1> QED BY <1>5, <1>6

-----------------------------------------------------------------------------
(***************************************************************************)
(* The other calls.                                                        *)
(***************************************************************************)
\* The call of an operation that does not rename.
LEMMA BeginStill ==
    ASSUME TInv, PInv', NEW t \in Threads, NEW d \in Calls,
           d.link = Nil, d.old = Nil, NEW p \in Seq(Names),
           NEW next \in Targets \ (RenameGoals \cup {"add"}),
           call' = [call EXCEPT ![t] = FindParent(d, p, next)],
           UNCHANGED <<kind, name, dirents>>
    PROVE  TInv'
<1> DEFINE r == FindParent(d, p, next)
<1>1. /\ next \in Targets /\ next # "add" /\ next # "renameNew"
      /\ next \notin RenameGoals
  BY DEF RenameGoals
<1>2. Keeps(r, d) /\ Goal(r) \in {next, "idle", "again"}
  BY <1>1, FindParentCall, FindParentGoal
<1>3. r.link = Nil /\ r.old = Nil
  BY <1>2 DEF Keeps
<1>4. Keeps(r, call[t]) /\ Goal(r) \notin RenameGoals
  BY <1>1, <1>2, <1>3 DEF Keeps, RenameGoals
<1> HIDE DEF r
<1> QED BY <1>3, <1>4, StillStep DEF r

\* The calls that begin with a walk and remove nothing.
LEMMA BeginTree ==
    ASSUME TInv, PInv', NEW t \in Threads,
           CallChmod(t) \/ CallMkdir(t) \/ CallOpenFile(t) \/ CallReallocate(t)
    PROVE  TInv'
<1> USE NoCallFields, NoCallType
<1>1. UNCHANGED <<kind, name, dirents>>
  BY DEF CallChmod, CallMkdir, CallOpenFile, CallReallocate, treeVars
<1>2. {"chmod", "mkdir", "open", "reallocate"}
        \subseteq Targets \ (RenameGoals \cup {"add"})
  BY DEF Targets, RenameGoals
<1>3. CASE CallChmod(t)
  <2>1. PICK p \in Paths, m \in Perms :
          call' = [call EXCEPT ![t] =
            FindParent([NoCall EXCEPT !.op = "Chmod", !.path = p, !.perm = m],
                       p, "chmod")]
    BY <1>3 DEF CallChmod
  <2> DEFINE d == [NoCall EXCEPT !.op = "Chmod", !.path = p, !.perm = m]
  <2>2. p \in Seq(Names) /\ m \in SUBSET Bits
    BY SynthAssumption
  <2>3. d \in Calls /\ d.link = Nil /\ d.old = Nil
    BY ZenonT(40), <2>2 DEF Calls, OpNames
  <2>4. call' = [call EXCEPT ![t] = FindParent(d, p, "chmod")]
    BY <2>1
  <2> HIDE DEF d
  <2> QED BY <1>1, <1>2, <2>2, <2>3, <2>4, BeginStill
<1>4. CASE CallMkdir(t)
  <2>1. PICK p \in Paths, m \in Perms :
          call' = [call EXCEPT ![t] =
            FindParent([NoCall EXCEPT !.op = "Mkdir", !.path = p, !.perm = m],
                       Dir(p), "mkdir")]
    BY <1>4 DEF CallMkdir
  <2> DEFINE d == [NoCall EXCEPT !.op = "Mkdir", !.path = p, !.perm = m]
  <2>2. p \in Seq(Names) /\ m \in SUBSET Bits /\ Dir(p) \in Seq(Names)
    BY SynthAssumption, PathTypes
  <2>3. d \in Calls /\ d.link = Nil /\ d.old = Nil
    BY ZenonT(40), <2>2 DEF Calls, OpNames
  <2>4. call' = [call EXCEPT ![t] = FindParent(d, Dir(p), "mkdir")]
    BY <2>1
  <2> HIDE DEF d
  <2> QED BY <1>1, <1>2, <2>2, <2>3, <2>4, BeginStill
<1>5. CASE CallOpenFile(t)
  <2>1. PICK p \in Paths, fl \in Flags, m \in Perms :
          call' = [call EXCEPT ![t] =
            FindParent([NoCall EXCEPT !.op = "OpenFile", !.path = p,
                                      !.flag = fl, !.perm = m],
                       p, "open")]
    BY <1>5 DEF CallOpenFile
  <2> DEFINE d == [NoCall EXCEPT !.op = "OpenFile", !.path = p,
                                 !.flag = fl, !.perm = m]
  <2>2. p \in Seq(Names) /\ m \in SUBSET Bits /\ fl \in FlagType
    BY SynthAssumption DEF FlagType
  <2>3. d \in Calls /\ d.link = Nil /\ d.old = Nil
    BY ZenonT(40), <2>2 DEF Calls, OpNames
  <2>4. call' = [call EXCEPT ![t] = FindParent(d, p, "open")]
    BY <2>1
  <2> HIDE DEF d
  <2> QED BY <1>1, <1>2, <2>2, <2>3, <2>4, BeginStill
<1>6. CASE CallReallocate(t)
  <2>1. PICK p \in Paths :
          call' = [call EXCEPT ![t] =
            FindParent([NoCall EXCEPT !.op = "Reallocate", !.path = p,
                                      !.perm = Bits],
                       p, "reallocate")]
    BY <1>6 DEF CallReallocate
  <2> DEFINE d == [NoCall EXCEPT !.op = "Reallocate", !.path = p, !.perm = Bits]
  <2>2. p \in Seq(Names)
    BY SynthAssumption
  <2>3. d \in Calls /\ d.link = Nil /\ d.old = Nil
    BY ZenonT(40), <2>2 DEF Calls, OpNames
  <2>4. call' = [call EXCEPT ![t] = FindParent(d, p, "reallocate")]
    BY <2>1
  <2> HIDE DEF d
  <2> QED BY <1>1, <1>2, <2>2, <2>3, <2>4, BeginStill
<1> QED BY <1>3, <1>4, <1>5, <1>6

\* Those that remove.
LEMMA BeginRemoveTree ==
    ASSUME TInv, PInv', NEW t \in Threads, CallRemove(t) \/ CallRemoveAll(t)
    PROVE  TInv'
<1> USE NoCallFields, NoCallType
<1>1. UNCHANGED <<kind, name, dirents>>
  BY DEF CallRemove, CallRemoveAll, treeVars
<1>2. "remove" \in Targets \ (RenameGoals \cup {"add"})
  BY DEF Targets, RenameGoals
<1>3. CASE CallRemove(t)
  <2>1. PICK p \in Paths :
          call' = [call EXCEPT ![t] =
            FindParent([NoCall EXCEPT !.op = "Remove", !.path = p], p, "remove")]
    BY <1>3 DEF CallRemove
  <2> DEFINE d == [NoCall EXCEPT !.op = "Remove", !.path = p]
  <2>2. p \in Seq(Names)
    BY SynthAssumption
  <2>3. d \in Calls /\ d.link = Nil /\ d.old = Nil
    BY ZenonT(40), <2>2 DEF Calls, OpNames
  <2>4. call' = [call EXCEPT ![t] = FindParent(d, p, "remove")]
    BY <2>1
  <2> HIDE DEF d
  <2> QED BY <1>1, <1>2, <2>2, <2>3, <2>4, BeginStill
<1>4. CASE CallRemoveAll(t)
  <2>1. PICK p \in Paths :
          call' = [call EXCEPT ![t] =
            IF p = <<>> THEN Done("EACCES")
            ELSE FindParent([NoCall EXCEPT !.op = "RemoveAll", !.path = p],
                            p, "remove")]
    BY <1>4 DEF CallRemoveAll
  <2> DEFINE d == [NoCall EXCEPT !.op = "RemoveAll", !.path = p]
  <2>2. p \in Seq(Names)
    BY SynthAssumption
  <2>3. d \in Calls /\ d.link = Nil /\ d.old = Nil
    BY ZenonT(40), <2>2 DEF Calls, OpNames
  <2>4. \/ call' = [call EXCEPT ![t] = FindParent(d, p, "remove")]
        \/ call' = [call EXCEPT ![t] = Done("EACCES")]
    BY <2>1
  <2> HIDE DEF d
  <2> QED BY <1>1, <1>2, <2>2, <2>3, <2>4, BeginStill, DoneStill
<1> QED BY <1>3, <1>4

\* Those that begin with mkdirAll.
LEMMA BeginMkdirAllTree ==
    ASSUME TInv, PInv', NEW t \in Threads, CallMkdirAll(t) \/ CallAddFile(t)
    PROVE  TInv'
<1> USE NoCallFields, NoCallType
<1>1. CASE CallMkdirAll(t)
  <2>1. PICK p \in Paths, m \in Perms :
          call' = [call EXCEPT ![t] =
            MkdirAll([NoCall EXCEPT !.op = "MkdirAll", !.path = p, !.perm = m], p)]
    BY <1>1 DEF CallMkdirAll
  <2> DEFINE d == [NoCall EXCEPT !.op = "MkdirAll", !.path = p, !.perm = m]
             r == MkdirAll(d, p)
  <2>2. p \in Seq(Names) /\ m \in SUBSET Bits
    BY SynthAssumption
  <2>3. d \in Calls /\ d.link = Nil /\ d.old = Nil /\ d.op = "MkdirAll"
    BY ZenonT(40), <2>2 DEF Calls, OpNames
  <2>4. call' = [call EXCEPT ![t] = r] /\ UNCHANGED <<kind, name, dirents>>
    BY <1>1, <2>1 DEF CallMkdirAll, treeVars
  <2> HIDE DEF d
  <2>5. Keeps(r, d) /\ Goal(r) \notin RenameGoals
    BY <2>2, <2>3, MkdirAllCall, MkdirAllGoal DEF RenameGoals
  <2> HIDE DEF r
  <2>6. Keeps(r, call[t]) /\ r.link = Nil
    BY <2>3, <2>5 DEF Keeps
  <2> QED BY <2>4, <2>5, <2>6, StillStep
<1>2. CASE CallAddFile(t)
  <2>1. PICK p \in Paths :
        \/ /\ call' = [call EXCEPT ![t] = Done("EIO")]
           /\ UNCHANGED treeVars
        \/ /\ Room(Len(Dir(p)) + 1) /\ Free # {}
           /\ \E m \in Perms : NewDirent(Fresh, "file", Base(p), m)
           /\ call' = [call EXCEPT ![t] =
                MkdirAll([NoCall EXCEPT !.op = "AddFile", !.path = p,
                            !.perm = Bits, !.link = Fresh], Dir(p))]
           /\ UNCHANGED <<dirents, direntMap, closes, referredAs>>
    BY <1>2 DEF CallAddFile
  <2>2. CASE call' = [call EXCEPT ![t] = Done("EIO")] /\ UNCHANGED treeVars
    BY <2>2, DoneStill DEF treeVars
  <2>3. CASE /\ Free # {}
             /\ \E m \in Perms : NewDirent(Fresh, "file", Base(p), m)
             /\ call' = [call EXCEPT ![t] =
                  MkdirAll([NoCall EXCEPT !.op = "AddFile", !.path = p,
                              !.perm = Bits, !.link = Fresh], Dir(p))]
             /\ UNCHANGED <<dirents, direntMap, closes, referredAs>>
    <3> DEFINE d == [NoCall EXCEPT !.op = "AddFile", !.path = p,
                              !.perm = Bits, !.link = Fresh]
               r == MkdirAll(d, Dir(p))
    <3>1. p \in Seq(Names) /\ Dir(p) \in Seq(Names)
      BY SynthAssumption, PathTypes
    <3>2. Fresh \in Ents
      BY <2>3, FreshType
    <3>3. /\ d \in Calls /\ d.link = Fresh /\ d.old = Nil /\ d.op = "AddFile"
      BY ZenonT(40), <3>1, <3>2 DEF Calls, OpNames
    <3>4. call' = [call EXCEPT ![t] = r]
      BY <2>3
    <3>5. PICK m \in Perms : NewDirent(Fresh, "file", Base(p), m)
      BY <2>3
    <3>6. HasFile(d)
      BY <3>2, <3>3, DirsAssumption DEF HasFile
    <3> HIDE DEF d
    <3>7. Keeps(r, d) /\ Goal(r) \notin RenameGoals
      BY <3>1, <3>3, <3>6, MkdirAllCall, MkdirAllGoal DEF RenameGoals
    <3> HIDE DEF r, Fresh
    <3>8. r.link \in {Fresh, Nil}
      BY <3>3, <3>7 DEF Keeps
    <3> QED BY <2>3, <3>2, <3>4, <3>5, <3>7, <3>8, NewFileStep
  <2> QED BY <2>1, <2>2, <2>3
<1> QED BY <1>1, <1>2

-----------------------------------------------------------------------------
(***************************************************************************)
(* The steps of a Rename after its walks.                                  *)
(***************************************************************************)
\* The second walk begins at the root, which is on the trail of the first, as
\* its start only, and outside of the old target.
LEMMA SecondWalkBegins ==
    ASSUME TInv, NEW c \in Calls, c.path \in Seq(Names), c.path # <<>>,
           NEW q \in Seq(Names), q # <<>>, c.to = q,
           NEW A \in Trails, Trail(A, c.path, Len(c.path)),
           A[Len(c.path)] = c.old, A[Len(c.path) - 1] = c.from,
           c.old \in Ents, c.old # Root,
           NEW w, w = [c EXCEPT !.at = Root, !.base = Base(q), !.rest = q,
                                !.next = "renameNew"]
    PROVE  SecondWalk(Arrive(w), A)
<1>1. w \in Calls
  BY PathTypes, DirsAssumption DEF Calls, Targets
<1>2. /\ w.at = Root /\ w.base = Base(q) /\ w.rest = q /\ w.path = c.path
      /\ w.next = "renameNew" /\ w.to = q /\ w.old = c.old /\ w.from = c.from
  BY DEF Calls
<1>3. Len(q) \in Nat /\ Len(q) \in 1..Len(q) /\ Len(q) - Len(q) = 0
  OBVIOUS
<1>4. \A i \in 1..Len(q) : q[i] = q[Len(q) - Len(q) + i]
  BY <1>3
<1>5. PICK v \in Calls : v = w
  BY <1>1
<1>6. v.next \in Targets /\ Len(v.rest) \in 1..Len(q)
  BY <1>2, <1>3, <1>5 DEF Targets
<1>7. \A i \in 1..Len(v.rest) : v.rest[i] = q[Len(q) - Len(v.rest) + i]
  BY <1>2, <1>4, <1>5
<1>8. /\ Behind(Arrive(v), q) = Len(q) - Len(v.rest) /\ Along(Arrive(v), q)
      /\ Arrive(v).path = v.path /\ Arrive(v).to = v.to
      /\ Arrive(v).at = v.at /\ Arrive(v).old = v.old
      /\ Arrive(v).from = v.from
  BY <1>6, <1>7, ArriveAlong
<1> DEFINE r == Arrive(v)
<1>9. /\ Behind(r, q) = 0 /\ Along(r, q) /\ r.path = c.path /\ r.to = q
      /\ r.at = Root /\ r.old = c.old /\ r.from = c.from
  BY <1>2, <1>3, <1>5, <1>8
<1> HIDE DEF r
<1>10. ASSUME NEW j \in 0..(Len(c.path) - 1), Root = A[j]
       PROVE  j = 0
  <2>1. Len(c.path) \in Nat
    OBVIOUS
  <2>2. j = 0 \/ j \in 1..Len(c.path)
    BY <2>1
  <2> QED BY <1>10, <2>2 DEF Trail
<1>11. Outside(Kids, c.old, Root)
  BY TreeFacts, KidsType, OutsideRoot DEF TInv, PInv, IInv, TypeOK
<1>12. SecondWalk(r, A)
  BY <1>9, <1>10, <1>11 DEF SecondWalk
<1> QED BY <1>5, <1>12 DEF r

\* The old target is found, the second walk begins.
LEMMA RenameOldTree ==
    ASSUME TInv, PInv', NEW t \in Threads, RenameOld(t)
    PROVE  TInv'
<1>1. PICK c : c = call[t]
  OBVIOUS
<1>2. /\ c \in Calls /\ c.path \in Seq(Names) /\ c.to \in Seq(Names)
      /\ c.at \in Ents /\ c.base \in EntNames /\ TreeTypeOK
  BY <1>1, WalksTyped, TreeFacts
<1> DEFINE target == Lookup(c.at, c.base)
           n == Len(c.path)
<1>3. /\ c.pc = "renameOld" /\ UNCHANGED <<kind, name, dirents>>
      /\ \/ \E err : call' = [call EXCEPT ![t] = Done(err)]
         \/ /\ target # Nil
            /\ call' = [call EXCEPT ![t] =
                 FindParent([c EXCEPT !.old = target, !.from = c.at],
                            c.to, "renameNew")]
  BY <1>1 DEF RenameOld, treeVars
<1>4. CASE \E err : call' = [call EXCEPT ![t] = Done(err)]
  BY <1>3, <1>4, DoneStill
<1>5. CASE /\ target # Nil
           /\ call' = [call EXCEPT ![t] =
                FindParent([c EXCEPT !.old = target, !.from = c.at],
                           c.to, "renameNew")]
  <2>1. /\ "Rename" \in Ops[t] /\ c.path # <<>> /\ c.to # <<>>
        /\ ~IsPrefix(c.path, c.to)
        /\ \E A \in Trails : FirstWalk(c, A)
    BY <1>1, <1>3 DEF TInv, Moving, Goal, RenameGoals
  <2>2. PICK A \in Trails : FirstWalk(c, A)
    BY <2>1
  <2>3. n \in Nat /\ n > 0 /\ n - 1 \in Nat /\ n - 1 < n /\ (n - 1) + 1 = n
    BY <1>2, <2>1
  <2>4. Trail(A, c.path, n - 1) /\ A[n - 1] = c.at /\ c.base = c.path[n]
    BY <1>3, <2>1, <2>2 DEF FirstWalk, Behind, Base
  <2>5. PICK o : o = target
    OBVIOUS
  <2>6. o = Lookup(c.at, c.base) /\ o # Nil
    BY <1>5, <2>5
  <2> HIDE DEF target
  <2>7. o \in Ents /\ o # Root
    BY <1>2, <2>6, LookupTrail
  <2> DEFINE B == [A EXCEPT ![n] = o]
  <2>8. B \in Trails /\ Trail(B, c.path, n)
    <3>1. /\ [A EXCEPT ![(n - 1) + 1] = o] \in Trails
          /\ Trail([A EXCEPT ![(n - 1) + 1] = o], c.path, (n - 1) + 1)
      <4> HIDE DEF n
      <4>1. o = Lookup(A[n - 1], c.path[(n - 1) + 1]) /\ A[n - 1] \in Ents
        BY <1>2, <2>3, <2>4, <2>6
      <4> QED BY <1>2, <2>3, <2>4, <2>6, <4>1, TrailGrows DEF n
    <3> QED BY <2>3, <3>1
  <2>9. B[n] = o /\ B[n - 1] = c.at
    BY <2>3, <2>4, <2>7 DEF Trails
  <2> DEFINE s == [c EXCEPT !.old = o, !.from = c.at]
  <2>10. /\ s \in Calls /\ s.path = c.path /\ s.to = c.to /\ s.old = o
         /\ s.from = c.at /\ s.link = c.link
    BY <1>2, <2>7 DEF Calls
  <2>11. call' = [call EXCEPT ![t] = FindParent(s, c.to, "renameNew")]
    BY <1>5, <2>5
  <2>12. PICK x : x = s
    OBVIOUS
  <2>13. PICK w : w = [x EXCEPT !.at = Root, !.base = Base(c.to),
                               !.rest = c.to, !.next = "renameNew"]
    OBVIOUS
  <2> HIDE DEF s, B
  <2>14. FindParent(x, c.to, "renameNew") \in
           {Return(x, SearchErr(Root)), Arrive(w)}
    BY <2>13 DEF FindParent
  <2> DEFINE f == FindParent(x, c.to, "renameNew")
             d == Arrive(w)
             e == Return(x, SearchErr(Root))
  <2>15. "renameNew" \in Targets /\ x.old # Nil /\ x \in Calls
    BY <2>10, <2>12, <2>7, DirsAssumption DEF Targets
  <2>16. f \in Calls /\ Keeps(f, x)
    <3>1. "renameNew" # "add"
      OBVIOUS
    <3> QED BY <1>2, <2>15, <3>1, FindParentCall
  <2>17. f.link \in {c.link, Nil}
    BY <2>10, <2>12, <2>16 DEF Keeps
  <2>18. call' = [call EXCEPT ![t] = f]
    BY <2>11, <2>12
  <2>19. Goal(e) \notin RenameGoals
    BY <2>15, ReturnGoal DEF RenameGoals
  <2>20. CASE f = e
    <3> HIDE DEF e, f
    <3> QED BY <1>1, <1>3, <2>17, <2>18, <2>19, <2>20, LeaveStep
  <2>21. CASE f = d
    <3>1. w \in Calls /\ w.next = "renameNew" /\ w.old = o /\ w.path = c.path
          /\ w.to = c.to /\ w.at = Root
      BY <1>2, <2>10, <2>12, <2>13, <2>15, PathTypes, DirsAssumption DEF Calls
    <3>2. SecondWalk(d, B)
      <4>1. /\ x \in Calls /\ x.path = c.path /\ x.to = c.to /\ x.old = o
            /\ x.from = c.at
        BY <2>10, <2>12
      <4>2. /\ Trail(B, x.path, Len(x.path)) /\ B[Len(x.path)] = x.old
            /\ B[Len(x.path) - 1] = x.from
        BY <2>8, <2>9, <4>1
      <4> QED BY <1>2, <2>1, <2>7, <2>8, <2>13, <4>1, <4>2, SecondWalkBegins
    <3>3. Goal(d) = "renameNew"
      BY <2>15, <3>1, ArriveGoal
    <3> DEFINE there == [w EXCEPT !.pc = w.next, !.rest = <<>>]
               walk == [w EXCEPT !.pc = "walk"]
    <3>4. /\ there.path = c.path /\ there.to = c.to /\ there.at = Root
          /\ there.old = o
          /\ walk.path = c.path /\ walk.to = c.to /\ walk.at = Root
          /\ walk.old = o
      BY <3>1 DEF Calls
    <3>5. d \in {there, walk}
      BY DEF Arrive
    <3> HIDE DEF there, walk, d, f
    <3>6. d.path = c.path /\ d.to = c.to /\ d.at = Root /\ d.old = o
      BY <3>4, <3>5
    <3>7. d \in Calls /\ d.rest \in Seq(Names)
      BY <2>16, <2>21 DEF Calls
    <3>8. Goal(d) \in RenameGoals \ {"renameLink"} /\ Goal(d) # "renameOld"
      BY <3>3 DEF RenameGoals
    <3> QED BY <1>1, <1>2, <1>3, <2>1, <2>7, <2>8, <2>17, <2>18, <2>21, <3>2,
               <3>6, <3>7, <3>8, RenameStill, DirsAssumption
  <2> QED BY <2>14, <2>20, <2>21
<1> QED BY <1>3, <1>4, <1>5

\* The checks of rename before it changes anything.
LEMMA RenameNewTree ==
    ASSUME TInv, PInv', NEW t \in Threads, RenameNew(t)
    PROVE  TInv'
<1>1. PICK c : c = call[t]
  OBVIOUS
<1>2. /\ c \in Calls /\ Ready(c) /\ c.path \in Seq(Names) /\ c.rest \in Seq(Names)
      /\ c.at \in Ents
      /\ c.old # Nil => c.old \in Ents
  BY <1>1, WalksTyped
<1> DEFINE d == [c EXCEPT !.pc = "renameUnlink"]
<1>3. /\ c.pc = "renameNew" /\ UNCHANGED <<kind, name, dirents>>
      /\ \/ \E err : call' = [call EXCEPT ![t] = Done(err)]
         \/ call' = [call EXCEPT ![t] = d]
  BY <1>1 DEF RenameNew, treeVars
<1>4. CASE \E err : call' = [call EXCEPT ![t] = Done(err)]
  BY <1>3, <1>4, DoneStill
<1>5. CASE call' = [call EXCEPT ![t] = d]
  <2>1. /\ "Rename" \in Ops[t] /\ c.path # <<>> /\ c.to # <<>>
        /\ ~IsPrefix(c.path, c.to) /\ c.old \in Ents
        /\ \E A \in Trails : SecondWalk(c, A)
    BY <1>1, <1>2, <1>3 DEF TInv, Moving, Goal, RenameGoals, Ready
  <2>2. PICK A \in Trails : SecondWalk(c, A)
    BY <2>1
  <2>3. /\ d \in Calls /\ d.path = c.path /\ d.to = c.to /\ d.at = c.at
        /\ d.old = c.old /\ d.from = c.from /\ d.link = c.link
        /\ d.rest = c.rest /\ d.pc = "renameUnlink"
    BY <1>2 DEF Calls, PCs
  <2> HIDE DEF d
  <2>4. SecondWalk(d, A)
    BY <1>3, <2>2, <2>3 DEF SecondWalk, Along, Behind
  <2>5. Goal(d) = "renameUnlink"
    BY <2>3 DEF Goal
  <2>6. Goal(d) \in RenameGoals \ {"renameLink"} /\ Goal(d) # "renameOld"
    BY <2>5 DEF RenameGoals
  <2> QED BY <1>1, <1>2, <1>3, <1>5, <2>1, <2>3, <2>4, <2>6, RenameStill
<1> QED BY <1>3, <1>4, <1>5

\* The old name is removed: the target is in no directory then.
LEMMA RenameUnlinkTree ==
    ASSUME TInv, PInv', NEW t \in Threads, RenameUnlink(t)
    PROVE  TInv'
<1>1. PICK c : c = call[t]
  OBVIOUS
<1>2. /\ c \in Calls /\ Ready(c) /\ c.path \in Seq(Names) /\ c.rest \in Seq(Names)
      /\ c.at \in Ents
      /\ c.old # Nil => c.old \in Ents
      /\ c.from \in Ents /\ kind[c.from] = "dir"
      /\ TreeTypeOK /\ TreeTypeOK' /\ DirsConsistent
  BY <1>1, WalksTyped, TreeFacts
<1> DEFINE d == [c EXCEPT !.pc = "renameLink"]
<1>3. /\ c.pc = "renameUnlink" /\ UNCHANGED <<kind, name>>
      /\ RemoveName(c.from, name[c.old]) /\ call' = [call EXCEPT ![t] = d]
  BY <1>1 DEF RenameUnlink
<1>4. /\ "Rename" \in Ops[t] /\ c.path # <<>> /\ c.to # <<>>
      /\ ~IsPrefix(c.path, c.to) /\ c.old \in Ents
      /\ \E A \in Trails : SecondWalk(c, A)
  BY <1>1, <1>2, <1>3 DEF TInv, Moving, Goal, RenameGoals, Ready
<1>5. PICK A \in Trails : SecondWalk(c, A)
  BY <1>4
<1>6. /\ d \in Calls /\ d.path = c.path /\ d.to = c.to /\ d.at = c.at
      /\ d.old = c.old /\ d.from = c.from /\ d.link = c.link
      /\ d.rest = c.rest /\ d.pc = "renameLink"
  BY <1>2 DEF Calls, PCs
<1> HIDE DEF d
<1>7. SecondWalk(d, A)
  BY <1>3, <1>5, <1>6 DEF SecondWalk, Along, Behind
<1>8. KindsKept /\ (Pending(d) => Own(t, d.link))
  BY <1>1, <1>3, <1>6 DEF KindsKept, Pending, Own
<1>9. name[c.old] \in EntNames
  BY <1>2, <1>4 DEF TreeTypeOK
<1>10. /\ Puts(t, d, c.from, {})
       /\ Linked(Kids, Kids', c.from, {})
       /\ Lookup(c.from, name[c.old]) \notin Kids'[c.from]
  BY <1>2, <1>3, <1>8, <1>9, RemoveNameUnlinks DEF Puts
<1>11. Apart(Kids', c.old)
  <2> SUFFICES ASSUME NEW x \in Ents, c.old \in Kids'[x] PROVE FALSE
    BY DEF Apart
  <2>1. c.old \in Kids[x]
    BY <1>10 DEF Linked
  <2>2. x = c.from
    <3>1. Len(c.path) \in Nat /\ Len(c.path) \in 1..Len(c.path)
      BY <1>2, <1>4
    <3>2. /\ Trail(A, c.path, Len(c.path)) /\ A[Len(c.path)] = c.old
          /\ A[Len(c.path) - 1] = c.from
      BY <1>5 DEF SecondWalk
    <3> QED BY <2>1, <3>1, <3>2 DEF Trail
  <2>3. Lookup(c.from, name[c.old]) = c.old
    BY <1>2, <2>1, <2>2, LookupKid
  <2> QED BY <1>10, <2>2, <2>3
<1>12. SecondWalk(d, A)'
  <2>1. {} \in SUBSET Ents /\ d.at \in Ents \ {} /\ d.path # <<>>
        /\ d.path \in Seq(Names) /\ d.rest \in Seq(Names) /\ d.old \in Ents
    BY <1>2, <1>4, <1>6
  <2> QED BY <1>2, <1>7, <1>10, <2>1, PutsWalks
<1>13. Goal(d) = "renameLink"
  BY <1>6 DEF Goal
<1>14. Moving(t, d)'
  BY <1>4, <1>6, <1>11, <1>12, <1>13 DEF Moving, Apart
<1> QED BY <1>2, <1>10, <1>14, PutsStep

\* It is put below its new parent, which is outside of it.  No walk of another
\* Rename can have counted on its place.
LEMMA RenameLinkTree ==
    ASSUME RenamesAlone, TInv, PInv', NEW t \in Threads, RenameLink(t)
    PROVE  TInv'
<1>1. PICK c : c = call[t]
  OBVIOUS
<1>2. /\ c \in Calls /\ Ready(c) /\ c.path \in Seq(Names)
      /\ c.at \in Ents /\ kind[c.at] = "dir"
      /\ c.old # Nil => c.old \in Ents
      /\ TreeTypeOK /\ TreeTypeOK' /\ DirsConsistent
  BY <1>1, WalksTyped, TreeFacts
<1>3. /\ c.pc = "renameLink" /\ UNCHANGED <<kind, name>>
      /\ AddDirent(c.at, c.old) /\ call' = [call EXCEPT ![t] = Done("ok")]
  BY <1>1 DEF RenameLink
<1>4. /\ "Rename" \in Ops[t] /\ c.path # <<>> /\ c.old \in Ents
      /\ Apart(Kids, c.old)
      /\ \E A \in Trails : SecondWalk(c, A)
  BY <1>1, <1>2, <1>3 DEF TInv, Moving, Goal, RenameGoals, Ready
<1>5. PICK A \in Trails : SecondWalk(c, A)
  BY <1>4
<1>6. /\ c.old # Root
      /\ \A u \in Threads : Pending(call[u]) => call[u].link # c.old
      /\ Outside(Kids, c.old, c.at)
  <2>1. Len(c.path) \in Nat /\ Len(c.path) \in 1..Len(c.path)
    BY <1>2, <1>4
  <2> QED BY <1>5, <2>1 DEF SecondWalk, Trail
<1>7. /\ Linked(Kids, Kids', c.at, {c.old})
      /\ \A x \in Ents : x # c.at => dirents'[x] = dirents[x]
  BY <1>2, <1>3, <1>4, AddDirentLinks
<1>8. Forest(Kids)'
  <2>1. PICK C \in SUBSET Ents : Inward(Kids, C) /\ c.old \in C /\ c.at \notin C
    BY <1>6 DEF Outside
  <2>2. Forest(Kids) /\ \A w \in {c.old} : w # Root /\ Apart(Kids, w)
    BY <1>4, <1>6 DEF TInv
  <2>3. {c.old} \subseteq C
    BY <2>1
  <2>4. Forest(Kids')
    BY <1>2, <1>7, <2>1, <2>2, <2>3, GraftForest
  <2> QED BY <2>4 DEF Forest, Apart
<1>9. (\A x \in Ents : kind[x] # "dir" => dirents[x] = <<>>)'
  BY <1>2, <1>3, <1>7 DEF TInv
<1>10. /\ ~Pending(Done("ok")) /\ Goal(Done("ok")) \notin RenameGoals
       /\ call'[t] = Done("ok") /\ \A u \in Threads : u # t => call'[u] = call[u]
  BY <1>3, DoneGoal DEF Pending, RenameGoals, TInv, PInv, IInv, TypeOK
<1>11. PendingApart'
  <2>1. ASSUME NEW u \in Threads, Pending(call'[u])
        PROVE  /\ Apart(Kids', call'[u].link)
               /\ \A v \in Threads : Pending(call'[v]) /\ call'[v].link = call'[u].link
                                     => u = v
    <3>1. u # t /\ call'[u] = call[u] /\ Pending(call[u])
      BY <1>10, <2>1
    <3>2. Apart(Kids, call[u].link) /\ call[u].link # c.old
      BY <1>6, <3>1 DEF TInv, PendingApart
    <3>3. Apart(Kids', call[u].link)
      BY <1>7, <3>2 DEF Linked, Apart
    <3>4. ASSUME NEW v \in Threads, Pending(call'[v]), call'[v].link = call'[u].link
          PROVE  u = v
      <4>1. v # t /\ call'[v] = call[v] /\ Pending(call[v])
        BY <1>10, <3>4
      <4> QED BY <3>1, <3>4, <4>1 DEF TInv, PendingApart
    <3> QED BY <3>1, <3>3, <3>4
  <2> QED BY <2>1 DEF PendingApart, Apart, Pending
<1>12. ASSUME NEW u \in Threads PROVE Moving(u, call[u])'
  <2>1. CASE u = t
    BY <1>10, <2>1 DEF Moving
  <2>2. CASE u # t
    <3>1. call'[u] = call[u] /\ Moving(u, call[u])
      BY <1>10, <2>2 DEF TInv
    <3>2. Goal(call[u]) \notin RenameGoals
      BY <1>4, <2>2, <3>1 DEF Moving, RenamesAlone
    <3> QED BY <3>1, <3>2 DEF Moving
  <2> QED BY <2>1, <2>2
<1> QED BY <1>8, <1>9, <1>11, <1>12 DEF TInv

-----------------------------------------------------------------------------
(***************************************************************************)
(* The invariant is inductive.                                             *)
(***************************************************************************)
\* In the beginning nothing is in any directory.
LEMMA InitTree == Init => TInv
<1> SUFFICES ASSUME Init PROVE TInv
  OBVIOUS
<1>1. PInv /\ TreeTypeOK
  BY InitPermitted DEF PInv, IInv, TypeOK
<1>2. \A d \in Ents : dirents[d] = <<>>
  BY DEF Init, TreeInit
<1>3. \A d \in Ents : Kids[d] = {}
  BY <1>1, <1>2, KidsType
<1>4. Forest(Kids)
  BY <1>3 DEF Forest, Apart
<1>5. \A t \in Threads : call[t] = NoCall
  BY DEF Init
<1>6. Goal(NoCall) = "idle" /\ ~Pending(NoCall)
  BY NoCallType DEF Goal, Pending
<1>7. PendingApart
  BY <1>5, <1>6 DEF PendingApart
<1>8. \A t \in Threads : Moving(t, call[t])
  BY <1>5, <1>6 DEF Moving, RenameGoals
<1> QED BY <1>1, <1>2, <1>4, <1>7, <1>8 DEF TInv

\* Every step of an operation keeps the forest.
LEMMA StepTree ==
    ASSUME RenamesAlone, TInv, PInv', NEW t \in Threads, Step(t)
    PROVE  TInv'
<1>1. CASE Walk(t) \/ Chmod(t) \/ MkdirCheck(t) \/ MkdirAdd(t)
           \/ MkdirAllLookup(t) \/ MkdirAllAdd(t)
  <2>1. CASE Chmod(t)
    <3>1. PICK err : call' = [call EXCEPT ![t] = Done(err)]
      BY <2>1 DEF Chmod
    <3>2. UNCHANGED <<kind, name, dirents>>
      BY <2>1 DEF Chmod
    <3> QED BY <3>1, <3>2, DoneStill
  <2> QED BY <1>1, <2>1, WalkTree, MkdirStill, MkdirAddTree, MkdirAllAddTree
<1>2. CASE OpenExisting(t) \/ OpenCreate(t) \/ OpenLink(t)
  BY <1>2, OpenTree, LinkTree
<1>3. CASE RemoveCheck(t) \/ RemoveClose(t) \/ RemoveUnlink(t)
           \/ RemoveAllAgain(t) \/ RemoveAllList(t) \/ RemoveAllNext(t)
  BY <1>3, RemoveStill, RemoveUnlinkTree
<1>4. CASE RenameOld(t) \/ RenameNew(t) \/ RenameUnlink(t) \/ RenameLink(t)
  BY <1>4, RenameOldTree, RenameNewTree, RenameUnlinkTree, RenameLinkTree
<1>5. CASE ReallocCopy(t) \/ AddLookup(t) \/ AddClose(t) \/ AddLink(t)
           \/ ReallocMeta(t)
  BY <1>5, ReallocTree, AddStill, LinkTree
<1> QED BY <1>1, <1>2, <1>3, <1>4, <1>5 DEF Step

\* The invariant is inductive while one goroutine renames.
LEMMA NextTree == RenamesAlone /\ TInv /\ [Next]_vars => TInv'
<1> SUFFICES ASSUME RenamesAlone, TInv, [Next]_vars PROVE TInv'
  OBVIOUS
<1>0. PInv'
  BY NextPermitted DEF TInv
<1>1. ASSUME NEW t \in Threads, Call(t) PROVE TInv'
  BY <1>0, <1>1, BeginTree, BeginRemoveTree, BeginMkdirAllTree, CallRenameTree
     DEF Call
<1>2. ASSUME NEW t \in Threads, Step(t) PROVE TInv'
  BY <1>0, <1>2, StepTree
<1>3. CASE UNCHANGED vars
  <2>1. UNCHANGED <<kind, name, dirents, call>>
    BY <1>3 DEF vars, treeVars
  <2>2. Kids' = Kids
    BY <2>1 DEF Kids
  <2>3. Forest(Kids)' /\ PendingApart'
    BY <2>1, <2>2 DEF TInv, Forest, Apart, PendingApart, Pending
  <2>4. ASSUME NEW t \in Threads PROVE Moving(t, call[t])'
    <3>1. Moving(t, call[t])
      BY DEF TInv
    <3>2. \A A, p, m : Trail(A, p, m) => Trail(A, p, m)'
      BY <2>1, <2>2 DEF Trail, Pending
    <3>3. \A A : FirstWalk(call[t], A) => FirstWalk(call[t], A)'
      BY <2>1, <3>2 DEF FirstWalk, Along, Behind
    <3>4. \A A : SecondWalk(call[t], A) => SecondWalk(call[t], A)'
      BY <2>1, <2>2, <3>2 DEF SecondWalk, Along, Behind, Outside, Inward
    <3> QED BY <2>1, <2>2, <3>1, <3>3, <3>4 DEF Moving, Apart, Goal
  <2> QED BY <1>0, <2>1, <2>3, <2>4 DEF TInv
<1> QED BY <1>1, <1>2, <1>3 DEF Next

\* The directory entries form a tree in every state, in the middle of the
\* operations too, whatever the goroutines do between the steps of another: the
\* root is in no directory, nothing is in two, only directories have entries
\* and no directory is below itself, so that dir.notifyClose ends.  One
\* goroutine at a time may rename; two that do can put two directories into
\* each other.
THEOREM StaysATree ==
    ASSUME RenamesAlone
    PROVE  Spec => []TreeShape
<1>1. TInv => TreeShape
  BY ForestShape DEF TInv, PInv, IInv, TypeOK
<1>2. RenamesAlone
  OBVIOUS
<1>3. TInv /\ [Next]_vars => TInv'
  BY <1>2, NextTree
<1> QED BY <1>1, <1>3, InitTree, PTL DEF Spec

-----------------------------------------------------------------------------
(***************************************************************************)
(* RemoveAll lists a directory that it found not empty a step before.  The *)
(* directory is still one when nobody else unlinks anything, or links      *)
(* anything but a new directory.                                           *)
(***************************************************************************)
MakesOnly(t) == Ops[t] \subseteq {"Chmod", "Mkdir", "MkdirAll"}

\* next to a goroutine that calls RemoveAll the others make directories
RemovesAlone ==
    \A t, u \in Threads : "RemoveAll" \in Ops[t] /\ u # t => MakesOnly(u)

Removers == {"RemoveAll", "removeAllFrom"}

\* where an operation that only makes directories is
Making(c) ==
    /\ c.link = Nil
    /\ c.op \notin Removers
    /\ Goal(c) \in {"idle", "chmod", "mkdir", "mkdirAdd", "mkdirAll",
                    "mkdirAllAdd"}

\* who lists directories, and what it does after an error
Removing(t, c) ==
    /\ c.op \in Removers => "RemoveAll" \in Ops[t]
    /\ c.pc = "again" => c.op \in Removers
    /\ c.pc = "list" => c.op = "removeAllFrom"
    /\ c.pc = "removeUnlink" => c.err \in {"ok", "ErrClosedWithError"}
    /\ c.err # "panic"

\* what it is about to list is a directory
Listing(c) ==
    c.pc = "list" => /\ Lookup(c.at, c.base) # Nil
                     /\ kind[Lookup(c.at, c.base)] = "dir"

NInv ==
    /\ PInv
    /\ \A t \in Threads : /\ Removing(t, call[t]) /\ Listing(call[t])
                          /\ MakesOnly(t) => Making(call[t])

\* A step of t after which its operation is d: what another goroutine is about
\* to list is still a directory.
LEMMA ListsStep ==
    ASSUME NInv, PInv', NEW t \in Threads, NEW d,
           call' = [call EXCEPT ![t] = d], Removing(t, d), Listing(d)',
           MakesOnly(t) => Making(d),
           \A u \in Threads : u # t => Listing(call[u])'
    PROVE  NInv'
<1>1. /\ call'[t] = d /\ \A u \in Threads : u # t => call'[u] = call[u]
  BY DEF NInv, PInv, IInv, TypeOK
<1>2. ASSUME NEW u \in Threads
      PROVE  /\ Removing(u, call[u])' /\ Listing(call[u])'
             /\ MakesOnly(u) => Making(call[u])'
  <2>1. CASE u = t
    BY <1>1, <2>1 DEF Removing, Listing, Making, Goal, Lookup
  <2>2. CASE u # t
    BY <1>1, <2>2 DEF NInv, Removing, Listing, Making, Goal, Lookup
  <2> QED BY <2>1, <2>2
<1> QED BY <1>2 DEF NInv, MakesOnly

\* A step that links and unlinks nothing.
LEMMA ListsStill ==
    ASSUME NInv, PInv', NEW t \in Threads, NEW d,
           call' = [call EXCEPT ![t] = d], UNCHANGED direntMap, KindsKept,
           Removing(t, d), Listing(d), MakesOnly(t) => Making(d),
           d.at \in Ents, d.base \in EntNames
    PROVE  NInv'
<1>1. TreeTypeOK
  BY DEF NInv, PInv, IInv, TypeOK
<1>2. ASSUME NEW c, Listing(c), c.at \in Ents, c.base \in EntNames
      PROVE  Listing(c)'
  <2> DEFINE e == Lookup(c.at, c.base)
  <2>1. e' = e /\ (e # Nil => e \in Ents)
    BY <1>1, <1>2 DEF Lookup, TreeTypeOK
  <2> HIDE DEF e
  <2>2. e # Nil /\ kind[e] = "dir" => kind'[e] = "dir"
    BY <2>1 DEF KindsKept
  <2> QED BY <1>2, <2>1, <2>2 DEF Listing, e
<1>3. ASSUME NEW u \in Threads, u # t PROVE Listing(call[u])'
  <2>1. PICK c : c = call[u]
    OBVIOUS
  <2>2. Listing(c) /\ c.at \in Ents /\ c.base \in EntNames /\ call'[u] = c
    BY <1>3, <2>1, StepFacts DEF NInv, PInv, IInv, TypeOK
  <2>3. Listing(c)'
    BY <1>2, <2>2
  <2> QED BY <2>2, <2>3 DEF Listing
<1>4. Listing(d)'
  BY <1>2
<1> QED BY <1>3, <1>4, ListsStep

\* A step that links a new directory.
LEMMA ListsMade ==
    ASSUME NInv, PInv', NEW t \in Threads, NEW d,
           call' = [call EXCEPT ![t] = d], NEW at \in Ents, NEW e \in Ents,
           AddDirent(at, e), KindsKept, kind'[e] = "dir",
           Removing(t, d), d.pc # "list", MakesOnly(t) => Making(d)
    PROVE  NInv'
<1>1. TreeTypeOK /\ TreeTypeOK'
  BY DEF NInv, PInv, IInv, TypeOK
<1>2. ASSUME NEW x \in Ents, NEW n \in EntNames
      PROVE  Lookup(x, n)' \in {Lookup(x, n), e}
  BY <1>1 DEF AddDirent, Lookup, TreeTypeOK
<1>3. ASSUME NEW u \in Threads, u # t PROVE Listing(call[u])'
  <2>1. PICK c : c = call[u]
    OBVIOUS
  <2>2. Listing(c) /\ c.at \in Ents /\ c.base \in EntNames /\ call'[u] = c
    BY <1>3, <2>1, StepFacts DEF NInv, PInv, IInv, TypeOK
  <2>3. PICK f : f = Lookup(c.at, c.base)
    OBVIOUS
  <2>4. f # Nil /\ kind[f] = "dir" => f \in Ents /\ kind'[f] = "dir"
    BY <1>1, <2>2, <2>3 DEF KindsKept, Lookup, TreeTypeOK
  <2>5. Lookup(c.at, c.base)' \in {f, e} /\ e # Nil
    BY <1>2, <2>2, <2>3, DirsAssumption
  <2>6. Listing(c)'
    BY <2>2, <2>3, <2>4, <2>5 DEF Listing
  <2> QED BY <2>2, <2>6 DEF Listing
<1>4. Listing(d)'
  BY DEF Listing
<1> QED BY <1>3, <1>4, ListsStep

\* A step that links or unlinks something else: nobody else lists.
LEMMA ListsAlone ==
    ASSUME RemovesAlone, NInv, PInv', NEW t \in Threads, NEW d,
           call' = [call EXCEPT ![t] = d], Removing(t, d), Listing(d)',
           ~MakesOnly(t)
    PROVE  NInv'
<1>1. ASSUME NEW u \in Threads, u # t PROVE Listing(call[u])'
  <2>1. call'[u] = call[u] /\ Removing(u, call[u])
    BY <1>1 DEF NInv, PInv, IInv, TypeOK
  <2>2. call[u].pc # "list"
    BY <1>1, <2>1 DEF Removing, Removers, RemovesAlone
  <2> QED BY <2>1, <2>2 DEF Listing
<1> QED BY <1>1, ListsStep

\* How the helpers leave an operation.
LEMMA DoneRemoving ==
    ASSUME NEW t, NEW err, err # "panic"
    PROVE  /\ Removing(t, Done(err)) /\ Making(Done(err))
           /\ Done(err).pc = "idle" /\ Listing(Done(err))
           /\ Done(err).at \in Ents /\ Done(err).base \in EntNames
<1>1. /\ Done(err).op = "none" /\ Done(err).pc = "idle" /\ Done(err).err = err
      /\ Done(err).link = Nil /\ Done(err).at = Root /\ Done(err).base = Dot
  BY DEF Done, NoCall
<1> QED BY <1>1, DirsAssumption DEF Removing, Making, Removers, Goal, Listing,
        EntNames

\* From here on a step is quiet if it leads to no listing.
Quiet(t, d) ==
    /\ Removing(t, d) /\ d.pc # "list"
    /\ d.at \in Ents /\ d.base \in EntNames
    /\ MakesOnly(t) => Making(d)

\* A step that links and unlinks nothing and leads to no listing.
LEMMA QuietStep ==
    ASSUME NInv, PInv', NEW t \in Threads, NEW d,
           call' = [call EXCEPT ![t] = d], UNCHANGED direntMap, KindsKept,
           Quiet(t, d)
    PROVE  NInv'
BY ListsStill DEF Quiet, Listing

\* One that returns.
LEMMA QuietDone ==
    ASSUME NInv, PInv', NEW t \in Threads, NEW err, err # "panic",
           call' = [call EXCEPT ![t] = Done(err)], UNCHANGED direntMap, KindsKept
    PROVE  NInv'
<1>1. Quiet(t, Done(err))
  BY DoneRemoving DEF Quiet
<1> QED BY <1>1, QuietStep

\* Return leads to no listing.
LEMMA ReturnQuiet ==
    ASSUME NEW t, NEW c \in Calls, Removing(t, c), NEW err, err # "panic",
           MakesOnly(t) => Making(c)
    PROVE  Quiet(t, Return(c, err))
<1> DEFINE again == [c EXCEPT !.pc = "again", !.ent = Nil]
<1>1. CASE c.op # "RemoveAll"
  BY <1>1, DoneRemoving DEF Return, Quiet
<1>2. CASE c.op = "RemoveAll"
  <2>1. /\ again.pc = "again" /\ again.op = c.op /\ again.err = c.err
        /\ again.at \in Ents /\ again.base \in EntNames
    BY DEF Calls
  <2>2. Return(c, err) \in {again, Done("ok")}
    BY <1>2 DEF Return
  <2>3. ~MakesOnly(t)
    BY <1>2 DEF Making, Removers
  <2>4. Quiet(t, again)
    BY <1>2, <2>1, <2>3 DEF Quiet, Removing, Removers
  <2> HIDE DEF again
  <2>5. Quiet(t, Done("ok"))
    BY DoneRemoving DEF Quiet
  <2> QED BY <2>2, <2>4, <2>5
<1> QED BY <1>1, <1>2

\* A walk goes on or arrives, and leads to no listing.
LEMMA ArriveQuiet ==
    ASSUME NEW t, NEW c \in Calls, Removing(t, c), c.next \in Targets,
           MakesOnly(t) => /\ c.link = Nil /\ c.op \notin Removers
                           /\ c.next \in {"chmod", "mkdir"}
    PROVE  Quiet(t, Arrive(c))
<1> DEFINE there == [c EXCEPT !.pc = c.next, !.rest = <<>>]
           walk == [c EXCEPT !.pc = "walk"]
<1>1. /\ there.pc = c.next /\ there.op = c.op /\ there.err = c.err
      /\ there.at \in Ents /\ there.base \in EntNames /\ there.link = c.link
      /\ walk.pc = "walk" /\ walk.op = c.op /\ walk.err = c.err
      /\ walk.at \in Ents /\ walk.base \in EntNames /\ walk.link = c.link
      /\ walk.next = c.next
  BY DEF Calls
<1>2. Arrive(c) \in {there, walk}
  BY DEF Arrive
<1> HIDE DEF there, walk
<1>3. Goal(there) = c.next /\ Goal(walk) = c.next
  BY <1>1 DEF Goal, Targets
<1>4. Quiet(t, there)
  BY <1>1, <1>3 DEF Quiet, Removing, Making, Targets
<1>5. Quiet(t, walk)
  BY <1>1, <1>3 DEF Quiet, Removing, Making, Targets
<1> QED BY <1>2, <1>4, <1>5

\* A walk begins or returns at once.
LEMMA FindParentQuiet ==
    ASSUME NEW t, NEW c \in Calls, Removing(t, c), NEW p \in Seq(Names),
           NEW next \in Targets,
           MakesOnly(t) => /\ c.link = Nil /\ c.op \notin Removers
                           /\ next \in {"chmod", "mkdir"}
    PROVE  Quiet(t, FindParent(c, p, next))
<1> DEFINE w == [c EXCEPT !.at = Root, !.base = Base(p), !.rest = p,
                          !.next = next]
<1>1. w \in Calls
  BY PathTypes, DirsAssumption DEF Calls
<1>2. /\ w.next = next /\ w.op = c.op /\ w.err = c.err /\ w.link = c.link
      /\ w.pc = c.pc
  BY DEF Calls
<1>3. FindParent(c, p, next) \in {Return(c, SearchErr(Root)), Arrive(w)}
  BY DEF FindParent
<1> HIDE DEF w
<1>4. Removing(t, w)
  BY <1>2 DEF Removing
<1>5. Quiet(t, Arrive(w))
  BY <1>1, <1>2, <1>4, ArriveQuiet
<1>6. Quiet(t, Return(c, SearchErr(Root)))
  <2>1. SearchErr(Root) # "panic"
    BY DEF SearchErr
  <2>2. CASE c.op \in Removers
    <3>1. ~MakesOnly(t)
      BY <2>2
    <3> QED BY <2>1, <3>1, ReturnQuiet
  <2>3. CASE c.op \notin Removers
    <3>1. Return(c, SearchErr(Root)) = Done(SearchErr(Root))
      BY <2>3 DEF Return, Removers
    <3> QED BY <2>1, <3>1, DoneRemoving DEF Quiet
  <2> QED BY <2>2, <2>3
<1> QED BY <1>3, <1>5, <1>6

\* The loop of mkdirAll leads to no listing.
LEMMA MkdirAllLoopQuiet ==
    ASSUME NEW t, NEW c \in Calls, Removing(t, c), NEW at \in Ents,
           NEW rest \in Seq(Names),
           MakesOnly(t) => c.link = Nil /\ c.op = "MkdirAll"
    PROVE  Quiet(t, MkdirAllLoop(c, at, rest))
<1> DEFINE loop == [c EXCEPT !.pc = "mkdirAll", !.at = at, !.rest = rest]
<1>1. /\ loop.pc = "mkdirAll" /\ loop.op = c.op /\ loop.err = c.err
      /\ loop.at \in Ents /\ loop.base \in EntNames /\ loop.link = c.link
  BY DEF Calls
<1>2. Quiet(t, loop)
  <2> HIDE DEF loop
  <2>1. Goal(loop) = "mkdirAll"
    BY <1>1 DEF Goal
  <2> QED BY <1>1, <2>1 DEF Quiet, Removing, Making, Removers
<1>3. CASE rest # <<>>
  BY <1>2, <1>3 DEF MkdirAllLoop
<1>4. CASE rest = <<>> /\ c.op = "MkdirAll"
  BY <1>4, DoneRemoving DEF MkdirAllLoop, Quiet
<1>5. CASE rest = <<>> /\ c.op # "MkdirAll"
  <2>1. /\ Dir(c.path) \in Seq(Names) /\ "add" \in Targets /\ ~MakesOnly(t)
    BY <1>5, PathTypes DEF Calls, Targets
  <2>2. Quiet(t, FindParent(c, Dir(c.path), "add"))
    BY <2>1, FindParentQuiet
  <2> QED BY <1>5, <2>2 DEF MkdirAllLoop
<1> QED BY <1>3, <1>4, <1>5

\* Nor does its beginning.
LEMMA MkdirAllQuiet ==
    ASSUME NEW t, NEW c \in Calls, Removing(t, c), NEW p \in Seq(Names),
           MakesOnly(t) => c.link = Nil /\ c.op = "MkdirAll"
    PROVE  Quiet(t, MkdirAll(c, p))
<1>1. MkdirAll(c, p) \in {Done(SearchErr(Root)), MkdirAllLoop(c, Root, p)}
  BY DEF MkdirAll
<1>2. SearchErr(Root) # "panic"
  BY DEF SearchErr
<1>3. Quiet(t, Done(SearchErr(Root)))
  BY <1>2, DoneRemoving DEF Quiet
<1>4. Quiet(t, MkdirAllLoop(c, Root, p))
  BY MkdirAllLoopQuiet, DirsAssumption
<1> QED BY <1>1, <1>3, <1>4

-----------------------------------------------------------------------------
(***************************************************************************)
(* The calls.                                                              *)
(***************************************************************************)
\* What a step of t may rely on.
LEMMA ListFacts ==
    ASSUME NInv, NEW t \in Threads
    PROVE  /\ PInv /\ Removing(t, call[t]) /\ Listing(call[t])
           /\ MakesOnly(t) => Making(call[t])
           /\ call[t] \in Calls /\ call[t].at \in Ents
           /\ call[t].base \in EntNames /\ TreeTypeOK
BY StepFacts DEF NInv

\* The operations that make no directory are not those of MakesOnly.
LEMMA MakesNot ==
    ASSUME NEW t, NEW op \in Ops[t], op \notin {"Chmod", "Mkdir", "MkdirAll"}
    PROVE  ~MakesOnly(t)
BY DEF MakesOnly

\* The call of an operation that begins with a walk.
LEMMA BeginLists ==
    ASSUME NInv, PInv', NEW t \in Threads, NEW d \in Calls,
           d.op \in Ops[t], d.op \in OpNames \ {"MkdirAll"},
           d.pc = "idle", d.err = "ok", d.link = Nil,
           NEW p \in Seq(Names), NEW next \in Targets,
           d.op \in {"Chmod", "Mkdir"} => next \in {"chmod", "mkdir"},
           call' = [call EXCEPT ![t] = FindParent(d, p, next)],
           UNCHANGED <<kind, name, direntMap>>
    PROVE  NInv'
<1>1. Removing(t, d)
  BY DEF Removing, Removers, OpNames
<1>2. MakesOnly(t) => d.op \notin Removers /\ next \in {"chmod", "mkdir"}
  BY MakesNot DEF Removers
<1>3. Quiet(t, FindParent(d, p, next))
  BY <1>1, <1>2, FindParentQuiet
<1>4. KindsKept
  BY DEF KindsKept
<1> QED BY <1>3, <1>4, QuietStep

\* The calls that begin with a walk and remove nothing.
LEMMA CallFindLists ==
    ASSUME NInv, PInv', NEW t \in Threads,
           CallChmod(t) \/ CallMkdir(t) \/ CallOpenFile(t) \/ CallReallocate(t)
    PROVE  NInv'
<1> USE NoCallFields, NoCallType
<1>1. UNCHANGED <<kind, name, direntMap>>
  BY DEF CallChmod, CallMkdir, CallOpenFile, CallReallocate, treeVars
<1>2. {"chmod", "mkdir", "open", "reallocate"} \subseteq Targets
  BY DEF Targets
<1>3. CASE CallChmod(t)
  <2>1. PICK p \in Paths, m \in Perms :
          call' = [call EXCEPT ![t] =
            FindParent([NoCall EXCEPT !.op = "Chmod", !.path = p, !.perm = m],
                       p, "chmod")]
    BY <1>3 DEF CallChmod
  <2> DEFINE d == [NoCall EXCEPT !.op = "Chmod", !.path = p, !.perm = m]
  <2>2. p \in Seq(Names) /\ m \in SUBSET Bits /\ "Chmod" \in Ops[t]
    BY <1>3, SynthAssumption DEF CallChmod, Begin
  <2>3. d \in Calls
    BY ZenonT(40), <2>2 DEF Calls, OpNames
  <2>4. d.link = Nil /\ d.op = "Chmod" /\ d.pc = "idle" /\ d.err = "ok"
    BY DEF NoCall
  <2>5. call' = [call EXCEPT ![t] = FindParent(d, p, "chmod")]
    BY <2>1
  <2> HIDE DEF d
  <2> QED BY <1>1, <1>2, <2>2, <2>3, <2>4, <2>5, BeginLists DEF OpNames
<1>4. CASE CallMkdir(t)
  <2>1. PICK p \in Paths, m \in Perms :
          call' = [call EXCEPT ![t] =
            FindParent([NoCall EXCEPT !.op = "Mkdir", !.path = p, !.perm = m],
                       Dir(p), "mkdir")]
    BY <1>4 DEF CallMkdir
  <2> DEFINE d == [NoCall EXCEPT !.op = "Mkdir", !.path = p, !.perm = m]
  <2>2. /\ p \in Seq(Names) /\ m \in SUBSET Bits /\ Dir(p) \in Seq(Names)
        /\ "Mkdir" \in Ops[t]
    BY <1>4, SynthAssumption, PathTypes DEF CallMkdir, Begin
  <2>3. d \in Calls
    BY ZenonT(40), <2>2 DEF Calls, OpNames
  <2>4. d.link = Nil /\ d.op = "Mkdir" /\ d.pc = "idle" /\ d.err = "ok"
    BY DEF NoCall
  <2>5. call' = [call EXCEPT ![t] = FindParent(d, Dir(p), "mkdir")]
    BY <2>1
  <2> HIDE DEF d
  <2> QED BY <1>1, <1>2, <2>2, <2>3, <2>4, <2>5, BeginLists DEF OpNames
<1>5. CASE CallOpenFile(t)
  <2>1. PICK p \in Paths, fl \in Flags, m \in Perms :
          call' = [call EXCEPT ![t] =
            FindParent([NoCall EXCEPT !.op = "OpenFile", !.path = p,
                                      !.flag = fl, !.perm = m],
                       p, "open")]
    BY <1>5 DEF CallOpenFile
  <2> DEFINE d == [NoCall EXCEPT !.op = "OpenFile", !.path = p,
                                 !.flag = fl, !.perm = m]
  <2>2. /\ p \in Seq(Names) /\ m \in SUBSET Bits /\ fl \in FlagType
        /\ "OpenFile" \in Ops[t]
    BY <1>5, SynthAssumption DEF FlagType, CallOpenFile, Begin
  <2>3. d \in Calls
    BY ZenonT(40), <2>2 DEF Calls, OpNames
  <2>4. d.link = Nil /\ d.op = "OpenFile" /\ d.pc = "idle" /\ d.err = "ok"
    BY DEF NoCall
  <2>5. call' = [call EXCEPT ![t] = FindParent(d, p, "open")]
    BY <2>1
  <2> HIDE DEF d
  <2> QED BY <1>1, <1>2, <2>2, <2>3, <2>4, <2>5, BeginLists DEF OpNames
<1>6. CASE CallReallocate(t)
  <2>1. PICK p \in Paths :
          call' = [call EXCEPT ![t] =
            FindParent([NoCall EXCEPT !.op = "Reallocate", !.path = p,
                                      !.perm = Bits],
                       p, "reallocate")]
    BY <1>6 DEF CallReallocate
  <2> DEFINE d == [NoCall EXCEPT !.op = "Reallocate", !.path = p, !.perm = Bits]
  <2>2. p \in Seq(Names) /\ "Reallocate" \in Ops[t]
    BY <1>6, SynthAssumption DEF CallReallocate, Begin
  <2>3. d \in Calls
    BY ZenonT(40), <2>2 DEF Calls, OpNames
  <2>4. d.link = Nil /\ d.op = "Reallocate" /\ d.pc = "idle" /\ d.err = "ok"
    BY DEF NoCall
  <2>5. call' = [call EXCEPT ![t] = FindParent(d, p, "reallocate")]
    BY <2>1
  <2> HIDE DEF d
  <2> QED BY <1>1, <1>2, <2>2, <2>3, <2>4, <2>5, BeginLists DEF OpNames
<1> QED BY <1>3, <1>4, <1>5, <1>6

\* Those that remove or rename.
LEMMA CallRemoveLists ==
    ASSUME NInv, PInv', NEW t \in Threads,
           CallRemove(t) \/ CallRemoveAll(t) \/ CallRename(t)
    PROVE  NInv'
<1> USE NoCallFields, NoCallType
<1>1. UNCHANGED <<kind, name, direntMap>> /\ KindsKept
  BY DEF CallRemove, CallRemoveAll, CallRename, treeVars, KindsKept
<1>2. "remove" \in Targets /\ "renameOld" \in Targets
  BY DEF Targets
<1>3. CASE CallRemove(t)
  <2>1. PICK p \in Paths :
          call' = [call EXCEPT ![t] =
            FindParent([NoCall EXCEPT !.op = "Remove", !.path = p], p, "remove")]
    BY <1>3 DEF CallRemove
  <2> DEFINE d == [NoCall EXCEPT !.op = "Remove", !.path = p]
  <2>2. p \in Seq(Names) /\ "Remove" \in Ops[t]
    BY <1>3, SynthAssumption DEF CallRemove, Begin
  <2>3. d \in Calls
    BY ZenonT(40), <2>2 DEF Calls, OpNames
  <2>4. d.link = Nil /\ d.op = "Remove" /\ d.pc = "idle" /\ d.err = "ok"
    BY DEF NoCall
  <2>5. call' = [call EXCEPT ![t] = FindParent(d, p, "remove")]
    BY <2>1
  <2> HIDE DEF d
  <2> QED BY <1>1, <1>2, <2>2, <2>3, <2>4, <2>5, BeginLists DEF OpNames
<1>4. CASE CallRemoveAll(t)
  <2>1. PICK p \in Paths :
          call' = [call EXCEPT ![t] =
            IF p = <<>> THEN Done("EACCES")
            ELSE FindParent([NoCall EXCEPT !.op = "RemoveAll", !.path = p],
                            p, "remove")]
    BY <1>4 DEF CallRemoveAll
  <2> DEFINE d == [NoCall EXCEPT !.op = "RemoveAll", !.path = p]
  <2>2. p \in Seq(Names) /\ "RemoveAll" \in Ops[t]
    BY <1>4, SynthAssumption DEF CallRemoveAll, Begin
  <2>3. d \in Calls
    BY ZenonT(40), <2>2 DEF Calls, OpNames
  <2>4. d.link = Nil /\ d.op = "RemoveAll" /\ d.pc = "idle" /\ d.err = "ok"
    BY DEF NoCall
  <2>5. \/ call' = [call EXCEPT ![t] = Done("EACCES")]
        \/ call' = [call EXCEPT ![t] = FindParent(d, p, "remove")]
    BY <2>1
  <2> HIDE DEF d
  <2>6. CASE call' = [call EXCEPT ![t] = Done("EACCES")]
    BY <1>1, <2>6, QuietDone
  <2>7. CASE call' = [call EXCEPT ![t] = FindParent(d, p, "remove")]
    BY <1>1, <1>2, <2>2, <2>3, <2>4, <2>7, BeginLists DEF OpNames
  <2> QED BY <2>5, <2>6, <2>7
<1>5. CASE CallRename(t)
  <2>1. PICK p \in Paths, q \in Paths :
          call' = [call EXCEPT ![t] =
            IF p = q THEN Done("ok")
            ELSE IF p = <<>> \/ q = <<>> THEN Done("EBUSY")
            ELSE IF IsPrefix(p, q) THEN Done("EINVAL")
            ELSE FindParent([NoCall EXCEPT !.op = "Rename", !.path = p, !.to = q],
                            p, "renameOld")]
    BY <1>5 DEF CallRename
  <2> DEFINE d == [NoCall EXCEPT !.op = "Rename", !.path = p, !.to = q]
  <2>2. p \in Seq(Names) /\ q \in Seq(Names) /\ "Rename" \in Ops[t]
    BY <1>5, SynthAssumption DEF CallRename, Begin
  <2>3. d \in Calls
    BY ZenonT(40), <2>2 DEF Calls, OpNames
  <2>4. d.link = Nil /\ d.op = "Rename" /\ d.pc = "idle" /\ d.err = "ok"
    BY DEF NoCall
  <2>5. \/ \E err \in {"ok", "EBUSY", "EINVAL"} :
              call' = [call EXCEPT ![t] = Done(err)]
        \/ call' = [call EXCEPT ![t] = FindParent(d, p, "renameOld")]
    BY <2>1
  <2> HIDE DEF d
  <2>6. CASE \E err \in {"ok", "EBUSY", "EINVAL"} :
                call' = [call EXCEPT ![t] = Done(err)]
    BY <1>1, <2>6, QuietDone
  <2>7. CASE call' = [call EXCEPT ![t] = FindParent(d, p, "renameOld")]
    BY <1>1, <1>2, <2>2, <2>3, <2>4, <2>7, BeginLists DEF OpNames
  <2> QED BY <2>5, <2>6, <2>7
<1> QED BY <1>3, <1>4, <1>5

\* Those that begin with mkdirAll.
LEMMA CallMkdirAllLists ==
    ASSUME NInv, PInv', NEW t \in Threads, CallMkdirAll(t) \/ CallAddFile(t)
    PROVE  NInv'
<1> USE NoCallFields, NoCallType
<1>1. CASE CallMkdirAll(t)
  <2>1. PICK p \in Paths, m \in Perms :
          call' = [call EXCEPT ![t] =
            MkdirAll([NoCall EXCEPT !.op = "MkdirAll", !.path = p, !.perm = m], p)]
    BY <1>1 DEF CallMkdirAll
  <2> DEFINE d == [NoCall EXCEPT !.op = "MkdirAll", !.path = p, !.perm = m]
  <2>2. p \in Seq(Names) /\ m \in SUBSET Bits
    BY SynthAssumption
  <2>3. d \in Calls
    BY ZenonT(40), <2>2 DEF Calls, OpNames
  <2>4. d.link = Nil /\ d.op = "MkdirAll" /\ d.pc = "idle" /\ d.err = "ok"
    BY DEF NoCall
  <2>5. call' = [call EXCEPT ![t] = MkdirAll(d, p)] /\ UNCHANGED direntMap
    BY <1>1, <2>1 DEF CallMkdirAll, treeVars
  <2>6. KindsKept
    BY <1>1 DEF CallMkdirAll, treeVars, KindsKept
  <2> HIDE DEF d
  <2>7. Removing(t, d)
    BY <2>4 DEF Removing, Removers
  <2>8. Quiet(t, MkdirAll(d, p))
    BY <2>2, <2>3, <2>4, <2>7, MkdirAllQuiet
  <2> QED BY <2>5, <2>6, <2>8, QuietStep
<1>2. CASE CallAddFile(t)
  <2>1. PICK p \in Paths :
        \/ /\ call' = [call EXCEPT ![t] = Done("EIO")]
           /\ UNCHANGED treeVars
        \/ /\ Room(Len(Dir(p)) + 1) /\ Free # {}
           /\ \E m \in Perms : NewDirent(Fresh, "file", Base(p), m)
           /\ call' = [call EXCEPT ![t] =
                MkdirAll([NoCall EXCEPT !.op = "AddFile", !.path = p,
                            !.perm = Bits, !.link = Fresh], Dir(p))]
           /\ UNCHANGED <<dirents, direntMap, closes, referredAs>>
    BY <1>2 DEF CallAddFile
  <2>2. CASE call' = [call EXCEPT ![t] = Done("EIO")] /\ UNCHANGED treeVars
    BY <2>2, QuietDone DEF treeVars, KindsKept
  <2>3. CASE /\ Free # {}
             /\ \E m \in Perms : NewDirent(Fresh, "file", Base(p), m)
             /\ call' = [call EXCEPT ![t] =
                  MkdirAll([NoCall EXCEPT !.op = "AddFile", !.path = p,
                              !.perm = Bits, !.link = Fresh], Dir(p))]
             /\ UNCHANGED <<dirents, direntMap, closes, referredAs>>
    <3> DEFINE d == [NoCall EXCEPT !.op = "AddFile", !.path = p,
                              !.perm = Bits, !.link = Fresh]
    <3>1. p \in Seq(Names) /\ Dir(p) \in Seq(Names) /\ "AddFile" \in Ops[t]
      BY <1>2, SynthAssumption, PathTypes DEF CallAddFile, Begin
    <3>2. Fresh \in Ents
      BY <2>3, FreshType
    <3>3. d \in Calls
      BY ZenonT(40), <3>1, <3>2 DEF Calls, OpNames
    <3>4. d.op = "AddFile" /\ d.pc = "idle" /\ d.err = "ok"
      BY DEF NoCall
    <3>5. call' = [call EXCEPT ![t] = MkdirAll(d, Dir(p))]
      BY <2>3
    <3>6. PICK m \in Perms : NewDirent(Fresh, "file", Base(p), m)
      BY <2>3
    <3> HIDE DEF d
    <3>7. KindsKept
      BY <3>2, <3>6, ListFacts, NewDirentKeeps
    <3>8. Removing(t, d) /\ ~MakesOnly(t)
      BY <3>1, <3>4, MakesNot DEF Removing, Removers
    <3>9. Quiet(t, MkdirAll(d, Dir(p)))
      BY <3>1, <3>3, <3>8, MkdirAllQuiet
    <3> QED BY <2>3, <3>5, <3>7, <3>9, QuietStep
  <2> QED BY <2>1, <2>2, <2>3
<1> QED BY <1>1, <1>2

-----------------------------------------------------------------------------
(***************************************************************************)
(* The steps that link and unlink nothing.                                 *)
(***************************************************************************)
\* What t makes when it only makes directories, by where it is.
LEMMA MakesFacts ==
    ASSUME NInv, NEW t \in Threads, MakesOnly(t)
    PROVE  /\ call[t].link = Nil /\ call[t].op \notin Removers
           /\ call[t].pc = "walk" => call[t].next \in {"chmod", "mkdir"}
           /\ call[t].pc \in {"idle", "walk", "chmod", "mkdir", "mkdirAdd",
                              "mkdirAll", "mkdirAllAdd"}
           /\ call[t].pc \in {"mkdirAll", "mkdirAllAdd"}
                => call[t].op = "MkdirAll"
<1>1. PICK c : c = call[t]
  OBVIOUS
<1>2. Making(c) /\ Ready(c)
  BY <1>1, ListFacts, CallFacts DEF PInv
<1>3. Goal(c) = IF c.pc = "walk" THEN c.next ELSE c.pc
  BY DEF Goal
<1>4. c.pc = "walk" => c.next \in Targets
  BY <1>2 DEF Ready
<1>5. c.pc = "walk" => c.next \in {"chmod", "mkdir"}
  BY <1>2, <1>3, <1>4 DEF Making, Targets
<1>6. c.pc \in {"mkdirAll", "mkdirAllAdd"} => c.op = "MkdirAll"
  BY <1>2, <1>3 DEF Making, Ready, HasFile
<1> QED BY <1>1, <1>2, <1>3, <1>5, <1>6 DEF Making

\* A step that goes on with the operation.
LEMMA GoesOnLists ==
    ASSUME NInv, PInv', NEW t \in Threads, NEW d,
           call' = [call EXCEPT ![t] = d], UNCHANGED direntMap, KindsKept,
           d.op = call[t].op, d.err # "panic",
           d.pc \notin {"list", "again", "removeUnlink"},
           MakesOnly(t) => /\ d.link = Nil
                           /\ d.pc \in {"mkdirAdd", "mkdirAll", "mkdirAllAdd"}
    PROVE  NInv'
<1>1. call \in [Threads -> Calls] /\ call' \in [Threads -> Calls]
  BY DEF NInv, PInv, IInv, TypeOK
<1>2. d.at \in Ents /\ d.base \in EntNames
  BY <1>1 DEF Calls
<1>3. Removing(t, d)
  BY ListFacts DEF Removing
<1>4. MakesOnly(t) => Making(d)
  BY MakesFacts DEF Making, Goal
<1> QED BY <1>2, <1>3, <1>4, QuietStep DEF Quiet

\* A step of a walk.
LEMMA WalkLists ==
    ASSUME NInv, PInv', NEW t \in Threads, Walk(t)
    PROVE  NInv'
<1>1. PICK c : c = call[t]
  OBVIOUS
<1> DEFINE child == Lookup(c.at, Head(c.rest))
           w == [c EXCEPT !.at = child, !.rest = Tail(c.rest)]
<1>2. /\ c.pc = "walk" /\ UNCHANGED <<kind, name, direntMap>>
      /\ \/ /\ SearchErr(child) # "ok"
            /\ call' = [call EXCEPT ![t] = Return(c, SearchErr(child))]
         \/ /\ SearchErr(child) = "ok"
            /\ call' = [call EXCEPT ![t] = Arrive(w)]
  BY <1>1 DEF Walk, treeVars
<1>3. KindsKept
  BY <1>2 DEF KindsKept
<1>4. c \in Calls /\ Removing(t, c) /\ TreeTypeOK /\ c.at \in Ents
      /\ (MakesOnly(t) => Making(c))
  BY <1>1, ListFacts
<1>5. c.rest # <<>> /\ Head(c.rest) \in EntNames /\ Tail(c.rest) \in Seq(Names)
      /\ c.next \in Targets
  <2>1. Len(c.rest) > 1 /\ c.next \in Targets /\ c.rest \in Seq(Names)
    BY <1>1, <1>2, CallFacts DEF Ready, NInv, PInv
  <2> QED BY <2>1 DEF EntNames
<1>6. CASE SearchErr(child) # "ok"
  <2>1. SearchErr(child) # "panic"
    BY DEF SearchErr
  <2>2. Quiet(t, Return(c, SearchErr(child)))
    BY <1>4, <2>1, ReturnQuiet
  <2> QED BY <1>2, <1>3, <1>6, <2>2, QuietStep
<1>7. CASE SearchErr(child) = "ok"
  <2>1. child \in Ents
    BY <1>4, <1>5, <1>7 DEF TreeTypeOK, Lookup, SearchErr
  <2>2. /\ w \in Calls /\ w.next = c.next /\ w.pc = c.pc /\ w.op = c.op
        /\ w.err = c.err /\ w.link = c.link
    BY ZenonT(40), <1>4, <1>5, <2>1 DEF Calls
  <2>3. call' = [call EXCEPT ![t] = Arrive(w)]
    BY <1>2, <1>7
  <2> HIDE DEF w
  <2>4. Removing(t, w)
    BY <1>4, <2>2 DEF Removing
  <2>5. MakesOnly(t) => /\ w.link = Nil /\ w.op \notin Removers
                        /\ w.next \in {"chmod", "mkdir"}
    BY <1>1, <1>2, <2>2, MakesFacts
  <2>6. Quiet(t, Arrive(w))
    BY <1>5, <2>2, <2>4, <2>5, ArriveQuiet
  <2> QED BY <1>2, <1>3, <2>3, <2>6, QuietStep
<1> QED BY <1>6, <1>7

\* Chmod, and the checks of Mkdir and MkdirAll.
LEMMA MkdirLists ==
    ASSUME NInv, PInv', NEW t \in Threads,
           Chmod(t) \/ MkdirCheck(t) \/ MkdirAllLookup(t)
    PROVE  NInv'
<1>1. PICK c : c = call[t]
  OBVIOUS
<1>2. c \in Calls /\ Removing(t, c) /\ TreeTypeOK /\ c.at \in Ents
  BY <1>1, ListFacts
<1>3. UNCHANGED <<kind, name, direntMap>>
  BY DEF Chmod, MkdirCheck, MkdirAllLookup, treeVars
<1>4. KindsKept
  BY <1>3 DEF KindsKept
<1>5. MakesOnly(t) => c.link = Nil
  BY <1>1, MakesFacts
<1>6. CASE Chmod(t)
  <2>1. \E err \in {"ok", "ENOENT"} : call' = [call EXCEPT ![t] = Done(err)]
    BY <1>6 DEF Chmod
  <2> QED BY <1>3, <1>4, <2>1, QuietDone
<1>7. CASE MkdirCheck(t)
  <2> DEFINE add == [c EXCEPT !.pc = "mkdirAdd", !.at = Found(c)]
             err == MkdirErr(c, Found(c))
  <2>1. \/ call' = [call EXCEPT ![t] = Done(err)]
        \/ call' = [call EXCEPT ![t] = add]
    BY <1>1, <1>7 DEF MkdirCheck
  <2>2. err # "panic"
    BY DEF MkdirErr
  <2>3. /\ add.pc = "mkdirAdd" /\ add.op = c.op /\ add.err = c.err
        /\ add.link = c.link
    BY <1>2 DEF Calls
  <2> HIDE DEF add, err
  <2>4. CASE call' = [call EXCEPT ![t] = Done(err)]
    BY <1>3, <1>4, <2>2, <2>4, QuietDone
  <2>5. CASE call' = [call EXCEPT ![t] = add]
    BY <1>1, <1>2, <1>3, <1>4, <1>5, <2>3, <2>5, GoesOnLists DEF Removing
  <2> QED BY <2>1, <2>4, <2>5
<1>8. CASE MkdirAllLookup(t)
  <2> DEFINE add == [c EXCEPT !.pc = "mkdirAllAdd"]
             child == Lookup(c.at, Head(c.rest))
             loop == MkdirAllLoop(c, child, Tail(c.rest))
  <2>1. /\ c.pc = "mkdirAll"
        /\ \/ call' = [call EXCEPT ![t] = Done(SearchErr(child))]
           \/ call' = [call EXCEPT ![t] = add]
           \/ child # Nil /\ call' = [call EXCEPT ![t] = loop]
    BY <1>1, <1>8 DEF MkdirAllLookup
  <2>2. SearchErr(child) # "panic"
    BY DEF SearchErr
  <2>3. /\ add.pc = "mkdirAllAdd" /\ add.op = c.op /\ add.err = c.err
        /\ add.link = c.link
    BY <1>2 DEF Calls
  <2>4. Head(c.rest) \in EntNames /\ Tail(c.rest) \in Seq(Names)
    <3>1. c.rest # <<>> /\ c.rest \in Seq(Names)
      BY <1>1, <2>1, CallFacts DEF Ready, NInv, PInv
    <3> QED BY <3>1 DEF EntNames
  <2>5. CASE call' = [call EXCEPT ![t] = Done(SearchErr(child))]
    BY <1>3, <1>4, <2>2, <2>5, QuietDone
  <2>6. CASE call' = [call EXCEPT ![t] = add]
    <3> HIDE DEF add
    <3> QED BY <1>1, <1>2, <1>3, <1>4, <1>5, <2>3, <2>6, GoesOnLists DEF Removing
  <2>7. CASE child # Nil /\ call' = [call EXCEPT ![t] = loop]
    <3>1. child \in Ents
      BY <1>2, <2>4, <2>7 DEF TreeTypeOK, Lookup
    <3>2. MakesOnly(t) => c.link = Nil /\ c.op = "MkdirAll"
      BY <1>1, <2>1, MakesFacts
    <3> HIDE DEF child
    <3>3. Quiet(t, loop)
      BY <1>2, <2>4, <3>1, <3>2, MkdirAllLoopQuiet
    <3> QED BY <1>3, <1>4, <2>7, <3>3, QuietStep
  <2> QED BY <2>1, <2>5, <2>6, <2>7
<1> QED BY <1>6, <1>7, <1>8

\* OpenFile makes a file or only looks.
LEMMA OpenLists ==
    ASSUME NInv, PInv', NEW t \in Threads, OpenExisting(t) \/ OpenCreate(t)
    PROVE  NInv'
<1>1. PICK c : c = call[t]
  OBVIOUS
<1>2. c \in Calls /\ Removing(t, c) /\ TreeTypeOK /\ c.pc = "open"
  BY <1>1, ListFacts DEF OpenExisting, OpenCreate
<1>3. UNCHANGED direntMap
  BY DEF OpenExisting, OpenCreate, treeVars
<1> DEFINE link == [c EXCEPT !.pc = "openLink", !.link = Fresh]
<1>4. \/ /\ UNCHANGED <<kind, name>>
         /\ \E err : err # "panic" /\ call' = [call EXCEPT ![t] = Done(err)]
      \/ /\ Fresh \in Ents /\ NewDirent(Fresh, "file", c.base, c.perm)
         /\ call' = [call EXCEPT ![t] = link]
  <2>1. CASE OpenExisting(t)
    BY <2>1 DEF OpenExisting, OpenErr, treeVars
  <2>2. CASE OpenCreate(t)
    BY <1>1, <2>2, FreshType DEF OpenCreate, CreateErr, treeVars
  <2> QED BY <2>1, <2>2
<1>5. CASE /\ UNCHANGED <<kind, name>>
           /\ \E err : err # "panic" /\ call' = [call EXCEPT ![t] = Done(err)]
  <2>1. KindsKept
    BY <1>5 DEF KindsKept
  <2> QED BY <1>3, <1>5, <2>1, QuietDone
<1>6. CASE /\ Fresh \in Ents /\ NewDirent(Fresh, "file", c.base, c.perm)
           /\ call' = [call EXCEPT ![t] = link]
  <2>1. KindsKept
    BY <1>2, <1>6, NewDirentKeeps
  <2>2. link.pc = "openLink" /\ link.op = c.op /\ link.err = c.err
    BY <1>2 DEF Calls
  <2>3. ~MakesOnly(t)
    BY <1>1, <1>2, MakesFacts
  <2> HIDE DEF link, Fresh
  <2> QED BY <1>1, <1>2, <1>3, <1>6, <2>1, <2>2, <2>3, GoesOnLists DEF Removing
<1> QED BY <1>4, <1>5, <1>6

\* The checks of a Rename.
LEMMA RenameLists ==
    ASSUME NInv, PInv', NEW t \in Threads, RenameOld(t) \/ RenameNew(t)
    PROVE  NInv'
<1>1. PICK c : c = call[t]
  OBVIOUS
<1>2. c \in Calls /\ Removing(t, c) /\ TreeTypeOK /\ c.at \in Ents
      /\ c.base \in EntNames /\ c.to \in Seq(Names)
  BY <1>1, ListFacts, CallFacts DEF PInv
<1>3. UNCHANGED <<kind, name, direntMap>>
  BY DEF RenameOld, RenameNew, treeVars
<1>4. KindsKept
  BY <1>3 DEF KindsKept
<1>5. ~MakesOnly(t)
  BY MakesFacts DEF RenameOld, RenameNew
<1>6. CASE RenameOld(t)
  <2> DEFINE target == Lookup(c.at, c.base)
             w == [c EXCEPT !.old = target, !.from = c.at]
  <2>1. \/ \E err \in {"EACCES", "ENOENT"} :
              call' = [call EXCEPT ![t] = Done(err)]
        \/ call' = [call EXCEPT ![t] = FindParent(w, c.to, "renameNew")]
    BY <1>1, <1>6 DEF RenameOld
  <2>2. CASE \E err \in {"EACCES", "ENOENT"} :
                call' = [call EXCEPT ![t] = Done(err)]
    BY <1>3, <1>4, <2>2, QuietDone
  <2>3. CASE call' = [call EXCEPT ![t] = FindParent(w, c.to, "renameNew")]
    <3>1. target \in Ents \cup {Nil}
      BY <1>2 DEF TreeTypeOK, Lookup
    <3>2. w \in Calls /\ w.pc = c.pc /\ w.op = c.op /\ w.err = c.err
      BY ZenonT(40), <1>2, <3>1 DEF Calls
    <3> HIDE DEF w
    <3>3. Removing(t, w) /\ "renameNew" \in Targets
      BY <1>2, <3>2 DEF Removing, Targets
    <3>4. Quiet(t, FindParent(w, c.to, "renameNew"))
      BY <1>2, <1>5, <3>2, <3>3, FindParentQuiet
    <3> QED BY <1>3, <1>4, <2>3, <3>4, QuietStep
  <2> QED BY <2>1, <2>2, <2>3
<1>7. CASE RenameNew(t)
  <2> DEFINE unlink == [c EXCEPT !.pc = "renameUnlink"]
  <2>1. \/ \E err : err # "panic" /\ call' = [call EXCEPT ![t] = Done(err)]
        \/ call' = [call EXCEPT ![t] = unlink]
    BY <1>1, <1>7 DEF RenameNew, RenameErr
  <2>2. unlink.pc = "renameUnlink" /\ unlink.op = c.op /\ unlink.err = c.err
    BY <1>2 DEF Calls
  <2> HIDE DEF unlink
  <2> QED BY <1>1, <1>2, <1>3, <1>4, <1>5, <2>1, <2>2, QuietDone, GoesOnLists
          DEF Removing
<1> QED BY <1>6, <1>7

\* Reallocate and addFile up to the link.
LEMMA AddLists ==
    ASSUME NInv, PInv', NEW t \in Threads,
           ReallocCopy(t) \/ AddLookup(t) \/ AddClose(t) \/ ReallocMeta(t)
    PROVE  NInv'
<1>1. PICK c : c = call[t]
  OBVIOUS
<1>2. c \in Calls /\ Removing(t, c) /\ TreeTypeOK /\ c.path \in Seq(Names)
  BY <1>1, ListFacts, CallFacts DEF PInv
<1>3. UNCHANGED direntMap
  BY DEF ReallocCopy, AddLookup, AddClose, ReallocMeta, treeVars
<1>4. ~MakesOnly(t)
  BY MakesFacts DEF ReallocCopy, AddLookup, AddClose, ReallocMeta
<1>5. CASE UNCHANGED <<kind, name>>
           /\ \E err : err # "panic" /\ call' = [call EXCEPT ![t] = Done(err)]
  <2>1. KindsKept
    BY <1>5 DEF KindsKept
  <2> QED BY <1>3, <1>5, <2>1, QuietDone
<1>6. CASE ReallocCopy(t)
  <2> DEFINE e == Found(c)
             w == [c EXCEPT !.link = Fresh, !.old = e]
  <2>1. \/ /\ UNCHANGED <<kind, name>>
           /\ \E err : err # "panic" /\ call' = [call EXCEPT ![t] = Done(err)]
        \/ /\ ReallocErr(e) = "ok" /\ Free # {}
           /\ NewDirent(Fresh, "file", Base(c.path), Bits)
           /\ call' = [call EXCEPT ![t] = MkdirAll(w, Dir(c.path))]
    <3>1. ReallocErr(e) # "panic"
      BY DEF ReallocErr
    <3> QED BY <1>1, <1>6, <3>1 DEF ReallocCopy, treeVars
  <2>2. CASE /\ ReallocErr(e) = "ok" /\ Free # {}
             /\ NewDirent(Fresh, "file", Base(c.path), Bits)
             /\ call' = [call EXCEPT ![t] = MkdirAll(w, Dir(c.path))]
    <3>1. Fresh \in Ents /\ KindsKept
      BY <1>2, <2>2, FreshType, NewDirentKeeps
    <3>2. e \in Ents /\ Dir(c.path) \in Seq(Names)
      <4>1. e \in Ents \cup {Nil}
        BY <1>1, FoundType, CallFacts DEF NInv, PInv
      <4> QED BY <1>2, <2>2, <4>1, PathTypes DEF ReallocErr
    <3>3. w \in Calls /\ w.pc = c.pc /\ w.op = c.op /\ w.err = c.err
      BY ZenonT(40), <1>2, <3>1, <3>2 DEF Calls
    <3> HIDE DEF w
    <3>4. Removing(t, w)
      BY <1>2, <3>3 DEF Removing
    <3>5. Quiet(t, MkdirAll(w, Dir(c.path)))
      BY <1>4, <3>2, <3>3, <3>4, MkdirAllQuiet
    <3> QED BY <1>3, <2>2, <3>1, <3>5, QuietStep
  <2> QED BY <1>5, <2>1, <2>2
<1>7. CASE AddLookup(t)
  <2> DEFINE parent == Found(c)
             link == [c EXCEPT !.pc = "addLink", !.at = parent]
             close == [c EXCEPT !.pc = "addClose", !.at = parent,
                                !.ent = Lookup(parent, Base(c.path))]
  <2>1. \/ /\ UNCHANGED <<kind, name>>
           /\ \E err : err # "panic" /\ call' = [call EXCEPT ![t] = Done(err)]
        \/ call' = [call EXCEPT ![t] = link]
        \/ call' = [call EXCEPT ![t] = close]
    <3>1. WritableErr(parent) # "panic"
      BY DEF WritableErr, SearchErr
    <3> QED BY <1>1, <1>7, <3>1 DEF AddLookup, treeVars
  <2>2. /\ link.pc = "addLink" /\ link.op = c.op /\ link.err = c.err
        /\ close.pc = "addClose" /\ close.op = c.op /\ close.err = c.err
    BY <1>2 DEF Calls
  <2>3. KindsKept
    BY <1>7 DEF AddLookup, treeVars, KindsKept
  <2> HIDE DEF link, close
  <2> QED BY <1>1, <1>2, <1>3, <1>4, <1>5, <2>1, <2>2, <2>3, GoesOnLists
          DEF Removing
<1>8. CASE AddClose(t)
  <2> DEFINE link == [c EXCEPT !.pc = "addLink", !.ent = Nil]
  <2>1. call' = [call EXCEPT ![t] = link]
    BY <1>1, <1>8 DEF AddClose
  <2>2. link.pc = "addLink" /\ link.op = c.op /\ link.err = c.err
    BY <1>2 DEF Calls
  <2>3. KindsKept
    BY <1>8 DEF AddClose, KindsKept
  <2> HIDE DEF link
  <2> QED BY <1>1, <1>2, <1>3, <1>4, <2>1, <2>2, <2>3, GoesOnLists DEF Removing
<1>9. CASE ReallocMeta(t)
  BY <1>5, <1>9 DEF ReallocMeta
<1> QED BY <1>6, <1>7, <1>8, <1>9

\* removeAllFrom lists after ENOTEMPTY only.
LEMMA AfterRemoveQuiet ==
    ASSUME NEW t, NEW c \in Calls, Removing(t, c), NEW err,
           err \notin {"panic", "ENOTEMPTY"}, ~MakesOnly(t)
    PROVE  Quiet(t, AfterRemove(c, err))
<1> DEFINE next == [c EXCEPT !.pc = "next", !.ent = Nil]
<1>1. /\ next.pc = "next" /\ next.op = c.op /\ next.err = c.err
      /\ next.at \in Ents /\ next.base \in EntNames
  BY DEF Calls
<1>2. AfterRemove(c, err) \in {Return(c, err), Done(err), next}
  BY DEF AfterRemove
<1> HIDE DEF next
<1>3. Quiet(t, next)
  BY <1>1 DEF Quiet, Removing
<1>4. Quiet(t, Done(err))
  BY DoneRemoving DEF Quiet
<1>5. Quiet(t, Return(c, err))
  BY ReturnQuiet
<1> QED BY <1>2, <1>3, <1>4, <1>5

\* A removal finds its entry, or a directory that is not empty.
LEMMA RemoveLists ==
    ASSUME NInv, PInv', NEW t \in Threads, RemoveCheck(t) \/ RemoveClose(t)
    PROVE  NInv'
<1>1. PICK c : c = call[t]
  OBVIOUS
<1>2. c \in Calls /\ Removing(t, c) /\ TreeTypeOK /\ c.at \in Ents
      /\ c.base \in EntNames
  BY <1>1, ListFacts
<1>3. UNCHANGED <<kind, name, direntMap>> /\ ~MakesOnly(t)
  BY MakesFacts DEF RemoveCheck, RemoveClose, treeVars
<1>4. KindsKept
  BY <1>3 DEF KindsKept
<1>5. CASE RemoveCheck(t)
  <2> DEFINE err == RemoveErr(c)
             ent == Lookup(c.at, c.base)
             close == [c EXCEPT !.pc = "removeClose", !.ent = ent]
             list == [c EXCEPT !.pc = "list"]
  <2>1. \/ call' = [call EXCEPT ![t] = AfterRemove(c, err)]
        \/ call' = [call EXCEPT ![t] = close]
    BY <1>1, <1>5 DEF RemoveCheck
  <2>2. /\ close.pc = "removeClose" /\ close.op = c.op /\ close.err = c.err
        /\ list.pc = "list" /\ list.op = c.op /\ list.err = c.err
        /\ list.at = c.at /\ list.base = c.base
    BY <1>2 DEF Calls
  <2>3. err # "panic"
    BY DEF RemoveErr
  <2>4. err = "ENOTEMPTY" => ent # Nil /\ kind[ent] = "dir"
    <3>1. err = "ENOTEMPTY" => ent # Nil /\ Len0(ent) > 0
      BY DEF RemoveErr
    <3>2. Len0(ent) > 0 => kind[ent] = "dir"
      BY DEF Len0
    <3> QED BY <3>1, <3>2
  <2>5. AfterRemove(c, "ENOTEMPTY") = IF c.op = "removeAllFrom" THEN list
                                      ELSE Return(c, "ENOTEMPTY")
    BY DEF AfterRemove
  <2> HIDE DEF close, list, err
  <2>6. CASE call' = [call EXCEPT ![t] = close]
    BY <1>1, <1>2, <1>3, <1>4, <2>2, <2>6, GoesOnLists DEF Removing
  <2>7. CASE err # "ENOTEMPTY" /\ call' = [call EXCEPT ![t] = AfterRemove(c, err)]
    BY <1>2, <1>3, <1>4, <2>3, <2>7, AfterRemoveQuiet, QuietStep
  <2>8. CASE /\ err = "ENOTEMPTY" /\ c.op # "removeAllFrom"
             /\ call' = [call EXCEPT ![t] = Return(c, "ENOTEMPTY")]
    <3>1. Quiet(t, Return(c, "ENOTEMPTY"))
      BY <1>2, <1>3, ReturnQuiet
    <3> QED BY <1>3, <1>4, <2>8, <3>1, QuietStep
  <2>9. CASE /\ err = "ENOTEMPTY" /\ c.op = "removeAllFrom"
             /\ call' = [call EXCEPT ![t] = list]
    <3>1. Removing(t, list)
      BY <1>2, <2>2, <2>9 DEF Removing
    <3>2. Listing(list)
      BY <2>2, <2>4, <2>9 DEF Listing
    <3> QED BY <1>2, <1>3, <1>4, <2>2, <2>9, <3>1, <3>2, ListsStill
  <2> QED BY <2>1, <2>5, <2>6, <2>7, <2>8, <2>9
<1>6. CASE RemoveClose(t)
  <2>1. PICK err \in {"ok", "ErrClosedWithError"} :
          call' = [call EXCEPT ![t] = [c EXCEPT !.pc = "removeUnlink",
                                                !.err = err]]
    BY <1>1, <1>6 DEF RemoveClose
  <2> DEFINE d == [c EXCEPT !.pc = "removeUnlink", !.err = err]
  <2>2. /\ d.pc = "removeUnlink" /\ d.op = c.op /\ d.err = err
        /\ d.at = c.at /\ d.base = c.base
    BY <1>2 DEF Calls
  <2>3. call' = [call EXCEPT ![t] = d]
    BY <2>1
  <2> HIDE DEF d
  <2>4. Quiet(t, d)
    BY <1>2, <1>3, <2>1, <2>2 DEF Quiet, Removing
  <2> QED BY <1>3, <1>4, <2>3, <2>4, QuietStep
<1> QED BY <1>5, <1>6

\* RemoveAllList finds the directory it was told is not empty.
LEMMA RemoveAllLists ==
    ASSUME NInv, PInv', NEW t \in Threads,
           RemoveAllAgain(t) \/ RemoveAllList(t) \/ RemoveAllNext(t)
    PROVE  NInv'
<1>1. PICK c : c = call[t]
  OBVIOUS
<1>2. c \in Calls /\ Removing(t, c) /\ c.path \in Seq(Names)
  BY <1>1, ListFacts, CallFacts DEF PInv
<1>3. UNCHANGED <<kind, name, direntMap>> /\ ~MakesOnly(t)
  BY MakesFacts DEF RemoveAllAgain, RemoveAllList, RemoveAllNext, treeVars
<1>4. KindsKept
  BY <1>3 DEF KindsKept
<1>5. CASE RemoveAllAgain(t)
  <2> DEFINE d == [c EXCEPT !.op = "removeAllFrom"]
  <2>1. c.pc = "again" /\ call' = [call EXCEPT ![t] = FindParent(d, c.path, "remove")]
    BY <1>1, <1>5 DEF RemoveAllAgain
  <2>2. /\ d \in Calls /\ d.op = "removeAllFrom" /\ d.pc = c.pc /\ d.err = c.err
        /\ "remove" \in Targets
    BY <1>2 DEF Calls, Targets
  <2> HIDE DEF d
  <2>3. Removing(t, d)
    BY <1>2, <2>1, <2>2 DEF Removing, Removers
  <2>4. Quiet(t, FindParent(d, c.path, "remove"))
    BY <1>2, <1>3, <2>2, <2>3, FindParentQuiet
  <2> QED BY <1>3, <1>4, <2>1, <2>4, QuietStep
<1>6. CASE RemoveAllList(t)
  <2> DEFINE d == Lookup(c.at, c.base)
             frame == [dir |-> d, names |-> ListName(d)]
             next == [c EXCEPT !.pc = "next", !.ent = Nil,
                               !.stack = Append(c.stack, frame)]
  <2>1. d # Nil /\ kind[d] # "file"
    BY <1>1, <1>6, ListFacts DEF RemoveAllList, Listing
  <2>2. call' = [call EXCEPT ![t] = next]
    BY <1>1, <1>6, <2>1 DEF RemoveAllList
  <2>3. next.pc = "next" /\ next.op = c.op /\ next.err = c.err
    BY <1>2 DEF Calls
  <2> HIDE DEF next
  <2> QED BY <1>1, <1>2, <1>3, <1>4, <2>2, <2>3, GoesOnLists DEF Removing
<1>7. CASE RemoveAllNext(t)
  <2> DEFINE top == Last(c.stack)
             pop == [c EXCEPT !.stack = Front(c.stack)]
             goes == [c EXCEPT !.pc = "remove", !.at = top.dir,
                           !.base = Head(top.names),
                           !.stack = Append(Front(c.stack),
                                [top EXCEPT !.names = Tail(@)])]
  <2>1. /\ c.pc = "next"
        /\ \/ call' = [call EXCEPT ![t] = Done("ok")]
           \/ call' = [call EXCEPT ![t] = pop]
           \/ call' = [call EXCEPT ![t] = goes]
    BY <1>1, <1>2, <1>7 DEF RemoveAllNext, Calls
  <2>2. /\ pop.pc = "next" /\ pop.op = c.op /\ pop.err = c.err
        /\ goes.pc = "remove" /\ goes.op = c.op /\ goes.err = c.err
    BY <1>2, <2>1 DEF Calls
  <2> HIDE DEF pop, goes
  <2>3. CASE call' = [call EXCEPT ![t] = Done("ok")]
    BY <1>3, <1>4, <2>3, QuietDone
  <2>4. CASE call' = [call EXCEPT ![t] = pop]
    BY <1>1, <1>2, <1>3, <1>4, <2>2, <2>4, GoesOnLists DEF Removing
  <2>5. CASE call' = [call EXCEPT ![t] = goes]
    BY <1>1, <1>2, <1>3, <1>4, <2>2, <2>5, GoesOnLists DEF Removing
  <2> QED BY <2>1, <2>3, <2>4, <2>5
<1> QED BY <1>5, <1>6, <1>7

-----------------------------------------------------------------------------
(***************************************************************************)
(* The steps that link and unlink.                                         *)
(***************************************************************************)
\* Mkdir and MkdirAll link a directory.
LEMMA MadeLists ==
    ASSUME NInv, PInv', NEW t \in Threads, MkdirAdd(t) \/ MkdirAllAdd(t)
    PROVE  NInv'
<1>1. PICK c : c = call[t]
  OBVIOUS
<1>2. c \in Calls /\ Removing(t, c) /\ TreeTypeOK /\ c.at \in Ents
  BY <1>1, ListFacts
<1> DEFINE loop == MkdirAllLoop(c, Fresh, Tail(c.rest))
<1>3. /\ Fresh \in Ents /\ AddDirent(c.at, Fresh)
      /\ \E n, m : NewDirent(Fresh, "dir", n, m)
      /\ \/ \E err \in {"ok", "EACCES"} : call' = [call EXCEPT ![t] = Done(err)]
         \/ c.pc = "mkdirAllAdd" /\ call' = [call EXCEPT ![t] = loop]
  BY <1>1, FreshType DEF MkdirAdd, MkdirAllAdd
<1>4. KindsKept /\ kind'[Fresh] = "dir"
  BY <1>2, <1>3, NewDirentKeeps, NewDirentStays
<1>5. CASE \E err \in {"ok", "EACCES"} : call' = [call EXCEPT ![t] = Done(err)]
  <2>1. PICK err \in {"ok", "EACCES"} : call' = [call EXCEPT ![t] = Done(err)]
    BY <1>5
  <2>2. PICK d : d = Done(err)
    OBVIOUS
  <2>3. /\ call' = [call EXCEPT ![t] = d] /\ Removing(t, d) /\ d.pc # "list"
        /\ (MakesOnly(t) => Making(d))
    BY <2>1, <2>2, DoneRemoving
  <2> HIDE DEF Fresh
  <2> QED BY <1>2, <1>3, <1>4, <2>3, ListsMade
<1>6. CASE c.pc = "mkdirAllAdd" /\ call' = [call EXCEPT ![t] = loop]
  <2>1. Tail(c.rest) \in Seq(Names)
    <3>1. c.rest # <<>> /\ c.rest \in Seq(Names)
      BY <1>1, <1>6, CallFacts DEF Ready, NInv, PInv
    <3> QED BY <3>1
  <2>2. MakesOnly(t) => c.link = Nil /\ c.op = "MkdirAll"
    BY <1>1, <1>6, MakesFacts
  <2> HIDE DEF Fresh
  <2>3. Quiet(t, loop)
    BY <1>2, <1>3, <2>1, <2>2, MkdirAllLoopQuiet
  <2> HIDE DEF loop
  <2> QED BY <1>2, <1>3, <1>4, <1>6, <2>3, ListsMade DEF Quiet
<1> QED BY <1>3, <1>5, <1>6

\* The others are not next to a goroutine that lists.
LEMMA AloneLists ==
    ASSUME RemovesAlone, NInv, PInv', NEW t \in Threads,
           \/ OpenLink(t) \/ AddLink(t) \/ RemoveUnlink(t)
           \/ RenameUnlink(t) \/ RenameLink(t)
    PROVE  NInv'
<1>1. PICK c : c = call[t]
  OBVIOUS
<1>2. c \in Calls /\ Removing(t, c)
  BY <1>1, ListFacts
<1>3. ~MakesOnly(t)
  BY MakesFacts DEF OpenLink, AddLink, RemoveUnlink, RenameUnlink, RenameLink
<1>4. ASSUME NEW d, call' = [call EXCEPT ![t] = d], Quiet(t, d)
      PROVE  NInv'
  <2>1. Listing(d)'
    BY <1>4 DEF Quiet, Listing
  <2> QED BY <1>3, <1>4, <2>1, ListsAlone DEF Quiet
<1>5. CASE OpenLink(t) \/ RenameLink(t)
  BY <1>4, <1>5, DoneRemoving DEF OpenLink, RenameLink, Quiet
<1> DEFINE meta == [c EXCEPT !.pc = "meta"]
           link == [c EXCEPT !.pc = "renameLink"]
<1>6. Quiet(t, meta) /\ Quiet(t, link)
  <2>1. /\ meta.pc = "meta" /\ meta.op = c.op /\ meta.err = c.err
        /\ meta.at \in Ents /\ meta.base \in EntNames
        /\ link.pc = "renameLink" /\ link.op = c.op /\ link.err = c.err
        /\ link.at \in Ents /\ link.base \in EntNames
    BY <1>2 DEF Calls
  <2> HIDE DEF meta, link
  <2> QED BY <1>2, <1>3, <2>1 DEF Quiet, Removing
<1>7. CASE AddLink(t)
  <2>1. \/ call' = [call EXCEPT ![t] = Done("ok")]
        \/ call' = [call EXCEPT ![t] = meta]
    BY <1>1, <1>7 DEF AddLink
  <2> HIDE DEF meta
  <2> QED BY <1>4, <1>6, <2>1, DoneRemoving DEF Quiet
<1>8. CASE RenameUnlink(t)
  <2>1. call' = [call EXCEPT ![t] = link]
    BY <1>1, <1>8 DEF RenameUnlink
  <2> QED BY <1>4, <1>6, <2>1
<1>9. CASE RemoveUnlink(t)
  <2> DEFINE r == [c EXCEPT !.err = "ok"]
  <2>1. c.pc = "removeUnlink" /\ call' = [call EXCEPT ![t] = AfterRemove(r, c.err)]
    BY <1>1, <1>9 DEF RemoveUnlink
  <2>2. r \in Calls /\ r.pc = c.pc /\ r.op = c.op /\ r.err = "ok"
    BY <1>2 DEF Calls, Errors
  <2> HIDE DEF r
  <2>3. Removing(t, r) /\ c.err \in {"ok", "ErrClosedWithError"}
    BY <1>2, <2>1, <2>2 DEF Removing
  <2>4. Quiet(t, AfterRemove(r, c.err))
    BY <1>3, <2>2, <2>3, AfterRemoveQuiet
  <2> QED BY <1>4, <2>1, <2>4
<1> QED BY <1>5, <1>7, <1>8, <1>9

-----------------------------------------------------------------------------
\* In the beginning nobody lists.
LEMMA InitLists == Init => NInv
<1> SUFFICES ASSUME Init PROVE NInv
  OBVIOUS
<1>1. PInv
  BY InitPermitted
<1>2. /\ NoCall.pc = "idle" /\ NoCall.op = "none" /\ NoCall.link = Nil
      /\ NoCall.err = "ok"
  BY DEF NoCall
<1>3. \A t \in Threads : call[t] = NoCall
  BY DEF Init
<1> QED BY <1>1, <1>2, <1>3 DEF NInv, Removing, Listing, Making, Removers, Goal

\* The invariant is inductive while nobody else unlinks or makes files.
LEMMA NextLists == RemovesAlone /\ NInv /\ [Next]_vars => NInv'
<1> SUFFICES ASSUME RemovesAlone, NInv, [Next]_vars PROVE NInv'
  OBVIOUS
<1>1. PInv'
  BY NextPermitted DEF NInv
<1>2. ASSUME NEW t \in Threads, Call(t) PROVE NInv'
  BY <1>1, <1>2, CallFindLists, CallRemoveLists, CallMkdirAllLists DEF Call
<1>3. ASSUME NEW t \in Threads, Step(t) PROVE NInv'
  BY <1>1, <1>3, WalkLists, MkdirLists, OpenLists, RemoveLists, RemoveAllLists,
     RenameLists, AddLists, MadeLists, AloneLists DEF Step
<1>4. CASE UNCHANGED vars
  BY <1>1, <1>4 DEF vars, treeVars, NInv, Removing, Listing, Making, Goal,
     Lookup, MakesOnly
<1> QED BY <1>2, <1>3, <1>4 DEF Next

\* RemoveAll finds every directory it goes back to after ENOTEMPTY, and lists
\* it, whatever directories other goroutines make meanwhile and whatever they
\* chmod.  Next to one that removes, renames or makes files it may find
\* nothing, or a file, and dereference a nil pointer.
THEOREM RemoveAllFinds ==
    ASSUME RemovesAlone
    PROVE  Spec => []NoPanic
<1>1. NInv => NoPanic
  BY DEF NInv, Removing, NoPanic
<1>2. RemovesAlone
  OBVIOUS
<1>3. NInv /\ [Next]_vars => NInv'
  BY <1>2, NextLists
<1> QED BY <1>1, <1>3, InitLists, PTL DEF Spec
=============================================================================
