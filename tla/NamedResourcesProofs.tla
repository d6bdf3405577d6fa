------------------------ MODULE NamedResourcesProofs ------------------------
(***************************************************************************)
(* For every set of handles and every number of faults: who opens a name    *)
(* between two removals shares one object, and no name is left without a    *)
(* handle that will remove it.                                              *)
(***************************************************************************)
EXTENDS NamedResources, TLAPS

Ref == [object : Handle, epoch : Nat]

Places == {"none", "opening", "live", "removing", "gone",
           "locked", "waiting", "woken", "returning"}

TypesOK ==
  /\ class \in {"event", "memory", "queue"}
  /\ table \in [Name -> Handle \cup {None}]
  /\ removals \in [Name -> Nat]
  /\ at \in [Handle -> Places]
  /\ refs \in [Handle -> Seq(Ref)]
  /\ removed \in [Handle -> Nat]
  /\ orphaned \subseteq Name

\* How far the constructor and the destructor of each handle have come.
ProgressOK ==
  \A h \in Handle :
    /\ Len(refs[h]) <= Len(Names)
    /\ at[h] = "none" => refs[h] = <<>>
    /\ at[h] \in {"none", "opening"} => Len(refs[h]) < Len(Names)
    /\ at[h] \in {"live", "removing"} => removed[h] < Len(Names)
    /\ at[h] \notin {"removing", "gone"} => removed[h] = 0

\* Nobody has opened a name after a removal that is still to come.
EpochsOK ==
  \A h \in Handle : \A i \in DOMAIN refs[h] : refs[h][i].epoch <= removals[Names[i]]

\* While a name is not removed, it stands for the object it was opened for.
CurrentOK ==
  \A h \in Handle : \A i \in DOMAIN refs[h] :
    refs[h][i].epoch = removals[Names[i]] => refs[h][i].object = table[Names[i]]

\* Between two removals of a name there is one object.
SharedOK ==
  \A g, h \in Handle : \A i \in DOMAIN refs[g] \cap DOMAIN refs[h] :
    refs[g][i].epoch = refs[h][i].epoch => refs[g][i].object = refs[h][i].object

NamesInv == TypesOK /\ ProgressOK /\ EpochsOK /\ CurrentOK /\ SharedOK

-----------------------------------------------------------------------------
\* A class has one or two names, and they differ.
LEMMA NamesFact ==
  ASSUME TypesOK
  PROVE  /\ Len(Names) \in {1, 2}
         /\ \A i \in 1 .. Len(Names) : Names[i] \in Name
         /\ \A i, j \in 1 .. Len(Names) : Names[i] = Names[j] => i = j
<1>1. CASE class = "event"
  <2>1. Names = <<"cv", "mtx">>
    BY <1>1 DEF Names
  <2>2. Len(Names) = 2 /\ Names[1] = "cv" /\ Names[2] = "mtx"
    BY <2>1
  <2>3. \A i \in 1 .. Len(Names) : i = 1 \/ i = 2
    BY <2>2
  <2> QED BY <2>2, <2>3 DEF Name
<1>2. CASE class # "event"
  <2>1. Names = <<"segment">>
    BY <1>2 DEF Names
  <2>2. Len(Names) = 1 /\ Names[1] = "segment"
    BY <2>1
  <2>3. \A i \in 1 .. Len(Names) : i = 1
    BY <2>2
  <2> QED BY <2>2, <2>3 DEF Name
<1> QED BY <1>1, <1>2

\* A step that leaves the names and what was opened alone keeps NamesInv, if
\* the place of each handle still fits its progress.
LEMMA OnlyPlaces ==
  ASSUME NamesInv, NEW h \in Handle, NEW place \in Places,
         Go(h, place), UNCHANGED <<class, table, removals, refs, removed>>,
         orphaned' \subseteq Name,
         place \in {"live", "locked", "waiting", "woken", "returning"} => 
           at[h] \notin {"none", "opening", "removing", "gone"},
         place \notin {"none", "opening", "removing"}
  PROVE  NamesInv'
<1> USE DEF NamesInv
<1>1. Names' = Names
  BY DEF Names
<1>2. TypesOK'
  BY DEF TypesOK, Go
<1>3. ProgressOK'
  <2> SUFFICES ASSUME NEW g \in Handle
               PROVE  /\ Len(refs[g]) <= Len(Names)
                      /\ at'[g] = "none" => refs[g] = <<>>
                      /\ at'[g] \in {"none", "opening"} => Len(refs[g]) < Len(Names)
                      /\ at'[g] \in {"live", "removing"} => removed[g] < Len(Names)
                      /\ at'[g] \notin {"removing", "gone"} => removed[g] = 0
    BY <1>1 DEF ProgressOK
  <2>1. CASE g # h
    BY <2>1 DEF ProgressOK, TypesOK, Go
  <2>2. CASE g = h
    <3>1. at'[g] = place
      BY <2>2 DEF TypesOK, Go
    <3>2. Len(Names) >= 1
      BY NamesFact
    <3>3. place # "gone" => removed[g] = 0
      BY <2>2 DEF ProgressOK, Places
    <3> QED BY <3>1, <3>2, <3>3 DEF ProgressOK
  <2> QED BY <2>1, <2>2
<1>4. EpochsOK' /\ CurrentOK' /\ SharedOK'
  BY <1>1 DEF EpochsOK, CurrentOK, SharedOK
<1> QED BY <1>2, <1>3, <1>4

\* Every object a handle refers to was opened under a name of its class.
LEMMA RefsFact ==
  ASSUME NamesInv, NEW g \in Handle, NEW i \in DOMAIN refs[g]
  PROVE  /\ i \in 1 .. Len(Names) /\ Names[i] \in Name
         /\ refs[g][i] \in Ref
         /\ refs[g][i].epoch \in Nat /\ refs[g][i].object \in Handle
<1>1. refs[g] \in Seq(Ref) /\ Len(refs[g]) <= Len(Names)
  BY DEF NamesInv, TypesOK, ProgressOK
<1>2. refs[g][i] \in Ref /\ i \in 1 .. Len(refs[g])
  BY <1>1
<1>3. i \in 1 .. Len(Names) /\ Names[i] \in Name
  BY <1>1, <1>2, NamesFact DEF NamesInv
<1> QED BY <1>2, <1>3 DEF Ref

\* Opening the next name.
LEMMA OpenKeeps ==
  ASSUME NamesInv, NEW h \in Handle, NEW tag \in creation_tags, Open(h, tag)
  PROVE  NamesInv'
<1> USE DEF NamesInv
<1> DEFINE k == Len(refs[h]) + 1
           n == Names[k]
           r == [object |-> table'[n], epoch |-> removals[n]]
<1>1. Names' = Names
  BY DEF Names, Open
<1>2. k \in 1 .. Len(Names) /\ n \in Name /\ refs[h] \in Seq(Ref)
  BY NamesFact DEF Open, ProgressOK, TypesOK
<1>3. /\ table' \in [Name -> Handle \cup {None}]
      /\ table'[n] \in Handle
      /\ \A m \in Name : table[m] # None => table'[m] = table[m]
  BY <1>2 DEF Open, OpenName, Create, TypesOK
<1>4. r \in Ref /\ removals' = removals /\ removed' = removed /\ orphaned' = orphaned
  BY <1>2, <1>3 DEF Open, TypesOK, Ref
<1>5. /\ refs' = [refs EXCEPT ![h] = Append(refs[h], r)]
      /\ Go(h, IF k = Len(Names) THEN "live" ELSE "opening")
      /\ at[h] \in {"none", "opening"}
  BY DEF Open
<1>6. /\ Append(refs[h], r) \in Seq(Ref)
      /\ Len(Append(refs[h], r)) = k
      /\ DOMAIN Append(refs[h], r) = 1 .. k
      /\ Append(refs[h], r)[k] = r
      /\ \A i \in DOMAIN refs[h] : i \in 1 .. k - 1 /\ Append(refs[h], r)[i] = refs[h][i]
      /\ DOMAIN refs[h] = 1 .. k - 1
  BY <1>2, <1>4
<1> HIDE DEF k, n, r
<1>7. TypesOK'
  BY <1>3, <1>4, <1>5, <1>6 DEF TypesOK, Go, Places, Open
<1>8. ProgressOK'
  BY <1>1, <1>2, <1>5, <1>6, <1>4, NamesFact DEF ProgressOK, TypesOK, Go
<1>9. \A g \in Handle : \A i \in DOMAIN refs'[g] :
        \/ g = h /\ i = k /\ refs'[g][i] = r
        \/ i \in DOMAIN refs[g] /\ refs'[g][i] = refs[g][i]
  BY <1>2, <1>5, <1>6 DEF TypesOK
<1>10. \A g \in Handle : \A i \in DOMAIN refs[g] :
         /\ i \in 1 .. Len(Names) /\ Names[i] \in Name
         /\ refs[g][i] \in Ref
  BY RefsFact
<1>11. r.epoch = removals[n] /\ r.object = table'[n] /\ n = Names[k]
  BY DEF r, n
<1>12. EpochsOK'
  <2> SUFFICES ASSUME NEW g \in Handle, NEW i \in DOMAIN refs'[g]
               PROVE  refs'[g][i].epoch <= removals[Names[i]]
    BY <1>1, <1>4 DEF EpochsOK
  <2>1. removals[n] \in Nat
    BY <1>2 DEF TypesOK
  <2>2. CASE g = h /\ i = k /\ refs'[g][i] = r
    BY <2>1, <2>2, <1>11
  <2>3. CASE i \in DOMAIN refs[g] /\ refs'[g][i] = refs[g][i]
    BY <2>3 DEF EpochsOK
  <2> QED BY <2>2, <2>3, <1>9
<1>13. CurrentOK'
  <2> SUFFICES ASSUME NEW g \in Handle, NEW i \in DOMAIN refs'[g],
                      refs'[g][i].epoch = removals[Names[i]]
               PROVE  refs'[g][i].object = table'[Names[i]]
    BY <1>1, <1>4 DEF CurrentOK
  <2>1. CASE g = h /\ i = k /\ refs'[g][i] = r
    BY <2>1, <1>11
  <2>2. CASE i \in DOMAIN refs[g] /\ refs'[g][i] = refs[g][i]
    <3>1. refs[g][i].object = table[Names[i]] /\ refs[g][i].object \in Handle
      BY <2>2, <1>10 DEF CurrentOK, Ref
    <3> QED BY <3>1, <2>2, <1>3, <1>10, ConstantsAssumption
  <2> QED BY <2>1, <2>2, <1>9
<1>14. \A g \in Handle : k \in DOMAIN refs[g] /\ refs[g][k].epoch = r.epoch =>
          refs[g][k].object = r.object
  <2> SUFFICES ASSUME NEW g \in Handle, k \in DOMAIN refs[g], refs[g][k].epoch = r.epoch
               PROVE  refs[g][k].object = r.object
    OBVIOUS
  <2>1. refs[g][k].object = table[n] /\ refs[g][k].object \in Handle
    BY <1>10, <1>11 DEF CurrentOK, Ref
  <2> QED BY <2>1, <1>2, <1>3, <1>11, ConstantsAssumption
<1>15. SharedOK'
  <2> SUFFICES ASSUME NEW f \in Handle, NEW g \in Handle, NEW i,
                      i \in DOMAIN refs'[f], i \in DOMAIN refs'[g],
                      refs'[f][i].epoch = refs'[g][i].epoch
               PROVE  refs'[f][i].object = refs'[g][i].object
    BY DEF SharedOK
  <2>1. CASE i \in DOMAIN refs[f] /\ refs'[f][i] = refs[f][i] /\ i \in DOMAIN refs[g] /\ refs'[g][i] = refs[g][i]
    BY <2>1 DEF SharedOK
  <2>2. CASE f = h /\ i = k /\ refs'[f][i] = r
    BY <2>2, <1>9, <1>14
  <2>3. CASE g = h /\ i = k /\ refs'[g][i] = r
    BY <2>3, <1>9, <1>14
  <2> QED BY <2>1, <2>2, <2>3, <1>9
<1> QED BY <1>7, <1>8, <1>12, <1>13, <1>15

\* Removing the next name.
LEMMA RemoveKeeps ==
  ASSUME NamesInv, NEW h \in Handle, RemoveNext(h)
  PROVE  NamesInv'
<1> USE DEF NamesInv
<1> DEFINE n == Names[removed[h] + 1]
<1>1. Names' = Names /\ refs' = refs
  BY DEF Names, RemoveNext
<1>2. removed[h] \in Nat /\ removed[h] < Len(Names) /\ n \in Name
  BY NamesFact DEF RemoveNext, ProgressOK, TypesOK
<1>3. TypesOK'
  BY <1>2 DEF TypesOK, RemoveNext, remove, Go, Places
<1>4. ProgressOK'
  BY <1>1, <1>2, NamesFact DEF ProgressOK, TypesOK, RemoveNext, Go
<1>5. \A g \in Handle : \A i \in DOMAIN refs[g] :
        /\ Names[i] \in Name
        /\ refs[g][i].epoch \in Nat /\ refs[g][i].object \in Handle
  BY RefsFact
<1>6. \A m \in Name : \/ removals'[m] = removals[m] /\ table'[m] = table[m]
                      \/ removals'[m] = removals[m] /\ table[m] = None
                      \/ removals'[m] = removals[m] + 1
  BY <1>2 DEF TypesOK, RemoveNext, remove
<1>7. \A m \in Name : removals[m] \in Nat /\ removals'[m] \in Nat
  BY <1>3 DEF TypesOK
<1>8. EpochsOK'
  BY <1>1, <1>5, <1>6, <1>7 DEF EpochsOK
<1>9. CurrentOK'
  <2> SUFFICES ASSUME NEW g \in Handle, NEW i \in DOMAIN refs[g],
                      refs[g][i].epoch = removals'[Names[i]]
               PROVE  refs[g][i].object = table'[Names[i]]
    BY <1>1 DEF CurrentOK
  <2>1. removals'[Names[i]] = removals[Names[i]]
    BY <1>5, <1>6, <1>7 DEF EpochsOK
  <2>2. refs[g][i].object = table[Names[i]]
    BY <2>1 DEF CurrentOK
  <2> QED BY <2>1, <2>2, <1>5, <1>6, <1>7, ConstantsAssumption
<1>10. SharedOK'
  BY <1>1 DEF SharedOK
<1> QED BY <1>3, <1>4, <1>8, <1>9, <1>10

\* What a handle keeps are names of its class.
LEMMA KeptNames ==
  ASSUME NamesInv, NEW h \in Handle
  PROVE  Kept(h) \subseteq Name
<1>1. removed[h] \in Nat /\ Len(refs[h]) \in Nat /\ Len(refs[h]) <= Len(Names)
  BY NamesFact DEF NamesInv, TypesOK, ProgressOK
<1>2. \A i \in removed[h] + 1 .. Len(refs[h]) : i \in 1 .. Len(Names)
  BY <1>1, NamesFact DEF NamesInv
<1> QED BY <1>2, NamesFact DEF Kept, NamesInv

\* Every step of a handle that is neither opening nor removing a name only
\* moves it, or another handle, to another place.
LEMMA NextKeeps ==
  ASSUME NamesInv, [Next]_vars
  PROVE  NamesInv'
<1>1. CASE UNCHANGED vars
  BY <1>1 DEF vars, nameVars, handleVars, NamesInv, TypesOK, ProgressOK, EpochsOK,
              CurrentOK, SharedOK, Names
<1>2. CASE Next
  <2> USE DEF nameVars
  <2>1. PICK h \in Handle :
          \/ NamedEvent(h) \/ DestroyNamedEvent(h)
          \/ \E tag \in creation_tags : SharedMemory(h, tag) \/ MessageQueue(h, tag)
          \/ DestroySharedMemory(h) \/ DestroyMessageQueue(h) \/ move_assign(h)
          \/ ConstructorFails(h) \/ Crash(h)
          \/ set(h) \/ SpuriousWakeup(h) \/ wait(h) \/ condition_wait(h) \/ Resume(h) \/ Return(h)
    BY <1>2 DEF Next
  <2>2. orphaned \subseteq Name /\ Kept(h) \subseteq Name
    BY KeptNames DEF NamesInv, TypesOK
  <2>3. ASSUME NEW tag \in creation_tags, Open(h, tag) \/ Refused(h, tag)
        PROVE  NamesInv'
    <3>1. CASE Refused(h, tag)
      BY <3>1, <2>2, OnlyPlaces DEF Refused, Places
    <3> QED BY <2>3, <3>1, OpenKeeps
  <2>4. CASE NamedEvent(h)
    BY <2>4, OpenKeeps DEF NamedEvent, creation_tags
  <2>5. CASE \E tag \in creation_tags : SharedMemory(h, tag) \/ MessageQueue(h, tag)
    BY <2>5, <2>3 DEF SharedMemory, MessageQueue
  <2>6. CASE DestroyNamedEvent(h) \/ DestroySharedMemory(h) \/ DestroyMessageQueue(h)
    BY <2>6, RemoveKeeps DEF DestroyNamedEvent, DestroySharedMemory, DestroyMessageQueue
  <2>7. CASE move_assign(h) \/ ConstructorFails(h) \/ Crash(h)
    <3>1. Go(h, "gone") /\ orphaned' \subseteq Name
      BY <2>7, <2>2 DEF move_assign, ConstructorFails, Crash
    <3>2. UNCHANGED <<class, table, removals, refs, removed>>
      BY <2>7 DEF move_assign, ConstructorFails, Crash
    <3> QED BY <3>1, <3>2, OnlyPlaces DEF Places
  <2>8. CASE set(h)
    <3>1. PICK w \in Handle : at[w] = "waiting" /\ Go(w, "woken")
      BY <2>8 DEF set
    <3> QED BY <3>1, <2>8, <2>2, OnlyPlaces DEF set, Places
  <2>9. CASE SpuriousWakeup(h)
    BY <2>9, <2>2, OnlyPlaces DEF SpuriousWakeup, Places
  <2>10. CASE wait(h)
    BY <2>10, <2>2, OnlyPlaces DEF wait, Places
  <2>11. CASE condition_wait(h)
    BY <2>11, <2>2, OnlyPlaces DEF condition_wait, Places
  <2>12. CASE Resume(h)
    BY <2>12, <2>2, OnlyPlaces DEF Resume, Places
  <2>13. CASE Return(h)
    BY <2>13, <2>2, OnlyPlaces DEF Return, Places
  <2> QED BY <2>1, <2>4, <2>5, <2>6, <2>7, <2>8, <2>9, <2>10, <2>11, <2>12, <2>13
<1> QED BY <1>1, <1>2

\* The invariant holds when no handle exists.
LEMMA InitHolds == Init => NamesInv
<1> SUFFICES ASSUME Init PROVE NamesInv
  OBVIOUS
<1>1. TypesOK
  BY DEF Init, TypesOK, Places
<1>2. ProgressOK
  <2>1. \A h \in Handle : at[h] = "none" /\ refs[h] = <<>> /\ removed[h] = 0
    BY DEF Init
  <2>2. Len(Names) >= 1 /\ Len(<<>>) = 0
    BY <1>1, NamesFact
  <2> QED BY <2>1, <2>2 DEF ProgressOK
<1>3. EpochsOK /\ CurrentOK /\ SharedOK
  BY DEF Init, EpochsOK, CurrentOK, SharedOK
<1> QED BY <1>1, <1>2, <1>3 DEF NamesInv

\* The invariant of names and handles.
LEMMA Invariance == Spec => []NamesInv
<1> QED BY InitHolds, NextKeeps, PTL DEF Spec

\* Handles that open a name with no removal in between share one object,
\* which the name stands for until it is removed, however the constructors
\* and destructors of NamedEvent, SharedMemory and MessageQueue interleave.
THEOREM SharingHolds == Spec => []SharedUntilRemoved
<1>1. NamesInv => SharedUntilRemoved
  BY DEF NamesInv, CurrentOK, SharedOK, SharedUntilRemoved
<1> QED BY <1>1, Invariance, PTL
-----------------------------------------------------------------------------
\* A handle that goes away leaves no name but those it adds to orphaned.
LEMMA LeavesNoName ==
  ASSUME NamesInv, NamesDoNotLeak, NEW h \in Handle, NEW place \in Places,
         Go(h, place), UNCHANGED <<class, table, refs, removed>>,
         orphaned \subseteq orphaned',
         place = "gone" => Kept(h) \subseteq orphaned'
  PROVE  NamesDoNotLeak'
<1> SUFFICES ASSUME NEW n \in Name, n \notin orphaned', table[n] # None
             PROVE  \E g \in Handle : at'[g] # "gone" /\ n \in Kept(g)'
  BY DEF NamesDoNotLeak
<1>1. PICK g \in Handle : at[g] # "gone" /\ n \in Kept(g)
  BY DEF NamesDoNotLeak
<1>2. Kept(g)' = Kept(g)
  BY DEF Kept, Names
<1>3. at'[g] # "gone"
  BY <1>1 DEF NamesInv, TypesOK, Go
<1> QED BY <1>1, <1>2, <1>3

\* Opening a name gives it, or another one, a handle that will remove it.
LEMMA OpenLeaksNothing ==
  ASSUME NamesInv, NamesDoNotLeak, NEW h \in Handle, NEW tag \in creation_tags, Open(h, tag)
  PROVE  NamesDoNotLeak'
<1> DEFINE k == Len(refs[h]) + 1
           r == [object |-> table'[Names[k]], epoch |-> removals[Names[k]]]
<1>1. Names' = Names /\ removed' = removed /\ orphaned' = orphaned
  BY DEF Names, Open
<1>2. /\ refs' = [refs EXCEPT ![h] = Append(refs[h], r)]
      /\ Go(h, IF k = Len(Names) THEN "live" ELSE "opening")
      /\ at[h] \in {"none", "opening"}
  BY DEF Open
<1>3. refs[h] \in Seq(Ref) /\ removed[h] = 0 /\ k \in Nat
  <2>1. refs[h] \in Seq(Ref)
    BY DEF NamesInv, TypesOK
  <2>2. removed[h] = 0
    BY <1>2 DEF NamesInv, ProgressOK
  <2> QED BY <2>1, <2>2
<1>4. Len(refs'[h]) = k
  BY <1>2, <1>3 DEF NamesInv, TypesOK
<1>5. at'[h] # "gone" /\ \A g \in Handle \ {h} : at'[g] = at[g] /\ refs'[g] = refs[g]
  BY <1>2 DEF NamesInv, TypesOK, Go
<1>6. \A g \in Handle : Kept(g) \subseteq Kept(g)'
  <2> TAKE g \in Handle
  <2>1. CASE g = h
    <3>1. removed[g] + 1 .. Len(refs[g]) \subseteq removed'[g] + 1 .. Len(refs'[g])
      BY <2>1, <1>1, <1>3, <1>4
    <3> QED BY <3>1, <1>1 DEF Kept
  <2>2. CASE g # h
    BY <2>2, <1>1, <1>5 DEF Kept
  <2> QED BY <2>1, <2>2
<1>7. Names[k] \in Kept(h)'
  <2>1. k \in removed'[h] + 1 .. Len(refs'[h])
    BY <1>1, <1>3, <1>4
  <2> QED BY <2>1, <1>1 DEF Kept
<1>8. \A m \in Name \ {Names[k]} : table'[m] = table[m]
  BY DEF Open, OpenName, Create, NamesInv, TypesOK
<1> HIDE DEF k, r
<1> SUFFICES ASSUME NEW n \in Name, n \notin orphaned, table'[n] # None
             PROVE  \E g \in Handle : at'[g] # "gone" /\ n \in Kept(g)'
  BY <1>1 DEF NamesDoNotLeak
<1>9. CASE n = Names[k]
  BY <1>9, <1>5, <1>7
<1>10. CASE n # Names[k]
  <2>1. PICK g \in Handle : at[g] # "gone" /\ n \in Kept(g)
    BY <1>8, <1>10 DEF NamesDoNotLeak
  <2>2. at'[g] # "gone"
    BY <2>1, <1>5
  <2> QED BY <2>1, <2>2, <1>6
<1> QED BY <1>9, <1>10

\* A destructor that has removed one name still keeps the others.
LEMMA RemoveLeaksNothing ==
  ASSUME NamesInv, NamesDoNotLeak, NEW h \in Handle, RemoveNext(h)
  PROVE  NamesDoNotLeak'
<1> DEFINE k == removed[h] + 1
<1>1. Names' = Names /\ refs' = refs /\ removed' = [removed EXCEPT ![h] = k]
  BY DEF Names, RemoveNext
<1>2. k \in 1 .. Len(Names) /\ removed[h] \in Nat /\ Len(refs[h]) <= Len(Names) /\ Len(refs[h]) \in Nat
  BY NamesFact DEF NamesInv, RemoveNext, ProgressOK, TypesOK
<1>3. \A m \in Name : table'[m] # None => m # Names[k] /\ table[m] # None
  BY <1>2, NamesFact DEF NamesInv, TypesOK, RemoveNext, remove
<1>4. \A m \in Name \ {Names[k]} : m \notin orphaned' => m \notin orphaned
  BY DEF RemoveNext, remove
<1>5. /\ at'[h] = IF k = Len(Names) THEN "gone" ELSE "removing"
      /\ \A g \in Handle \ {h} : at'[g] = at[g] /\ removed'[g] = removed[g]
      /\ removed'[h] = k
  BY DEF RemoveNext, Go, NamesInv, TypesOK
<1> HIDE DEF k
<1> SUFFICES ASSUME NEW n \in Name, n \notin orphaned', table'[n] # None
             PROVE  \E g \in Handle : at'[g] # "gone" /\ n \in Kept(g)'
  BY DEF NamesDoNotLeak
<1>6. n # Names[k]
  BY <1>3
<1>7. PICK g \in Handle : at[g] # "gone" /\ n \in Kept(g)
  BY <1>3, <1>4, <1>6 DEF NamesDoNotLeak
<1>8. CASE g # h
  BY <1>1, <1>5, <1>7, <1>8 DEF Kept
<1>9. CASE g = h
  <2>1. PICK i \in removed[h] + 1 .. Len(refs[h]) : n = Names[i]
    BY <1>7, <1>9 DEF Kept
  <2>2. i # k /\ i \in k + 1 .. Len(refs[h]) /\ k # Len(Names)
    BY <1>2, <1>6, <2>1 DEF k
  <2>3. at'[h] # "gone"
    BY <1>5, <2>2
  <2>4. n \in Kept(h)'
    BY <1>1, <1>5, <2>1, <2>2 DEF Kept
  <2> QED BY <2>3, <2>4
<1> QED BY <1>8, <1>9

\* No step, of a handle or a crash, leaves a name without a handle that removes it.
LEMMA NextLeaksNothing ==
  ASSUME NamesInv, NamesDoNotLeak, [Next]_vars
  PROVE  NamesDoNotLeak'
<1>1. CASE UNCHANGED vars
  BY <1>1 DEF vars, nameVars, handleVars, NamesDoNotLeak, Kept, Names
<1>2. CASE Next
  <2> USE DEF nameVars
  <2>1. PICK h \in Handle :
          \/ NamedEvent(h) \/ DestroyNamedEvent(h)
          \/ \E tag \in creation_tags : SharedMemory(h, tag) \/ MessageQueue(h, tag)
          \/ DestroySharedMemory(h) \/ DestroyMessageQueue(h) \/ move_assign(h)
          \/ ConstructorFails(h) \/ Crash(h)
          \/ set(h) \/ SpuriousWakeup(h) \/ wait(h) \/ condition_wait(h) \/ Resume(h) \/ Return(h)
    BY <1>2 DEF Next
  <2>2. at[h] = "none" => Kept(h) = {}
    <3> SUFFICES ASSUME at[h] = "none" PROVE Kept(h) = {}
      OBVIOUS
    <3>1. refs[h] = <<>> /\ removed[h] \in Nat
      BY DEF NamesInv, TypesOK, ProgressOK
    <3>2. removed[h] + 1 .. Len(refs[h]) = {}
      BY <3>1
    <3> QED BY <3>2 DEF Kept
  <2>3. ASSUME NEW tag \in creation_tags, Open(h, tag) \/ Refused(h, tag)
        PROVE  NamesDoNotLeak'
    <3>1. CASE Refused(h, tag)
      BY <3>1, <2>2, LeavesNoName DEF Refused, Places
    <3> QED BY <2>3, <3>1, OpenLeaksNothing
  <2>4. CASE NamedEvent(h)
    BY <2>4, OpenLeaksNothing DEF NamedEvent, creation_tags
  <2>5. CASE \E tag \in creation_tags : SharedMemory(h, tag) \/ MessageQueue(h, tag)
    BY <2>5, <2>3 DEF SharedMemory, MessageQueue
  <2>6. CASE DestroyNamedEvent(h) \/ DestroySharedMemory(h) \/ DestroyMessageQueue(h)
    BY <2>6, RemoveLeaksNothing DEF DestroyNamedEvent, DestroySharedMemory, DestroyMessageQueue
  <2>7. CASE move_assign(h) \/ ConstructorFails(h) \/ Crash(h)
    <3>1. Go(h, "gone") /\ orphaned' = orphaned \cup Kept(h)
      BY <2>7 DEF move_assign, ConstructorFails, Crash
    <3>2. UNCHANGED <<class, table, refs, removed>>
      BY <2>7 DEF move_assign, ConstructorFails, Crash
    <3> QED BY <3>1, <3>2, LeavesNoName DEF Places
  <2>8. CASE set(h)
    <3>1. PICK w \in Handle : Go(w, "woken")
      BY <2>8 DEF set
    <3> QED BY <3>1, <2>8, LeavesNoName DEF set, Places
  <2>9. CASE SpuriousWakeup(h) \/ wait(h) \/ condition_wait(h) \/ Resume(h) \/ Return(h)
    <3>1. \E place \in Places \ {"gone"} : Go(h, place)
      BY <2>9 DEF SpuriousWakeup, wait, condition_wait, Resume, Return, Places
    <3>2. UNCHANGED <<class, table, refs, removed, orphaned>>
      BY <2>9 DEF SpuriousWakeup, wait, condition_wait, Resume, Return
    <3> QED BY <3>1, <3>2, LeavesNoName
  <2> QED BY <2>1, <2>4, <2>5, <2>6, <2>7, <2>8, <2>9
<1> QED BY <1>1, <1>2

\* A name in the table has a handle that will remove it, unless it was left by
\* a crash, a failed constructor or an assignment of SharedMemory: destructors
\* that remove each other's names half-way leave nothing behind.
THEOREM NothingLeaks == Spec => []NamesDoNotLeak
<1>1. Init => NamesDoNotLeak
  BY DEF Init, NamesDoNotLeak
<1> QED BY <1>1, Invariance, NextLeaksNothing, PTL DEF Spec
=============================================================================
