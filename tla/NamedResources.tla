--------------------------- MODULE NamedResources ---------------------------
(***************************************************************************)
(* What processes share by name: ipc::NamedEvent (a condition and a mutex), *)
(* ipc::SharedMemory and ipc::MessageQueue (one segment each), where there  *)
(* is a table of names (not Windows).                                       *)
(*                                                                          *)
(* A handle is one C++ object, in a process of its own.  Its constructor    *)
(* opens the names one by one, its destructor removes them one by one,      *)
(* whoever else uses them.  Who has opened a name keeps its object; who     *)
(* opens the name after it was removed gets a new one.  An object is known  *)
(* by the handle that created it.                                           *)
(*                                                                          *)
(* The table, mutexes and conditions are the library's (external): opening  *)
(* or creating a name is atomic, waits may end without a notification, and  *)
(* a mutex stays locked when its holder dies.                               *)
(***************************************************************************)
EXTENDS Naturals, Sequences, FiniteSets

CONSTANTS Handle,     \* the handles, each constructed once
          None,       \* no object
          MaxFaults   \* bound on crashes and failed constructors

ASSUME ConstantsAssumption == None \notin Handle /\ MaxFaults \in Nat

VARIABLES class,     \* which class the handles are of
          table,     \* the object each name stands for
          removals,  \* how often each name was removed
          at,        \* where the thread of each handle is
          refs,      \* the objects a handle has opened, and when
          removed,   \* how many names its destructor has removed
          locked,    \* the mutexes that are locked
          orphaned,  \* names left by a handle whose destructor did not or
                     \* will not remove them
          faults

handleVars == <<at, refs, removed>>
nameVars == <<table, removals, orphaned>>
vars == <<class, nameVars, handleVars, locked, faults>>

Name == {"cv", "mtx", "segment"}

Names == IF class = "event" THEN <<"cv", "mtx">> ELSE <<"segment">>

creation_tags == {"create_only", "open_only", "open_or_create"}

Init ==
  /\ class \in {"event", "memory", "queue"}
  /\ table = [n \in Name |-> None]
  /\ removals = [n \in Name |-> 0]
  /\ at = [h \in Handle |-> "none"]
  /\ refs = [h \in Handle |-> <<>>]
  /\ removed = [h \in Handle |-> 0]
  /\ locked = {} /\ orphaned = {} /\ faults = 0

Go(h, place) == at' = [at EXCEPT ![h] = place]

condition_(h) == refs[h][1].object

mutex_(h) == refs[h][2].object

\* The names h has opened and its destructor has not removed.
Kept(h) == {Names[i] : i \in removed[h] + 1 .. Len(refs[h])}
-----------------------------------------------------------------------------
\* The functor that constructs an object of its own for the name n.
Create(h, n) == table' = [table EXCEPT ![n] = h]

\* Whatever the name stands for is replaced.
Bug_AlwaysCreate(h, tag, n) == Create(h, n)

OpenName(h, tag, n) ==
  \/ table[n] = None /\ tag # "open_only" /\ Create(h, n)
  \/ table[n] # None /\ tag # "create_only" /\ UNCHANGED table

\* The next name is opened; after the last one the handle is live.
Open(h, tag) ==
  /\ at[h] \in {"none", "opening"}
  /\ LET n == Names[Len(refs[h]) + 1]
     IN  /\ OpenName(h, tag, n)
         /\ refs' = [refs EXCEPT ![h] = Append(@, [object |-> table'[n], epoch |-> removals[n]])]
         /\ Go(h, IF Len(refs[h]) + 1 = Len(Names) THEN "live" ELSE "opening")
  /\ UNCHANGED <<class, removals, orphaned, removed, locked, faults>>

\* A name that is there already, or is not: the constructor throws.
Refused(h, tag) ==
  /\ at[h] = "none"
  /\ tag = IF table["segment"] = None THEN "open_only" ELSE "create_only"
  /\ Go(h, "gone")
  /\ UNCHANGED <<class, nameVars, refs, removed, locked, faults>>

NamedEvent(h) == class = "event" /\ Open(h, "open_or_create")

SharedMemory(h, tag) == class = "memory" /\ (Open(h, tag) \/ Refused(h, tag))

MessageQueue(h, tag) == class = "queue" /\ (Open(h, tag) \/ Refused(h, tag))

\* Any name may fail to open.  The destructor does not run then, and what was
\* opened before stays in the table.
ConstructorFails(h) ==
  /\ at[h] \in {"none", "opening"} /\ faults < MaxFaults
  /\ faults' = faults + 1
  /\ orphaned' = orphaned \cup Kept(h)
  /\ Go(h, "gone")
  /\ UNCHANGED <<class, table, removals, refs, removed, locked>>

remove(n) ==
  /\ table' = [table EXCEPT ![n] = None]
  /\ removals' = [removals EXCEPT ![n] = IF table[n] = None THEN @ ELSE @ + 1]
  /\ orphaned' = orphaned \ {n}

\* Only the first name is removed.
Bug_RemoveFirst(h) ==
  /\ at[h] = "live"
  /\ remove(Names[1])
  /\ removed' = [removed EXCEPT ![h] = 1]
  /\ Go(h, "gone")
  /\ UNCHANGED <<class, refs, locked, faults>>

\* The next name is removed; after the last one the handle is gone.
RemoveNext(h) ==
  /\ at[h] \in {"live", "removing"}
  /\ remove(Names[removed[h] + 1])
  /\ removed' = [removed EXCEPT ![h] = @ + 1]
  /\ Go(h, IF removed[h] + 1 = Len(Names) THEN "gone" ELSE "removing")
  /\ UNCHANGED <<class, refs, locked, faults>>

DestroyNamedEvent(h) == class = "event" /\ RemoveNext(h)

DestroySharedMemory(h) == class = "memory" /\ RemoveNext(h)

DestroyMessageQueue(h) == class = "queue" /\ RemoveNext(h)

\* SharedMemory::operator=: a segment of another name takes the place of this
\* one, whose name is forgotten.
move_assign(h) ==
  /\ class = "memory" /\ at[h] = "live"
  /\ orphaned' = orphaned \cup Kept(h)
  /\ Go(h, "gone")
  /\ UNCHANGED <<class, table, removals, refs, removed, locked, faults>>

\* The process of h dies, and leaves its names and a mutex it holds.
Crash(h) ==
  /\ at[h] \notin {"none", "gone"} /\ faults < MaxFaults
  /\ faults' = faults + 1
  /\ orphaned' = orphaned \cup Kept(h)
  /\ Go(h, "gone")
  /\ UNCHANGED <<class, table, removals, refs, removed, locked>>
-----------------------------------------------------------------------------
\* NamedEvent::set: notify_one, which does nothing if nobody waits.
set(h) ==
  /\ class = "event" /\ at[h] = "live"
  /\ \E w \in Handle :
       /\ at[w] = "waiting" /\ condition_(w) = condition_(h)
       /\ Go(w, "woken")
  /\ UNCHANGED <<class, nameVars, refs, removed, locked, faults>>

SpuriousWakeup(h) ==
  /\ at[h] = "waiting"
  /\ Go(h, "woken")
  /\ UNCHANGED <<class, nameVars, refs, removed, locked, faults>>

\* NamedEvent::wait: lock, wait, and return, which unlocks.
wait(h) ==
  /\ class = "event" /\ at[h] = "live" /\ mutex_(h) \notin locked
  /\ locked' = locked \cup {mutex_(h)}
  /\ Go(h, "locked")
  /\ UNCHANGED <<class, nameVars, refs, removed, faults>>

condition_wait(h) ==
  /\ at[h] = "locked"
  /\ locked' = locked \ {mutex_(h)}
  /\ Go(h, "waiting")
  /\ UNCHANGED <<class, nameVars, refs, removed, faults>>

\* wait with a predicate on a flag of the event, as in sync::Event: a member
\* of the handle, which a set through another handle does not reach.
Bug_ResumeIfSet(h) ==
  /\ at[h] = "woken" /\ mutex_(h) \notin locked
  /\ Go(h, "waiting")
  /\ UNCHANGED <<class, nameVars, refs, removed, locked, faults>>

Resume(h) ==
  /\ at[h] = "woken" /\ mutex_(h) \notin locked
  /\ locked' = locked \cup {mutex_(h)}
  /\ Go(h, "returning")
  /\ UNCHANGED <<class, nameVars, refs, removed, faults>>

Return(h) ==
  /\ at[h] = "returning"
  /\ locked' = locked \ {mutex_(h)}
  /\ Go(h, "live")
  /\ UNCHANGED <<class, nameVars, refs, removed, faults>>

Next ==
  \E h \in Handle :
    \/ NamedEvent(h) \/ DestroyNamedEvent(h)
    \/ \E tag \in creation_tags : SharedMemory(h, tag) \/ MessageQueue(h, tag)
    \/ DestroySharedMemory(h) \/ DestroyMessageQueue(h) \/ move_assign(h)
    \/ ConstructorFails(h) \/ Crash(h)
    \/ set(h) \/ SpuriousWakeup(h) \/ wait(h) \/ condition_wait(h) \/ Resume(h) \/ Return(h)

\* A thread that holds a mutex goes on, and one that wants a mutex which is
\* unlocked again and again gets it in the end.
Fairness ==
  \A h \in Handle : WF_vars(condition_wait(h) \/ Return(h)) /\ SF_vars(Resume(h))

Spec == Init /\ [][Next]_vars

FairSpec == Spec /\ Fairness
-----------------------------------------------------------------------------
\* Handles that have opened a name with no removal in between share one
\* object, whatever other constructors and destructors do half-way, and it is
\* the object the name stands for until the name is removed.
SharedUntilRemoved ==
  \A g, h \in Handle : \A i \in DOMAIN refs[g] \cap DOMAIN refs[h] :
    LET n == Names[i]
    IN  /\ refs[g][i].epoch = refs[h][i].epoch => refs[g][i].object = refs[h][i].object
        /\ refs[h][i].epoch = removals[n] => refs[h][i].object = table[n]

\* Without crashes, failed constructors and assignments a name in the table
\* always has a handle whose destructor will remove it, although destructors
\* also remove each other's names.
NamesDoNotLeak ==
  \A n \in Name \ orphaned : table[n] # None => \E h \in Handle : at[h] # "gone" /\ n \in Kept(h)

\* A thread that is woken returns from wait, unless a process has died with
\* the mutex locked.
NotifiedReturns ==
  LET Dead(h) == at[h] = "woken" /\ mutex_(h) \in locked /\
                 ~\E g \in Handle : at[g] \in {"locked", "returning"} /\ mutex_(g) = mutex_(h)
  IN  \A h \in Handle : at[h] = "woken" ~> at[h] \in {"returning", "gone"} \/ Dead(h)
=============================================================================
