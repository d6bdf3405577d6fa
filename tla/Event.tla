------------------------------- MODULE Event -------------------------------
(***************************************************************************)
(* sync::Event and ipc::Event, which differ only in the library the mutex   *)
(* and the condition come from: an event shared by threads of one process,  *)
(* or placed in shared memory.                                              *)
(*                                                                          *)
(* set runs under the mutex as a whole.  wait runs under it up to the wait  *)
(* on the condition, and again from each wake-up.                           *)
(***************************************************************************)
CONSTANT Threads

VARIABLES flag_,  \* set, and not yet consumed by a wait
          pc      \* where each thread is

vars == <<flag_, pc>>

In(where) == {t \in Threads : pc[t] = where}

Init ==
  /\ flag_ = FALSE
  /\ pc = [t \in Threads |-> "idle"]

\* notify_one wakes one of the threads that wait on the condition, if any.
NotifyOne ==
  \/ In("waiting") = {} /\ UNCHANGED pc
  \/ \E w \in In("waiting") : pc' = [pc EXCEPT ![w] = "woken"]

\* Definitions named Bug_ are plausible mistakes in the code, never used by
\* the specification: each shows that some property would notice it.
\* Here notify_one is forgotten.
Bug_SetSilently(t) == pc[t] = "idle" /\ flag_' = TRUE /\ UNCHANGED pc

set(t) ==
  /\ pc[t] = "idle"
  /\ flag_' = TRUE
  /\ NotifyOne

\* wait up to its return or its first wait on the condition.
wait(t) ==
  /\ pc[t] = "idle"
  /\ \/ flag_ /\ flag_' = FALSE /\ UNCHANGED pc
     \/ ~flag_ /\ pc' = [pc EXCEPT ![t] = "waiting"] /\ UNCHANGED flag_

\* The wait has no predicate.
Bug_ResumeUnchecked(t) ==
  pc[t] = "woken" /\ flag_' = FALSE /\ pc' = [pc EXCEPT ![t] = "idle"]

\* wait after the condition has woken the thread and the mutex is its own
\* again: the predicate decides.
Resume(t) ==
  /\ pc[t] = "woken"
  /\ \/ flag_ /\ flag_' = FALSE /\ pc' = [pc EXCEPT ![t] = "idle"]
     \/ ~flag_ /\ pc' = [pc EXCEPT ![t] = "waiting"] /\ UNCHANGED flag_

SpuriousWakeup(t) ==
  /\ pc[t] = "waiting"
  /\ pc' = [pc EXCEPT ![t] = "woken"]
  /\ UNCHANGED flag_

Next == \E t \in Threads : set(t) \/ wait(t) \/ Resume(t) \/ SpuriousWakeup(t)

Spec == Init /\ [][Next]_vars

\* A thread that is awake eventually gets the mutex: nobody keeps it.
FairSpec == Spec /\ \A t \in Threads : WF_vars(Resume(t))
-----------------------------------------------------------------------------
TypeOK ==
  /\ flag_ \in BOOLEAN
  /\ pc \in [Threads -> {"idle", "waiting", "woken"}]

\* A set is not lost to the threads that wait: while flag_ is set and some
\* thread waits, some thread is awake to consume it, although a thread that
\* calls wait in between may take the flag from the one set has woken.
NoLostSet == flag_ /\ In("waiting") # {} => In("woken") # {}

ARE == INSTANCE AutoResetEvent WITH
         signalled <- flag_,
         blocked   <- In("waiting") \cup In("woken")

\* The event is an auto-reset event: each return of wait consumes a set,
\* never a spurious wake-up, and a set ends some wait.
ImplementsAutoResetEvent == ARE!FairSpec
=============================================================================
