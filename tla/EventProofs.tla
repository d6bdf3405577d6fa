---------------------------- MODULE EventProofs ----------------------------
(***************************************************************************)
(* Proofs about Event for any set of threads, finite or not.                *)
(***************************************************************************)
EXTENDS Event, TLAPS

\* flag_ and the places of the threads stay within their types.
THEOREM TypeCorrect == Spec => []TypeOK
<1>1. Init => TypeOK
  BY DEF Init, TypeOK
<1>2. TypeOK /\ [Next]_vars => TypeOK'
  BY DEF TypeOK, Next, vars, set, wait, Resume, SpuriousWakeup, NotifyOne, In
<1> QED
  BY <1>1, <1>2, PTL DEF Spec

\* No call of set is lost to the threads that wait: NoLostSet is inductive
\* once types are known, because a thread starts to wait only while flag_ is
\* false and set, which makes it true, wakes a thread under the same lock.
THEOREM NoSetIsLost == Spec => []NoLostSet
<1>1. Init => NoLostSet
  BY DEF Init, NoLostSet
<1>2. TypeOK /\ NoLostSet /\ [Next]_vars => NoLostSet'
  <2> SUFFICES ASSUME TypeOK, NoLostSet, [Next]_vars PROVE NoLostSet'
    OBVIOUS
  <2>1. ASSUME NEW t \in Threads, set(t) PROVE NoLostSet'
    BY <2>1 DEF set, NotifyOne, TypeOK, NoLostSet, In
  <2>2. ASSUME NEW t \in Threads, wait(t) PROVE NoLostSet'
    BY <2>2 DEF wait, TypeOK, NoLostSet, In
  <2>3. ASSUME NEW t \in Threads, Resume(t) PROVE NoLostSet'
    BY <2>3 DEF Resume, TypeOK, NoLostSet, In
  <2>4. ASSUME NEW t \in Threads, SpuriousWakeup(t) PROVE NoLostSet'
    BY <2>4 DEF SpuriousWakeup, TypeOK, NoLostSet, In
  <2>5. CASE UNCHANGED vars
    BY <2>5 DEF vars, NoLostSet, In
  <2> QED
    BY <2>1, <2>2, <2>3, <2>4, <2>5 DEF Next
<1> QED
  BY <1>1, <1>2, TypeCorrect, PTL DEF Spec

\* Event implements the auto-reset event, as far as safety goes: every step
\* of a thread is a step of AutoResetEvent or leaves its state alone.  A wake
\* up that finds flag_ false returns to the wait and is such a stutter.
THEOREM ImplementsAutoReset == Spec => ARE!Spec
<1>1. Init => ARE!Init
  BY DEF Init, ARE!Init, In
<1>2. TypeOK /\ [Next]_vars => [ARE!Next]_ARE!vars
  <2> SUFFICES ASSUME TypeOK, [Next]_vars PROVE [ARE!Next]_ARE!vars
    OBVIOUS
  <2>1. ASSUME NEW t \in Threads, set(t) PROVE ARE!Set
    BY <2>1 DEF set, NotifyOne, TypeOK, In, ARE!Set
  <2>2. ASSUME NEW t \in Threads, wait(t) PROVE ARE!Pass \/ ARE!Block(t)
    BY <2>2 DEF wait, TypeOK, In, ARE!Pass, ARE!Block
  <2>3. ASSUME NEW t \in Threads, Resume(t)
        PROVE ARE!Release(t) \/ UNCHANGED ARE!vars
    BY <2>3 DEF Resume, TypeOK, In, ARE!Release, ARE!vars
  <2>4. ASSUME NEW t \in Threads, SpuriousWakeup(t) PROVE UNCHANGED ARE!vars
    BY <2>4 DEF SpuriousWakeup, TypeOK, In, ARE!vars
  <2>5. CASE UNCHANGED vars
    BY <2>5 DEF vars, In, ARE!vars
  <2> QED
    BY <2>1, <2>2, <2>3, <2>4, <2>5 DEF Next, ARE!Next
<1> QED
  BY <1>1, <1>2, TypeCorrect, PTL DEF Spec, ARE!Spec
=============================================================================
