--------------------------- MODULE AutoResetEvent ---------------------------
(***************************************************************************)
(* What an event promises: each wait is ended by a set of its own.  A set   *)
(* that finds nobody waiting is kept for the next wait; sets that no wait   *)
(* has consumed yet count once.                                             *)
(***************************************************************************)
CONSTANT Threads

VARIABLES signalled,  \* a set that no wait has consumed yet
          blocked     \* the threads inside wait

vars == <<signalled, blocked>>

Init == signalled = FALSE /\ blocked = {}

Set == signalled' = TRUE /\ UNCHANGED blocked

\* wait is called and returns at once.
Pass == signalled /\ signalled' = FALSE /\ UNCHANGED blocked

Block(t) ==
  /\ ~signalled /\ t \notin blocked
  /\ blocked' = blocked \cup {t}
  /\ UNCHANGED signalled

\* The wait of a blocked thread returns.
Release(t) ==
  /\ signalled /\ t \in blocked
  /\ signalled' = FALSE
  /\ blocked' = blocked \ {t}

Next == Set \/ Pass \/ \E t \in Threads : Block(t) \/ Release(t)

Spec == Init /\ [][Next]_vars

\* A set that finds blocked threads ends the wait of one of them, unless
\* another wait consumes it first.
FairSpec == Spec /\ WF_vars(\E t \in Threads : Release(t))
=============================================================================
