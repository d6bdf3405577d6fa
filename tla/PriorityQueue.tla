--------------------------- MODULE PriorityQueue ---------------------------
(***************************************************************************)
(* What a message queue promises its users, independently of how the       *)
(* messages are stored: a bounded store with one FIFO queue per priority.   *)
(* A receiver always gets the oldest message of the highest priority        *)
(* present.                                                                 *)
(***************************************************************************)
EXTENDS Naturals, Sequences, FiniteSets

CONSTANTS Capacity,  \* the maximum number of messages
          Priority,  \* the priorities in use, a set of numbers
          Message,   \* what can be sent
          NoMsg      \* the value of rcvd before the first receive

VARIABLES fifo,      \* the messages of each priority, oldest first
          rcvd       \* the last <<priority, message>> handed to a receiver

vars == <<fifo, rcvd>>

Stored == UNION {{p} \X DOMAIN fifo[p] : p \in Priority}

Highest(p) ==
  /\ fifo[p] # <<>>
  /\ \A q \in Priority : fifo[q] # <<>> => q <= p

Init ==
  /\ fifo = [p \in Priority |-> <<>>]
  /\ rcvd = NoMsg

Send(p, m) ==
  /\ UNCHANGED rcvd
  /\ fifo' = [fifo EXCEPT ![p] = Append(@, m)]
  /\ Cardinality(Stored) < Capacity

Receive ==
  \E p \in Priority :
    /\ Highest(p)
    /\ fifo' = [fifo EXCEPT ![p] = Tail(@)]
    /\ rcvd' = <<p, Head(fifo[p])>>

Next == (\E p \in Priority, m \in Message : Send(p, m)) \/ Receive

Spec == Init /\ [][Next]_vars
=============================================================================
