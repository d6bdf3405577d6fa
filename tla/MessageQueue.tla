---------------------------- MODULE MessageQueue ----------------------------
(***************************************************************************)
(* The operations of a message queue, message_queue_t and the wrapper over  *)
(* it, run by any number of threads of any number of processes on one queue *)
(* in shared memory.                                                        *)
(*                                                                          *)
(* A call looks at and changes the control block only while it holds        *)
(* m_mutex, so it is modelled by its critical sections: one from the lock   *)
(* to the wait, the notification or the return, and one from each return    *)
(* of the wait.  notify_one is a step of its own.  The scoped_lock is       *)
(* declared outside the block that ends with "Lock end", so it is still     *)
(* held when notify_one is called: m_mutex stays locked in between.         *)
(*                                                                          *)
(* m_cond_send and m_cond_recv are condition variables of the library: the  *)
(* threads that wait on one are the ones whose pc is "waiting".             *)
(***************************************************************************)
EXTENDS MqIndex

CONSTANTS Threads,      \* the threads that use the queue
          BufferSize,   \* the sizes of the buffers receivers pass
          NoCall        \* the thread is not in a call

ASSUME ThreadsAssumption == IsFiniteSet(Threads)

block_t == {"blocking", "timed", "non_blocking"}

SendCall == [op : {"send"}, block : block_t, priority : Priority, buffer : Buffer]

ReceiveCall == [op : {"receive"}, block : block_t]

ASSUME NoCallAssumption == NoCall \notin SendCall \cup ReceiveCall

AnyCall == SendCall \cup ReceiveCall \cup {NoCall}

VARIABLES m_mutex,              \* is the mutex locked, between two steps?
          m_blocked_senders,    \* number of senders in the blocking logic
          m_blocked_receivers,  \* number of receivers in it
          pc,                   \* where each thread is
          call                  \* the call each thread is in

queueVars == <<m_mutex, m_blocked_senders, m_blocked_receivers, pc, call>>

vars == <<indexVars, queueVars>>

PC == {"idle",       \* not in a call
       "waiting",    \* in wait or timed_wait, without the mutex
       "woken",      \* the wait is over, the mutex not yet taken again
       "timed_out",  \* the same, and timed_wait is about to return false
       "notifying"}  \* about to call notify_one

In(op, where) == {t \in Threads : pc[t] \in where /\ call[t].op = op}

Waiting(op) == In(op, {"waiting"})

Resuming(op) == In(op, {"woken", "timed_out"})

Notifying(op) == In(op, {"notifying"})

-----------------------------------------------------------------------------
GoTo(t, where, c) ==
  /\ pc' = [pc EXCEPT ![t] = where]
  /\ call' = [call EXCEPT ![t] = c]

Return(t) == GoTo(t, "idle", NoCall)

\* The counter is not touched.
Bug_CountForgotten(n) == n

\* ++ and -- of a blocked-threads counter, which only the circular index has.
Incr(n) == IF CircularIndex THEN n + 1 ELSE n

Decr(n) == IF CircularIndex THEN n - 1 ELSE n

\* A receiver is notified only when the queue was empty.
Bug_NotifyIfEmpty(t, c) ==
  /\ StoreMsg(c.priority, c.buffer)
  /\ IF is_empty
     THEN GoTo(t, "notifying", c) /\ m_mutex' = TRUE
     ELSE Return(t) /\ UNCHANGED m_mutex
  /\ UNCHANGED m_blocked_receivers

\* The end of do_send: the message is stored, and a receiver is notified if
\* one was blocked (always, with the plain index) before the lock is released.
FinishSend(t, c) ==
  /\ StoreMsg(c.priority, c.buffer)
  /\ IF CircularIndex => m_blocked_receivers # 0
     THEN GoTo(t, "notifying", c) /\ m_mutex' = TRUE
     ELSE Return(t) /\ UNCHANGED m_mutex
  /\ UNCHANGED m_blocked_receivers

\* A sender is notified only when the queue was full.
Bug_NotifyIfFull(t, c) ==
  /\ TakeTopMsg
  /\ IF is_full
     THEN GoTo(t, "notifying", c) /\ m_mutex' = TRUE
     ELSE Return(t) /\ UNCHANGED m_mutex
  /\ UNCHANGED m_blocked_senders

\* A single blocked sender is overlooked.
Bug_NotifyIfMany(t, c) ==
  /\ TakeTopMsg
  /\ IF m_blocked_senders > 1
     THEN GoTo(t, "notifying", c) /\ m_mutex' = TRUE
     ELSE Return(t) /\ UNCHANGED m_mutex
  /\ UNCHANGED m_blocked_senders

\* The end of do_receive.
FinishReceive(t, c) ==
  /\ TakeTopMsg
  /\ IF CircularIndex => m_blocked_senders # 0
     THEN GoTo(t, "notifying", c) /\ m_mutex' = TRUE
     ELSE Return(t) /\ UNCHANGED m_mutex
  /\ UNCHANGED m_blocked_senders

-----------------------------------------------------------------------------
\* do_send, do_receive: a buffer of the wrong size throws before the lock.
SendSizeError(t, c) == pc[t] = "idle" /\ ~Fits(c.buffer) /\ UNCHANGED vars

ReceiveSizeError(t, size) == pc[t] = "idle" /\ size < MaxMsgSize /\ UNCHANGED vars

\* do_send up to its first wait, or to its end when it does not wait.
do_send(t, c) ==
  /\ pc[t] = "idle"
  /\ Fits(c.buffer)
  /\ ~m_mutex
  /\ \/ /\ ~is_full
        /\ FinishSend(t, c)
        /\ UNCHANGED m_blocked_senders
     \/ /\ is_full /\ c.block # "non_blocking"
        /\ m_blocked_senders' = Incr(m_blocked_senders)
        /\ GoTo(t, "waiting", c)
        /\ UNCHANGED <<indexVars, m_mutex, m_blocked_receivers>>
     \/ /\ is_full /\ c.block = "non_blocking"
        /\ UNCHANGED vars

\* do_send after a wait.
ResumeSend(t) ==
  /\ t \in Resuming("send")
  /\ ~m_mutex
  /\ \/ /\ ~is_full
        /\ m_blocked_senders' = Decr(m_blocked_senders)
        /\ FinishSend(t, call[t])
     \/ /\ is_full /\ pc[t] = "woken"
        /\ GoTo(t, "waiting", call[t])
        /\ UNCHANGED <<indexVars, m_mutex, m_blocked_senders, m_blocked_receivers>>
     \/ /\ is_full /\ pc[t] = "timed_out"
        /\ m_blocked_senders' = Decr(m_blocked_senders)
        /\ Return(t)
        /\ UNCHANGED <<indexVars, m_mutex, m_blocked_receivers>>

do_receive(t, c, size) ==
  /\ pc[t] = "idle"
  /\ size >= MaxMsgSize
  /\ ~m_mutex
  /\ \/ /\ ~is_empty
        /\ FinishReceive(t, c)
        /\ UNCHANGED m_blocked_receivers
     \/ /\ is_empty /\ c.block # "non_blocking"
        /\ m_blocked_receivers' = Incr(m_blocked_receivers)
        /\ GoTo(t, "waiting", c)
        /\ UNCHANGED <<indexVars, m_mutex, m_blocked_senders>>
     \/ /\ is_empty /\ c.block = "non_blocking"
        /\ UNCHANGED vars

\* The result of timed_wait is ignored.
Bug_WaitAgain(t) ==
  /\ t \in Resuming("receive")
  /\ ~m_mutex
  /\ \/ /\ ~is_empty
        /\ m_blocked_receivers' = Decr(m_blocked_receivers)
        /\ FinishReceive(t, call[t])
     \/ /\ is_empty
        /\ GoTo(t, "waiting", call[t])
        /\ UNCHANGED <<indexVars, m_mutex, m_blocked_senders, m_blocked_receivers>>

ResumeReceive(t) ==
  /\ t \in Resuming("receive")
  /\ ~m_mutex
  /\ \/ /\ ~is_empty
        /\ m_blocked_receivers' = Decr(m_blocked_receivers)
        /\ FinishReceive(t, call[t])
     \/ /\ is_empty /\ pc[t] = "woken"
        /\ GoTo(t, "waiting", call[t])
        /\ UNCHANGED <<indexVars, m_mutex, m_blocked_senders, m_blocked_receivers>>
     \/ /\ is_empty /\ pc[t] = "timed_out"
        /\ m_blocked_receivers' = Decr(m_blocked_receivers)
        /\ Return(t)
        /\ UNCHANGED <<indexVars, m_mutex, m_blocked_senders>>
-----------------------------------------------------------------------------
\* Ends the wait of w.  A timed wait may also be told that it timed out by
\* the very wake-up that was meant for it.
WakeTo(w, where) == where = "timed_out" => call[w].block = "timed"

\* notify_one on the other side's condition: it ends the wait of one of the
\* waiting threads, if there is one.  Then the call returns and unlocks.
NotifyOne(t, op) ==
  LET other == IF op = "send" THEN "receive" ELSE "send"
  IN  /\ t \in Notifying(op)
      /\ \/ /\ Waiting(other) = {}
            /\ pc' = [pc EXCEPT ![t] = "idle"]
         \/ \E w \in Waiting(other), where \in {"woken", "timed_out"} :
              /\ WakeTo(w, where)
              /\ pc' = [pc EXCEPT ![t] = "idle", ![w] = where]
      /\ call' = [call EXCEPT ![t] = NoCall]
      /\ m_mutex' = FALSE
      /\ UNCHANGED <<indexVars, m_blocked_senders, m_blocked_receivers>>

\* The condition variables may wake a thread for no reason.
SpuriousWakeup(t) ==
  /\ pc[t] = "waiting"
  /\ pc' = [pc EXCEPT ![t] = "woken"]
  /\ UNCHANGED <<indexVars, m_mutex, m_blocked_senders, m_blocked_receivers, call>>

\* abs_time has passed.
Timeout(t) ==
  /\ pc[t] = "waiting"
  /\ call[t].block = "timed"
  /\ pc' = [pc EXCEPT ![t] = "timed_out"]
  /\ UNCHANGED <<indexVars, m_mutex, m_blocked_senders, m_blocked_receivers, call>>
-----------------------------------------------------------------------------
Init ==
  /\ IndexInit
  /\ m_mutex = FALSE
  /\ m_blocked_senders = 0
  /\ m_blocked_receivers = 0
  /\ pc = [t \in Threads |-> "idle"]
  /\ call = [t \in Threads |-> NoCall]

Call(t) ==
  \/ \E c \in SendCall : SendSizeError(t, c) \/ do_send(t, c)
  \/ \E c \in ReceiveCall, size \in BufferSize :
       ReceiveSizeError(t, size) \/ do_receive(t, c, size)

\* What a thread does without waiting for anything but m_mutex, and what it
\* does while it holds it.
Resume(t) == ResumeSend(t) \/ ResumeReceive(t)

Notify(t) == \E op \in {"send", "receive"} : NotifyOne(t, op)

Next ==
  \E t \in Threads : Call(t) \/ Resume(t) \/ Notify(t) \/ SpuriousWakeup(t) \/ Timeout(t)

\* A thread that can run eventually does, and one that wants m_mutex is not
\* passed over for ever while others lock and release it.  Once abs_time has
\* passed every further timed_wait returns at once, so a thread cannot wait
\* in it again and again for ever.
Fairness ==
  \A t \in Threads : SF_vars(Resume(t)) /\ WF_vars(Notify(t)) /\ SF_vars(Timeout(t))

Spec == Init /\ [][Next]_vars

FairSpec == Spec /\ Fairness
-----------------------------------------------------------------------------
\* A thread is in a call exactly when it is not idle, and only the calls that
\* block wait.
TypeOK ==
  /\ IndexTypeOK
  /\ m_mutex \in BOOLEAN
  /\ m_blocked_senders \in Nat
  /\ m_blocked_receivers \in Nat
  /\ pc \in [Threads -> PC]
  /\ call \in [Threads -> AnyCall]
  /\ \A t \in Threads :
       /\ pc[t] = "idle" <=> call[t] = NoCall
       /\ pc[t] \in {"waiting", "woken", "timed_out"} => call[t].block # "non_blocking"

\* m_blocked_senders and m_blocked_receivers count the threads inside the
\* blocking logic, on every path out of it: success, timeout, wake-up and
\* wait again.  The notify flags of the other side rest on them.
BlockedCounts ==
  CircularIndex =>
    /\ m_blocked_senders = Cardinality(Waiting("send") \cup Resuming("send"))
    /\ m_blocked_receivers = Cardinality(Waiting("receive") \cup Resuming("receive"))

\* No wake-up of a receiver is lost, although it may be consumed by a timed
\* wait that gives up, or by a receiver that finds the message taken by one
\* that never waited: while a receiver waits, each stored message has a
\* notification on its way or a receiver that is already awake.
NoLostReceiverWakeup ==
  Waiting("receive") # {} =>
    m_cur_num_msg <= Cardinality(Notifying("send")) + Cardinality(Resuming("receive"))

\* The same for senders and free places.
NoLostSenderWakeup ==
  Waiting("send") # {} =>
    MaxNumMsg - m_cur_num_msg <=
      Cardinality(Notifying("receive")) + Cardinality(Resuming("send"))

\* Senders and receivers never all wait for each other: when threads of both
\* kinds wait, some thread is awake or about to notify.
NoStandoff ==
  Waiting("send") # {} /\ Waiting("receive") # {} =>
    \E t \in Threads : pc[t] \in {"woken", "timed_out", "notifying"}

\* A receiver is not left waiting while a message is there for it, nor a
\* sender while there is room, whatever the other threads do.
WaitersProceed ==
  \A t \in Threads :
    /\ (t \in Waiting("receive") /\ ~is_empty) ~> (t \notin Waiting("receive") \/ is_empty)
    /\ (t \in Waiting("send") /\ ~is_full) ~> (t \notin Waiting("send") \/ is_full)

\* timed_send and timed_receive return, even if they are woken again and
\* again for nothing.
TimedCallsReturn ==
  \A t \in Threads :
    (pc[t] # "idle" /\ call[t].block = "timed") ~> pc[t] = "idle"
=============================================================================
