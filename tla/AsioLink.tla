------------------------------ MODULE AsioLink ------------------------------
(***************************************************************************)
(* What net::tcp::Client and net::serial::Serial have in common: the thread *)
(* runner_ that runs the handlers of io_context_ one after the other, the   *)
(* queue of chunks that are sent one at a time, and the user's thread,      *)
(* which writes, closes and destroys the object.                            *)
(*                                                                          *)
(* asio is external and modelled by what the code relies on: an operation   *)
(* in progress completes by queueing its handler; handlers and posted       *)
(* functions run in the order they were queued; run returns when nothing is *)
(* in progress or queued.  A handler is bound to the object and not to a    *)
(* socket or port: one that is queued when that is replaced runs later      *)
(* against the new one.                                                     *)
(*                                                                          *)
(* The application's connection handler runs inside the handlers.  As in    *)
(* the repository's tests it calls reconnect or reopen when it is told      *)
(* "disconnected" (retries), or it does nothing.                            *)
(***************************************************************************)
EXTENDS Naturals, Sequences, FiniteSets

CONSTANTS MaxWrites,   \* bound on the calls of write that are accepted
          MaxFaults,   \* bound on faults of the network or the device
          MaxCloses    \* bound on the calls of close

ASSUME ConstantsAssumption ==
  /\ MaxWrites \in Nat /\ MaxFaults \in Nat /\ MaxCloses \in Nat

VARIABLES retries,     \* what the object was constructed with: does its
                       \* connection handler reconnect or reopen?
          connection_state_,
          sending_messages_,
          inProgress,  \* number of operations in progress, by kind
          queue,       \* what io_context_ has ready to run
          runner,      \* the thread in io_context_.run()
          user,        \* the user's thread: in a call or not
          accepted,    \* number of chunks write has accepted: 1, 2, 3, ...
          sent,        \* the chunks whose writing has succeeded
          faults,      \* faults so far
          closes       \* calls of close so far

linkVars == <<retries, connection_state_, sending_messages_, sent>>
asioVars == <<inProgress, queue, runner>>
userVars == <<user, accepted, closes>>

Kind == {"connect", "read", "write"}

Done(kind, ok) == [do |-> kind, ok |-> ok]

Post(what) == [do |-> what]

Idle == [kind \in Kind |-> 0]

Start(kind) == [inProgress EXCEPT ![kind] = @ + 1]

do_read == Start("read")

do_write == Start("write")

LinkInit ==
  /\ retries \in BOOLEAN
  /\ connection_state_ = "disconnected"
  /\ sending_messages_ = <<>> /\ sent = <<>>
  /\ runner = "running"
  /\ user = "idle"
  /\ accepted = 0 /\ faults = 0 /\ closes = 0

Ended == runner \in {"terminated", "stopped"}

IsConnected == connection_state_ = "connected"
-----------------------------------------------------------------------------
\* The user's calls.  write (refused with no effect while disconnected) tests
\* the state and acts on it; the runner may act in between.
Test ==
  /\ ~Ended /\ user = "idle" /\ accepted < MaxWrites /\ IsConnected
  /\ user' = "writing"
  /\ UNCHANGED <<linkVars, asioVars, accepted, closes, faults>>

PostWrite ==
  /\ ~Ended /\ user = "writing"
  /\ user' = "idle"
  /\ accepted' = accepted + 1
  /\ queue' = Append(queue, [do |-> "enqueue", chunk |-> accepted + 1])
  /\ UNCHANGED <<linkVars, inProgress, runner, closes, faults>>

BeginClose(at) ==
  /\ ~Ended /\ user = "idle" /\ closes < MaxCloses
  /\ user' = at
  /\ closes' = closes + 1
  /\ UNCHANGED <<retries, sending_messages_, sent, asioVars, accepted, faults>>

\* A close is called by the user or by the destructor, which then stops.
PostClose(what) ==
  /\ ~Ended /\ user = "closing"
  /\ user' \in {"idle", "stopping"}
  /\ queue' = Append(queue, Post(what))
  /\ UNCHANGED <<retries, sending_messages_, sent, inProgress, runner, accepted, closes, faults>>

\* The rest of the destructor: run returns, and the thread is joined.
StopAndJoin ==
  /\ ~Ended /\ user = "stopping"
  /\ runner' = "stopped"
  /\ UNCHANGED <<linkVars, inProgress, queue, userVars, faults>>
-----------------------------------------------------------------------------
\* A handler leaves started in progress and rest in the queue; run returns if
\* that leaves io_context_ without work.
Continue(started, rest) ==
  /\ inProgress' = started
  /\ queue' = rest
  /\ runner' = IF started = Idle /\ rest = <<>> THEN "finished" ELSE "running"

\* The handlers that closing or destroying the socket or port queues.
Aborted ==
  LET Of(kind) == [i \in 1 .. inProgress[kind] |-> Done(kind, FALSE)]
  IN  Of("read") \o Of("connect") \o Of("write")

\* An exception leaves run and ends the program.
Terminate == runner' = "terminated" /\ UNCHANGED <<linkVars, inProgress, queue>>

ReadOn(rest) == Continue(do_read, rest) /\ UNCHANGED linkVars

\* Definitions named Bug_ are plausible mistakes in the code, never used by
\* the specification: each shows that some property would notice it.
\* Here a write that has ended clears the whole queue.
Bug_ClearAll(rest) ==
  /\ sending_messages_' = <<>>
  /\ sent' = Append(sent, Head(sending_messages_))
  /\ Continue(inProgress, rest)
  /\ UNCHANGED <<retries, connection_state_>>

WriteNext(rest) ==
  /\ sending_messages_' = Tail(sending_messages_)
  /\ sent' = Append(sent, Head(sending_messages_))
  /\ Continue(IF Tail(sending_messages_) = <<>> THEN inProgress ELSE do_write, rest)
  /\ UNCHANGED <<retries, connection_state_>>

\* A write is started whether or not one is in progress.
Bug_AlwaysWrite(chunk, rest) ==
  /\ sending_messages_' = Append(sending_messages_, chunk)
  /\ Continue(do_write, rest)
  /\ UNCHANGED <<retries, connection_state_, sent>>

\* The chunk is queued at the front.
Bug_EnqueueInFront(chunk, rest) ==
  /\ sending_messages_' = <<chunk>> \o sending_messages_
  /\ Continue(IF sending_messages_ = <<>> THEN do_write ELSE inProgress, rest)
  /\ UNCHANGED <<retries, connection_state_, sent>>

\* The function write posts.
Enqueue(chunk, rest) ==
  /\ sending_messages_' = Append(sending_messages_, chunk)
  /\ Continue(IF sending_messages_ = <<>> THEN do_write ELSE inProgress, rest)
  /\ UNCHANGED <<retries, connection_state_, sent>>

\* An operation completes: its handler is queued.
Complete(kind, ok) ==
  /\ runner = "running" /\ inProgress[kind] > 0
  /\ inProgress' = [inProgress EXCEPT ![kind] = @ - 1]
  /\ queue' = Append(queue, Done(kind, ok))
  /\ UNCHANGED <<linkVars, runner, userVars, faults>>

Fault ==
  /\ runner = "running" /\ faults < MaxFaults
  /\ faults' = faults + 1
-----------------------------------------------------------------------------
Queued(what) == Cardinality({i \in DOMAIN queue : queue[i].do = what})

InFlight(kind) == inProgress[kind] + Queued(kind)

\* Two writes never overlap, whatever handlers of a replaced socket or port
\* run late, and the chunk being written stays at the front of the queue,
\* where do_write has taken its buffer from, until the handler has run.
OneWriteAtATime ==
  /\ InFlight("write") <= 1
  /\ InFlight("write") = 1 => sending_messages_ # <<>>

\* Across losses and retries no accepted chunk is dropped, duplicated or
\* overtaken: what was sent, what waits and what is posted make up the
\* accepted chunks in the order of the calls of write.
ChunksInOrder ==
  LET taken  == sent \o sending_messages_
      posted == {i \in DOMAIN queue : queue[i].do = "enqueue"}
  IN  /\ Len(taken) <= accepted /\ \A k \in DOMAIN taken : taken[k] = k
      /\ {queue[i].chunk : i \in posted} = Len(taken) + 1 .. accepted
      /\ \A i, j \in posted : i < j => queue[i].chunk < queue[j].chunk

\* A write was cut off.
Stuck == sending_messages_ # <<>> /\ InFlight("write") = 0
=============================================================================
