------------------------------ MODULE TcpServer ------------------------------
(***************************************************************************)
(* net::tcp::Server and its Sessions: one acceptor, a map of sessions, one  *)
(* thread (runner_) that runs the handlers of io_context_, and the user's   *)
(* thread, which calls close and destroys the server.                       *)
(*                                                                          *)
(* The key of a session in sessions_ is its address.  A session lives as    *)
(* long as the map or a handler bound with shared_from_this refers to it;   *)
(* after that its address may be given to another one.                      *)
(*                                                                          *)
(* The application's packet handler answers a packet inside handle_read, as *)
(* in the repository's tests, to its sender, to all or to all others.  Its  *)
(* connection handler only looks: a write_to from it when it is told        *)
(* "connected" finds no session yet and is refused with no effect.          *)
(*                                                                          *)
(* asio is external, as in TcpClient.  close changes sessions_ in the       *)
(* user's thread without a lock; its steps may fall between any two         *)
(* handlers, and in the middle of one, between its change of sessions_ and  *)
(* its call of the connection handler.  Using an iterator to an erased      *)
(* session is undefined behaviour: the process ends there.                  *)
(***************************************************************************)
EXTENDS Naturals, Sequences, FiniteSets

CONSTANTS Address,      \* the addresses at which sessions are allocated
          MaxSessions,  \* bound on the connections that are accepted
          MaxPackets,   \* bound on the packets that arrive
          MaxFaults,    \* bound on lost connections and failed accepts
          MaxCloses     \* bound on the calls of close

ASSUME ConstantsAssumption ==
  /\ IsFiniteSet(Address)
  /\ MaxSessions \in Nat /\ MaxPackets \in Nat /\ MaxFaults \in Nat /\ MaxCloses \in Nat

VARIABLES sessions_,   \* the sessions in the map, each under its address
          session,     \* all sessions accepted so far, the destroyed ones too
          inProgress,  \* the operations in progress
          queue,       \* what io_context_ has ready to run; in front, what a
                       \* handler that has begun has left to do
          runner,      \* the thread in io_context_.run()
          user,        \* the user's thread: where in close, and its iterator
          packets,     \* packets received so far: 1, 2, 3, ...
          faults,      \* faults so far
          closes       \* calls of close so far

asioVars == <<inProgress, queue, runner>>
counters == <<packets, faults, closes>>
vars == <<sessions_, session, asioVars, user, counters>>

\* written, sent and left record what write was given, what was sent, and
\* whether the session was reported "disconnected".
NewSession(id) ==
  [id |-> id, socket_ |-> "open", sending_messages_ |-> <<>>,
   written |-> <<>>, sent |-> <<>>, left |-> FALSE]

Op(what, s) == [do |-> what, of |-> s]

Accept == Op("accept", 0)

InFlight(op) ==
  op \in inProgress \/ \E i \in DOMAIN queue : Op(queue[i].do, queue[i].of) = op

\* close is inside leave, with a share of the session that it has erased.
Leaving(s) == user.at = "report" /\ user.of = s

\* A handler, queued or begun, or a call of leave has a share of the session.
Held(s) ==
  \/ \E what \in {"read", "write", "emplace", "report"} : InFlight(Op(what, s))
  \/ Leaving(s)

\* Handlers do not keep their session alive: bind(..., this, _1, _2).
Bug_AliveInMap(s) == s \in sessions_

Alive(s) == s \in sessions_ \/ Held(s)

\* session_ptr_to_id: the addresses make_shared may return.
FreeAddress == Address \ {session[s].id : s \in {t \in DOMAIN session : Alive(t)}}

Init ==
  /\ sessions_ = {}
  /\ session = <<>>
  /\ inProgress = {Accept}
  /\ queue = <<>>
  /\ runner = "running"
  /\ user = [at |-> "idle"]
  /\ packets = 0 /\ faults = 0 /\ closes = 0
-----------------------------------------------------------------------------
\* The end of a handler: it has started operations and leaves rest.
Continue(started, rest) ==
  /\ inProgress' = inProgress \cup started
  /\ queue' = rest

\* What a handler of session s has left to do.
Then(what, s) == [do |-> what, of |-> s, ok |-> TRUE, chunk |-> 0]

\* A handler has begun and not ended.
Begun == queue # <<>> /\ Head(queue).do \in {"emplace", "report"}

\* The map finds and erases by address.
Under(id) == {s \in sessions_ : session[s].id = id}

\* leave erases the session,
leave(s) == sessions_' = sessions_ \ Under(session[s].id)

\* and then tells the application "disconnected".
report(s) == session' = [session EXCEPT ![s].left = TRUE] /\ UNCHANGED sessions_

\* leave in a handler.
Fails(s, rest) ==
  /\ leave(s)
  /\ Continue({}, <<Then("report", s)>> \o rest)
  /\ UNCHANGED session

\* handle_accept makes a session and tells the application "connected",
handle_accept(ok, rest) ==
  /\ \/ ~ok /\ Continue({Accept}, rest) /\ UNCHANGED session
     \/ /\ ok
        /\ \E id \in FreeAddress : session' = Append(session, NewSession(id))
        /\ Continue({}, <<Then("emplace", Len(session) + 1)>> \o rest)
  /\ UNCHANGED sessions_

\* and then puts it into the map, starts it and accepts the next one.
emplace(s, rest) ==
  /\ sessions_' = IF Under(session[s].id) = {} THEN sessions_ \cup {s} ELSE sessions_
  /\ Continue({Op("read", s), Accept}, rest)
  /\ UNCHANGED session

\* The sessions an answer to a packet from s is written to.
write_to(s) == Under(session[s].id)

write_to_all == sessions_

write_to_all_except(s) == sessions_ \ Under(session[s].id)

\* Session::write, and whether it starts writing.
write(t, chunk) ==
  [session[t] EXCEPT !.sending_messages_ = Append(@, chunk), !.written = Append(@, chunk)]

StartsWrite(t) == session[t].sending_messages_ = <<>>

\* An error of a read is not reported.
Bug_ReadFailsSilently(s, ok, chunk, rest) ==
  /\ Continue(IF ok THEN {Op("read", s)} ELSE {}, rest)
  /\ UNCHANGED <<sessions_, session>>

handle_read(s, ok, chunk, rest) ==
  \/ ~ok /\ Fails(s, rest)
  \/ /\ ok
     /\ \E targets \in {write_to(s), write_to_all, write_to_all_except(s)} :
          /\ session' = [t \in DOMAIN session |->
                           IF t \in targets THEN write(t, chunk) ELSE session[t]]
          /\ Continue({Op("write", t) : t \in {u \in targets : StartsWrite(u)}}
                        \cup {Op("read", s)}, rest)
     /\ UNCHANGED sessions_

\* Only the first waiting chunk is sent.
Bug_WriteOnce(s, ok, rest) ==
  \/ ~ok /\ Fails(s, rest)
  \/ /\ ok
     /\ session' = [session EXCEPT ![s].sending_messages_ = Tail(@),
                                   ![s].sent = Append(@, Head(session[s].sending_messages_))]
     /\ Continue({}, rest)
     /\ UNCHANGED sessions_

handle_write(s, ok, rest) ==
  LET waiting == session[s].sending_messages_
  IN  \/ ~ok /\ Fails(s, rest)
      \/ /\ ok
         /\ session' = [session EXCEPT ![s].sending_messages_ = Tail(waiting),
                                       ![s].sent = Append(@, Head(waiting))]
         /\ Continue(IF Tail(waiting) = <<>> THEN {} ELSE {Op("write", s)}, rest)
         /\ UNCHANGED sessions_

Run ==
  /\ runner = "running" /\ queue # <<>>
  /\ LET next == Head(queue)
         rest == Tail(queue)
     IN  \/ next.do = "accept" /\ handle_accept(next.ok, rest)
         \/ next.do = "read"   /\ handle_read(next.of, next.ok, next.chunk, rest)
         \/ next.do = "write"  /\ handle_write(next.of, next.ok, rest)
         \/ next.do = "emplace" /\ emplace(next.of, rest)
         \/ next.do = "report" /\ report(next.of) /\ Continue({}, rest)
  /\ UNCHANGED <<runner, user, counters>>
-----------------------------------------------------------------------------
\* The user's thread.  Sessions accepted after close has begun may be put
\* before or behind its iterator: they may be visited or not.
Visit(at, s, old) == [at |-> at, iter |-> s, old |-> old]

close ==
  /\ runner = "running" /\ user.at = "idle" /\ closes < MaxCloses
  /\ closes' = closes + 1
  /\ \/ sessions_ = {} /\ UNCHANGED user
     \/ \E s \in sessions_ : user' = Visit("shutdown", s, sessions_)
  /\ UNCHANGED <<sessions_, session, asioVars, packets, faults>>

\* With the server, or the process, its sessions and handlers are gone.
Destroyed(how) ==
  /\ runner' = how
  /\ user' = [at |-> how]
  /\ sessions_' = {} /\ session' = <<>> /\ inProgress' = {} /\ queue' = <<>>
  /\ UNCHANGED counters

\* Session::close: shutdown throws if the peer has reset the connection.
close_session ==
  /\ runner = "running" /\ user.at = "shutdown"
  /\ \/ user.iter \notin sessions_ /\ Destroyed("undefined")
     \/ /\ user.iter \in sessions_
        /\ session' = [session EXCEPT ![user.iter].socket_ = "shut"]
        /\ user' = Visit("leave", user.iter, user.old)
        /\ UNCHANGED <<sessions_, asioVars, counters>>
     \/ /\ user.iter \in sessions_ /\ session[user.iter].socket_ = "lost"
        /\ Destroyed("thrown")

\* The iterator is advanced to where close goes on, and the session leaves,
close_leave ==
  LET others == sessions_ \ {user.iter}
      end    == IF others \cap user.old = {} THEN {[at |-> "idle"]} ELSE {}
  IN  /\ runner = "running" /\ user.at = "leave"
      /\ \/ user.iter \notin sessions_ /\ Destroyed("undefined")
         \/ /\ user.iter \in sessions_
            /\ leave(user.iter)
            /\ \E next \in {Visit("shutdown", s, user.old) : s \in others} \cup end :
                 user' = [at |-> "report", of |-> user.iter, next |-> next]
            /\ UNCHANGED <<session, asioVars, counters>>

\* and is reported, in the user's thread.
close_report ==
  /\ runner = "running" /\ user.at = "report"
  /\ report(user.of)
  /\ user' = user.next
  /\ UNCHANGED <<asioVars, counters>>

\* The rest of the destructor, after its close: stop, after which run returns
\* (a handler that has begun ends first) and the members are destroyed.
stop ==
  /\ runner = "running" /\ user.at = "idle" /\ closes > 0 /\ ~Begun
  /\ Destroyed("stopped")
-----------------------------------------------------------------------------
\* An operation completes: its handler is queued.
Complete(op, ok, chunk) ==
  /\ runner = "running" /\ op \in inProgress
  /\ inProgress' = inProgress \ {op}
  /\ queue' = Append(queue, [do |-> op.do, of |-> op.of, ok |-> ok, chunk |-> chunk])
  /\ UNCHANGED <<sessions_, session, runner, user, closes>>

Connect ==
  /\ Len(session) < MaxSessions /\ FreeAddress # {}
  /\ Complete(Accept, TRUE, 0)
  /\ UNCHANGED <<packets, faults>>

AcceptFails ==
  /\ faults < MaxFaults
  /\ faults' = faults + 1
  /\ Complete(Accept, FALSE, 0)
  /\ UNCHANGED packets

\* A packet that arrived before the connection was lost can still be read,
\* and a peer that has only closed its side still takes what is sent.
Receive(s) ==
  /\ session[s].socket_ \in {"open", "lost"} /\ packets < MaxPackets
  /\ packets' = packets + 1
  /\ Complete(Op("read", s), TRUE, packets + 1)
  /\ UNCHANGED faults

Send(s) ==
  /\ session[s].socket_ \in {"open", "lost"}
  /\ Complete(Op("write", s), TRUE, 0)
  /\ UNCHANGED <<packets, faults>>

Lost == {s \in DOMAIN session : session[s].socket_ # "open"}

Fail(s, what) ==
  /\ s \in Lost
  /\ Complete(Op(what, s), FALSE, 0)
  /\ UNCHANGED <<packets, faults>>

Lose(s) ==
  /\ runner = "running" /\ session[s].socket_ = "open"
  /\ faults < MaxFaults
  /\ faults' = faults + 1
  /\ session' = [session EXCEPT ![s].socket_ = "lost"]
  /\ UNCHANGED <<sessions_, asioVars, user, packets, closes>>

Next ==
  \/ Run
  \/ close \/ close_session \/ close_leave \/ close_report \/ stop
  \/ Connect \/ AcceptFails
  \/ \E s \in DOMAIN session :
       Receive(s) \/ Send(s) \/ Lose(s) \/ Fail(s, "read") \/ Fail(s, "write")

\* The runner runs what is queued, what is in progress on a connection that
\* is lost or shut down fails, and a close that has begun goes on.
Fairness ==
  /\ WF_vars(Run)
  /\ WF_vars(close_session \/ close_leave \/ close_report)
  /\ WF_vars(\E s \in Lost, what \in {"read", "write"} : Fail(s, what))

Spec == Init /\ [][Next]_vars

FairSpec == Spec /\ Fairness
-----------------------------------------------------------------------------
Unreported == {s \in DOMAIN session : ~session[s].left}

\* A thread is between the map and the application with this session.
Changing(s) == InFlight(Op("emplace", s)) \/ InFlight(Op("report", s)) \/ Leaving(s)

\* The application believes every session in the map to be connected, and
\* each session it believes to be connected is in the map or just on its way
\* in or out, although a session may leave three times: when its read fails,
\* when its write fails, and in close, in the other thread.
MapMatchesReports ==
  /\ sessions_ \subseteq Unreported
  /\ \A s \in Unreported \ sessions_ : Changing(s)

\* A handler that runs late, after its session has left, never erases or
\* answers a newer session that was allocated at the same address, and what
\* it or close reports of that address is not about a newer session.
LateHandlersMeetOwnSession ==
  \A s \in DOMAIN session : Held(s) => Under(session[s].id) \subseteq {s}

\* What a session was told to write is sent in order and without loss, and
\* as long as the session is in the map a chunk that waits has a write in
\* progress that will get to it.
ChunksFlow ==
  \A s \in DOMAIN session :
    LET waiting == session[s].sending_messages_
    IN  /\ session[s].sent \o waiting = session[s].written
        /\ s \in sessions_ /\ waiting # <<>> => InFlight(Op("write", s))

\* A connection that is lost or shut down is reported in the end, also when
\* close and the runner meet at the same session.
LossIsReported ==
  \A s \in 1 .. MaxSessions :
    s \in Lost ~> (runner # "running" \/ s \notin Unreported)

\* "~Server() noexcept": close, and the destructor that calls it, run to
\* their end.
CloseCompletes == user.at \notin {"thrown", "undefined"}
=============================================================================
