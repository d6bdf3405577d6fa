----------------------------- MODULE TcpClient -----------------------------
(***************************************************************************)
(* net::tcp::Client: one socket, which reconnect replaces at once.  Closing *)
(* the socket queues the handlers of its operations with an error.          *)
(***************************************************************************)
EXTENDS AsioLink

VARIABLE socket   \* name and state of *socket_

vars == <<linkVars, asioVars, userVars, faults, socket>>

\* What is in progress on the socket do_connect makes.
do_connect == [Idle EXCEPT !["connect"] = 1]

Init ==
  /\ LinkInit
  /\ socket = [name |-> 0, state |-> "connecting"]
  /\ inProgress = do_connect
  /\ queue = <<>>

is_connected == IsConnected

write_test == Test /\ UNCHANGED socket

write == PostWrite /\ UNCHANGED socket

\* close tests the state, sets it, and posts the shutdown.
close_test == is_connected /\ BeginClose("tested") /\ UNCHANGED <<connection_state_, socket>>

close ==
  /\ ~Ended /\ user = "tested"
  /\ user' = "closing"
  /\ connection_state_' = "disconnected"
  /\ UNCHANGED <<retries, sending_messages_, sent, asioVars, accepted, closes, faults, socket>>

close_post == PostClose("shutdown") /\ UNCHANGED <<connection_state_, socket>>

\* The destructor of a client that is not connected posts nothing.
stop_disconnected ==
  /\ ~Ended /\ user = "idle" /\ ~is_connected
  /\ user' = "stopping"
  /\ UNCHANGED <<linkVars, asioVars, accepted, closes, faults, socket>>

stop == StopAndJoin /\ UNCHANGED socket
-----------------------------------------------------------------------------
\* reconnect closes the socket and connects a new one.
reconnect(rest) ==
  /\ socket' = [name |-> 1 - socket.name, state |-> "connecting"]
  /\ Continue(do_connect, rest \o Aborted)

\* call_back_connection_handler with disconnected: the application either
\* reconnects or leaves it.
Disconnected(rest) ==
  /\ connection_state_' = "disconnected"
  /\ IF retries
     THEN reconnect(rest)
     ELSE Continue(inProgress, rest) /\ UNCHANGED socket
  /\ UNCHANGED <<retries, sending_messages_, sent>>

\* The first read is not started.
Bug_ConnectWithoutRead(ok, rest) ==
  \/ ~ok /\ Disconnected(rest)
  \/ /\ ok
     /\ connection_state_' = "connected"
     /\ Continue(inProgress, rest)
     /\ UNCHANGED <<retries, sending_messages_, sent, socket>>

\* A failed attempt is not reported.
Bug_ConnectFailsSilently(ok, rest) ==
  IF ok
  THEN /\ connection_state_' = "connected"
       /\ Continue(do_read, rest)
       /\ UNCHANGED <<retries, sending_messages_, sent, socket>>
  ELSE Continue(inProgress, rest) /\ UNCHANGED <<linkVars, socket>>

handle_connect(ok, rest) ==
  \/ ~ok /\ Disconnected(rest)
  \/ /\ ok
     /\ connection_state_' = "connected"
     /\ Continue(do_read, rest)
     /\ UNCHANGED <<retries, sending_messages_, sent, socket>>

\* A failed read is not reported.
Bug_ReadFailsSilently(ok, rest) ==
  /\ Continue(IF ok THEN do_read ELSE inProgress, rest)
  /\ UNCHANGED <<linkVars, socket>>

\* The return after the report is forgotten.
Bug_ReadAfterError(ok, rest) ==
  \/ /\ ~ok
     /\ connection_state_' = "disconnected"
     /\ socket' = [name |-> 1 - socket.name, state |-> "connecting"]
     /\ Continue([do_connect EXCEPT !["read"] = 1], rest \o Aborted)
     /\ UNCHANGED <<retries, sending_messages_, sent>>
  \/ ok /\ ReadOn(rest) /\ UNCHANGED socket

handle_read(ok, rest) ==
  \/ ~ok /\ Disconnected(rest)
  \/ ok /\ ReadOn(rest) /\ UNCHANGED socket

handle_write(ok, rest) ==
  \/ ~ok /\ Disconnected(rest)
  \/ ok /\ WriteNext(rest) /\ UNCHANGED socket

\* The function close posts.  On a socket that is not connected, shutdown may
\* throw.
shutdown(rest) ==
  \/ /\ socket' = [socket EXCEPT !.state = "lost"]
     /\ Continue(inProgress, rest)
     /\ UNCHANGED linkVars
  \/ socket.state # "connected" /\ Terminate /\ UNCHANGED socket

Run ==
  /\ runner = "running" /\ queue # <<>>
  /\ LET next == Head(queue)
         rest == Tail(queue)
     IN  \/ next.do = "connect"  /\ handle_connect(next.ok, rest)
         \/ next.do = "read"     /\ handle_read(next.ok, rest)
         \/ next.do = "write"    /\ handle_write(next.ok, rest)
         \/ next.do = "enqueue"  /\ Enqueue(next.chunk, rest) /\ UNCHANGED socket
         \/ next.do = "shutdown" /\ shutdown(rest)
  /\ UNCHANGED <<userVars, faults>>
-----------------------------------------------------------------------------
\* Operations on the socket called name succeed while it is connected.
Succeed(name, kind) ==
  /\ socket.name = name
  /\ socket.state = IF kind = "connect" THEN "connecting" ELSE "connected"
  /\ socket' = [socket EXCEPT !.state = "connected"]
  /\ Complete(kind, TRUE)

\* They fail once the connection is lost.  Reading and writing may also fail
\* on a socket that is still connecting, or wait for it to be connected.
Fail(name, kind) ==
  /\ socket.name = name
  /\ socket.state = "lost" \/ (socket.state = "connecting" /\ kind # "connect")
  /\ Complete(kind, FALSE)
  /\ UNCHANGED socket

\* The peer or the network: the connection is lost, or the attempt fails.
Lose ==
  /\ Fault
  /\ socket.state \in {"connecting", "connected"}
  /\ socket' = [socket EXCEPT !.state = "lost"]
  /\ UNCHANGED <<linkVars, asioVars, userVars>>

Next ==
  \/ write_test \/ write \/ close_test \/ close \/ close_post \/ stop_disconnected \/ stop
  \/ Run
  \/ \E name \in 0 .. 1, kind \in Kind : Succeed(name, kind) \/ Fail(name, kind)
  \/ Lose

\* The runner runs what is queued, and every operation that may complete on
\* a socket does, as long as it is that socket's.  Nobody has to read or to
\* write, and the peer need not send: a read may stay in progress for ever.
Fairness ==
  /\ WF_vars(Run)
  /\ WF_vars(write \/ close \/ close_post \/ stop)
  /\ \A name \in 0 .. 1 :
       /\ WF_vars(Succeed(name, "connect"))
       /\ WF_vars(Succeed(name, "write"))
       /\ \A kind \in Kind : WF_vars(socket.state = "lost" /\ Fail(name, kind))

Spec == Init /\ [][Next]_vars

FairSpec == Spec /\ Fairness
-----------------------------------------------------------------------------
\* Whenever the client says it is connected, a read is in progress or its
\* handler queued: a later loss of the connection cannot go unnoticed, and
\* run has not returned, so that what write posts is run.
ConnectedIsRead == is_connected => InFlight("read") >= 1 /\ runner # "finished"

\* Handlers that reconnect on behalf of each other do not multiply: at most two
\* operations or handlers are ever in flight, the second one being the write
\* or what the handler of a failed write has started.
ReconnectsDoNotMultiply ==
  InFlight("connect") + InFlight("read") + InFlight("write") <= 2

\* A lost connection does not go unnoticed: the client says "disconnected"
\* some time after it, also when it is lost inside or right after a callback
\* and when close runs at the same time.
LossIsNoticed == socket.state = "lost" ~> ~is_connected \/ Ended

\* A client whose handler reconnects is connected again, provided no write was
\* in progress when the connection was lost (Stuck).
ReconnectsUnlessStuck == retries /\ ~is_connected ~> is_connected \/ Stuck \/ Ended

\* "while (!client.are_all_messages_sent()) sleep_for(1s);": with a handler
\* that reconnects, everything write has accepted is sent in the end.
AllMessagesSent == retries /\ sending_messages_ # <<>> ~> sending_messages_ = <<>> \/ Ended

\* "while (!client.is_connected()) sleep_for(1s);": with a handler that
\* reconnects, a client that was disconnected is connected again in the end.
ConnectedAgain == retries /\ ~is_connected ~> is_connected \/ Ended
=============================================================================
