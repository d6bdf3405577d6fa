------------------------------- MODULE Serial -------------------------------
(***************************************************************************)
(* net::serial::Serial: one port.  It resembles the TCP client, with one    *)
(* difference that matters: closing and opening are posted and not done at  *)
(* once.  Both posted functions act on the port_ of the moment they run,    *)
(* which another reopen may have replaced.  Closing or destroying the port  *)
(* queues the handlers of its operations with an error.                     *)
(***************************************************************************)
EXTENDS AsioLink

VARIABLE port_   \* "closed", "open", or "lost": open, the device gone

vars == <<linkVars, asioVars, userVars, faults, port_>>

Open == Post("open")

Close == Post("close")

Init ==
  /\ LinkInit
  /\ port_ = "closed"
  /\ inProgress = Idle
  /\ queue = <<Open>>

is_opened == IsConnected

write_test == Test /\ UNCHANGED port_

write == PostWrite /\ UNCHANGED port_

\* close says "disconnected" and posts the closing.
close_set == BeginClose("closing") /\ connection_state_' = "disconnected" /\ UNCHANGED port_

close == PostClose("close") /\ UNCHANGED <<connection_state_, port_>>

stop == StopAndJoin /\ UNCHANGED port_
-----------------------------------------------------------------------------
\* reopen does not post the opening.
Bug_ReopenClosesOnly(rest) ==
  /\ port_' = "closed"
  /\ Continue(Idle, rest \o <<Close>> \o Aborted)

\* reopen posts the closing, replaces the port, which aborts the operations
\* of the old one, and posts the opening.
reopen(rest) ==
  /\ port_' = "closed"
  /\ Continue(Idle, rest \o <<Close>> \o Aborted \o <<Open>>)

\* call_back_connection_handler with disconnected, when the port is then p.
Disconnected(p, rest) ==
  /\ connection_state_' = "disconnected"
  /\ IF retries
     THEN reopen(rest)
     ELSE port_' = p /\ Continue(inProgress, rest)
  /\ UNCHANGED <<retries, sending_messages_, sent>>

\* flush has failed on a port that was opened: the port is left open.
flush_fails(rest) == Disconnected("open", rest)

\* The function do_open posts, and handle_open.  A port that is already open
\* is not opened again.  A fault may make opening fail, set_option throw, or
\* flush fail.
handle_open(rest) ==
  \/ /\ port_ # "closed"
     /\ Disconnected(port_, rest)
     /\ UNCHANGED faults
  \/ /\ port_ = "closed"
     /\ port_' = "open"
     /\ connection_state_' = "connected"
     /\ Continue(do_read, rest)
     /\ UNCHANGED <<retries, sending_messages_, sent, faults>>
  \/ /\ port_ = "closed" /\ Fault
     /\ \/ Disconnected("closed", rest)
        \/ flush_fails(rest)
        \/ Terminate /\ UNCHANGED port_

\* A failed read is not reported.
Bug_ReadFailsSilently(ok, rest) ==
  /\ Continue(IF ok THEN do_read ELSE inProgress, rest)
  /\ UNCHANGED <<linkVars, port_>>

\* The return after the report is forgotten.
Bug_ReadAfterError(ok, rest) ==
  \/ /\ ~ok
     /\ connection_state_' = "disconnected"
     /\ port_' = "closed"
     /\ Continue([Idle EXCEPT !["read"] = 1], rest \o <<Close>> \o Aborted \o <<Open>>)
     /\ UNCHANGED <<retries, sending_messages_, sent>>
  \/ ok /\ ReadOn(rest) /\ UNCHANGED port_

handle_read(ok, rest) ==
  \/ ~ok /\ Disconnected(port_, rest)
  \/ ok /\ ReadOn(rest) /\ UNCHANGED port_

handle_write(ok, rest) ==
  \/ ~ok /\ Disconnected(port_, rest)
  \/ ok /\ WriteNext(rest) /\ UNCHANGED port_

\* The function close posts.
close_port(rest) ==
  /\ port_' = "closed"
  /\ Continue(Idle, rest \o Aborted)
  /\ UNCHANGED linkVars

Run ==
  /\ runner = "running" /\ queue # <<>>
  /\ LET next == Head(queue)
         rest == Tail(queue)
     IN  \/ next.do = "open" /\ handle_open(rest)
         \/ /\ \/ next.do = "close"   /\ close_port(rest)
               \/ next.do = "read"    /\ handle_read(next.ok, rest)
               \/ next.do = "write"   /\ handle_write(next.ok, rest)
               \/ next.do = "enqueue" /\ Enqueue(next.chunk, rest) /\ UNCHANGED port_
            /\ UNCHANGED faults
  /\ UNCHANGED userVars
-----------------------------------------------------------------------------
\* Operations succeed on an open port and fail on one that is lost or closed.
Finish(kind, ok) ==
  /\ ok <=> port_ = "open"
  /\ Complete(kind, ok)
  /\ UNCHANGED port_

\* The device is gone.
Lose ==
  /\ Fault
  /\ port_ = "open"
  /\ port_' = "lost"
  /\ UNCHANGED <<linkVars, asioVars, userVars>>

Next ==
  \/ write_test \/ write \/ close_set \/ close \/ stop
  \/ Run
  \/ \E kind \in Kind, ok \in BOOLEAN : Finish(kind, ok)
  \/ Lose

\* The runner runs what is queued, writing completes one way or the other,
\* reading at least when the device is gone, and calls that have begun end.
Fairness ==
  /\ WF_vars(Run)
  /\ WF_vars(write \/ close \/ stop)
  /\ WF_vars(Finish("write", TRUE))
  /\ \A kind \in Kind : WF_vars(Finish(kind, FALSE))

Spec == Init /\ [][Next]_vars

FairSpec == Spec /\ Fairness
-----------------------------------------------------------------------------
\* Whenever the port is said to be open, a read is in progress or its handler
\* queued: the loss of the device cannot go unnoticed, nor can a posted close
\* that shuts the port behind the back of connection_state_, and run has not
\* returned, so that what write posts is run.
OpenedIsRead == is_opened => InFlight("read") >= 1 /\ runner # "finished"

\* Reopening on behalf of each other does not multiply: at most two reads,
\* writes and openings are ever under way, the second one being the write or
\* what its handler has posted after it was cut off.
ReopensDoNotMultiply == InFlight("read") + InFlight("write") + Queued("open") <= 2

\* With a handler that reopens, after the last fault and the last close the
\* port is opened and stays open, provided no write was cut off (Stuck): the
\* closing and the opening that reopen and close post never undo each other
\* for ever.
StaysOpenUnlessStuck == retries => <>[]is_opened \/ <>(Stuck \/ Ended)

\* A port that is lost or closed is said to be disconnected in the end, or is
\* opened again.
LossIsNoticed == port_ # "open" ~> ~is_opened \/ port_ = "open" \/ Ended
=============================================================================
