--------------------------------- MODULE Udp ---------------------------------
(***************************************************************************)
(* net::udp::Udp: one socket, one thread (runner_) that runs the handlers   *)
(* of io_context_, and the user's thread, which writes, closes and destroys *)
(* the object.                                                              *)
(*                                                                          *)
(* handle_read is called when the socket is readable, asks how many bytes   *)
(* are available, and receives datagrams with blocking calls until it has   *)
(* read as many.  What is counted depends on the platform: the next         *)
(* datagram on Linux, all that are waiting on Windows.  The iterations of   *)
(* that loop are steps of their own, since datagrams arrive in between.     *)
(*                                                                          *)
(* asio and the operating system are external.  Where they differ, the      *)
(* model has both: shutdown of a socket that is not connected throws on     *)
(* Linux, and makes every later read fail on Windows; a datagram that is    *)
(* longer than the buffer is cut off on Linux and throws on Windows.  An    *)
(* exception in a handler leaves run and ends the process.                  *)
(***************************************************************************)
EXTENDS Naturals, Sequences, FiniteSets

CONSTANTS Remote,        \* the addresses datagrams come from and go to
          Size,          \* the sizes of datagrams
          MaxDatagrams,  \* bound on the datagrams that arrive
          MaxSends,      \* bound on the calls of write_to and broadcast
          MaxFaults,     \* bound on the reads and sends that fail
          Unspecified,   \* the address of an endpoint that was not set
          Everyone       \* the broadcast address

ASSUME ConstantsAssumption ==
  /\ Size \subseteq Nat
  /\ MaxDatagrams \in Nat /\ MaxSends \in Nat /\ MaxFaults \in Nat
  /\ Unspecified # Everyone /\ Remote \cap {Unspecified, Everyone} = {}

VARIABLES platform,    \* "linux" or "windows"
          socket_,     \* "open" or "shut"
          sender_ep_,
          available,   \* the bytes handle_read has still to read, 0 outside
                       \* its loop
          buffer,      \* the datagrams that wait in the socket
          inProgress,  \* the operations in progress
          queue,       \* what io_context_ has ready to run
          runner,      \* the thread in io_context_.run()
          arrived,     \* the datagrams that have arrived
          handed,      \* the datagrams the message handler was given
          reported,    \* the errors reported: of which operation, naming whom
          sends, faults, closed

readVars == <<sender_ep_, available, buffer, handed>>
asioVars == <<inProgress, queue, runner>>
counters == <<sends, faults, closed>>
vars == <<platform, socket_, readVars, asioVars, arrived, reported, counters>>

Read == [do |-> "read", to |-> Unspecified]

Init ==
  /\ platform \in {"linux", "windows"}
  /\ socket_ = "open"
  /\ sender_ep_ = Unspecified
  /\ available = 0
  /\ buffer = <<>>
  /\ inProgress = {Read}
  /\ queue = <<>>
  /\ runner = "running"
  /\ arrived = <<>> /\ handed = <<>> /\ reported = {}
  /\ sends = 0 /\ faults = 0 /\ closed = FALSE
-----------------------------------------------------------------------------
\* The user's thread.  A send is numbered, to tell two to one remote apart.
async_send_to(ep) ==
  /\ runner = "running" /\ sends < MaxSends
  /\ sends' = sends + 1
  /\ inProgress' = inProgress \cup {[do |-> "write", to |-> ep, number |-> sends]}
  /\ UNCHANGED <<platform, socket_, readVars, queue, runner, arrived, reported, faults, closed>>

write_to == \E remote \in Remote : async_send_to(remote)

broadcast == async_send_to(Everyone)

close ==
  /\ runner = "running" /\ ~closed
  /\ closed' = TRUE
  /\ queue' = Append(queue, [do |-> "shutdown"])
  /\ UNCHANGED <<platform, socket_, readVars, inProgress, runner, arrived, reported, sends, faults>>

\* The destructor stops io_context_ and waits for the runner.
stop ==
  /\ runner = "running"
  /\ runner' = "stopping"
  /\ UNCHANGED <<platform, socket_, readVars, inProgress, queue, arrived, reported, counters>>

\* With the object, or the process, its socket and handlers are gone.
Destroyed(how) ==
  /\ runner' = how
  /\ socket_' = "shut" /\ buffer' = <<>> /\ arrived' = <<>> /\ handed' = <<>>
  /\ available' = 0 /\ inProgress' = {} /\ queue' = <<>> /\ reported' = {}
  /\ UNCHANGED <<platform, sender_ep_, counters>>

join ==
  /\ runner = "stopping" /\ available = 0
  /\ Destroyed("stopped")
-----------------------------------------------------------------------------
\* Waiting for the socket to become readable also resets sender_ep_.
do_read ==
  /\ inProgress' = inProgress \cup {Read}
  /\ sender_ep_' = Unspecified

\* An exception leaves run.
shutdown ==
  \/ platform = "linux" /\ Destroyed("terminated")
  \/ /\ platform = "windows"
     /\ socket_' = "shut"
     /\ queue' = Tail(queue)
     /\ UNCHANGED <<platform, readVars, inProgress, runner, arrived, reported, counters>>

\* The bytes of the first 0, 1, 2, ... datagrams of s, and of the first n that
\* wait in the socket.
BytesUpTo(s) ==
  LET upTo[i \in 0 .. Len(s)] == IF i = 0 THEN 0 ELSE upTo[i - 1] + s[i].size
  IN  upTo

Bytes(n) == BytesUpTo(buffer)[n]

Available ==
  Bytes(IF platform = "linux" /\ buffer # <<>> THEN 1 ELSE Len(buffer))

\* A failed wait is reported and not repeated.
Bug_ReadOnce(op) ==
  IF op.ok
  THEN /\ available' = Available
       /\ IF Available = 0 THEN do_read ELSE UNCHANGED <<inProgress, sender_ep_>>
       /\ UNCHANGED reported
  ELSE /\ reported' = reported \cup {[of |-> Read, told |-> sender_ep_]}
       /\ UNCHANGED <<inProgress, sender_ep_, available>>

handle_read(op) ==
  \/ /\ ~op.ok
     /\ reported' = reported \cup {[of |-> Read, told |-> sender_ep_]}
     /\ do_read
     /\ UNCHANGED available
  \/ /\ op.ok
     /\ available' = Available
     /\ IF Available = 0 THEN do_read ELSE UNCHANGED <<inProgress, sender_ep_>>
     /\ UNCHANGED reported

\* The error of a send is reported with the remote received from last.
Bug_WriteBlamesSender(op) ==
  reported' = IF op.ok THEN reported ELSE reported \cup {[of |-> op.of, told |-> sender_ep_]}

handle_write(op) ==
  reported' = IF op.ok THEN reported ELSE reported \cup {[of |-> op.of, told |-> op.of.to]}

Run ==
  /\ runner = "running" /\ available = 0 /\ queue # <<>>
  /\ LET op == Head(queue)
     IN  \/ op.do = "shutdown" /\ shutdown
         \/ /\ op.do = "read" /\ handle_read(op)
            /\ queue' = Tail(queue)
            /\ UNCHANGED <<platform, socket_, buffer, handed, runner, arrived, counters>>
         \/ /\ op.do = "write" /\ handle_write(op)
            /\ queue' = Tail(queue)
            /\ UNCHANGED <<platform, socket_, readVars, inProgress, runner, arrived, counters>>

\* The bytes of datagram d that receive_from takes from a buffer of n bytes.
Bug_FixedBuffer(d, n) == IF d.size < 2 THEN d.size ELSE 1

Taken(d, n) == IF d.size < n THEN d.size ELSE n

Throws(d, read) == platform = "windows" /\ (socket_ = "shut" \/ read < d.size)

\* The loop goes on as long as there was something to read.
Bug_AvailableKept(read) == available

AvailableAfter(read) == available - read

\* One iteration: with no datagram in the socket receive_from blocks.
receive_from ==
  /\ available > 0 /\ buffer # <<>>
  /\ LET d == Head(buffer)
         read == Taken(d, available)
         left == AvailableAfter(read)
     IN  \/ Throws(d, read) /\ Destroyed("terminated")
         \/ /\ ~Throws(d, read)
            /\ buffer' = Tail(buffer)
            /\ handed' = Append(handed, [d EXCEPT !.size = read])
            /\ available' = left
            /\ IF left = 0 THEN do_read ELSE sender_ep_' = d.from /\ UNCHANGED inProgress
            /\ UNCHANGED <<platform, socket_, queue, runner, arrived, reported, counters>>
-----------------------------------------------------------------------------
Arrive(from, size) ==
  /\ socket_ = "open" /\ Len(arrived) < MaxDatagrams
  /\ arrived' = Append(arrived, [from |-> from, size |-> size])
  /\ buffer' = Append(buffer, [from |-> from, size |-> size])
  /\ UNCHANGED <<platform, socket_, sender_ep_, available, handed, asioVars, reported, counters>>

\* An operation completes: its handler is queued.
Complete(op, ok) ==
  /\ runner = "running" /\ op \in inProgress
  /\ inProgress' = inProgress \ {op}
  /\ queue' = Append(queue, [do |-> op.do, of |-> op, ok |-> ok])
  /\ UNCHANGED <<platform, socket_, readVars, runner, arrived, reported, sends, closed>>

Readable ==
  /\ socket_ = "open" /\ buffer # <<>>
  /\ Complete(Read, TRUE)
  /\ UNCHANGED faults

Sent ==
  /\ \E op \in inProgress \ {Read} : Complete(op, TRUE)
  /\ UNCHANGED faults

Fail ==
  /\ faults < MaxFaults
  /\ faults' = faults + 1
  /\ \E op \in inProgress : Complete(op, FALSE)

\* On a socket that is shut down everything fails.
FailShut ==
  /\ socket_ = "shut"
  /\ \E op \in inProgress : Complete(op, FALSE)
  /\ UNCHANGED faults

Next ==
  \/ write_to \/ broadcast \/ close \/ stop \/ join
  \/ Run \/ receive_from
  \/ \E from \in Remote, size \in Size : Arrive(from, size)
  \/ Readable \/ Sent \/ Fail \/ FailShut

\* The runner runs what it can, and a readable socket is noticed.
Fairness == WF_vars(Run \/ receive_from \/ join) /\ WF_vars(Readable)

Spec == Init /\ [][Next]_vars

FairSpec == Spec /\ Fairness
-----------------------------------------------------------------------------
\* The message handler is given what has arrived: every datagram once, in
\* order, whole and with its sender, although handle_read cuts one buffer
\* into datagrams while others arrive.
WholeInOrder == handed \o buffer = arrived

\* Inside the loop the bytes still to read are those of the datagrams at the
\* front: the next receive_from finds one, and one that fits.
LoopStaysCounted ==
  available > 0 => \E n \in DOMAIN buffer : available = Bytes(n)

\* An error of a send names the remote of that send, and one of a read names
\* nobody, whoever was received from in the meantime.
ErrorsNameTheirRemote == \A error \in reported : error.told = error.of.to

\* As long as the socket is not closed or destroyed, a datagram is handed over
\* in the end.  On Linux only if no empty one is before it: nothing is
\* available then, nothing is received, and handle_read is called again and
\* again.
ReceivedUnlessEmpty ==
  LET Nonempty(i) == arrived[i].size > 0
      Due == {n \in DOMAIN arrived : \A i \in IF platform = "linux" THEN 1 .. n ELSE {n} : Nonempty(i)}
  IN  \A n \in 1 .. MaxDatagrams :
        n \in Due ~> n \in DOMAIN handed \/ closed \/ runner # "running"

\* The destructor returns: neither the loop of handle_read nor reads that fail
\* again and again keep the runner.
JoinReturns == runner = "stopping" ~> runner \in {"stopped", "terminated"}
=============================================================================
