-------------------------- MODULE TcpClientProofs --------------------------
(***************************************************************************)
(* Proofs about net::tcp::Client, for any number of writes, losses and      *)
(* calls of close.                                                          *)
(*                                                                          *)
(* None of the four properties is inductive alone.  That one write at a     *)
(* time is under way needs that its chunk is the front of the queue of      *)
(* chunks; that at most two operations or handlers are in flight needs that *)
(* there is at most one while no chunk waits, because the write a new chunk *)
(* starts is then the second.                                               *)
(***************************************************************************)
EXTENDS TcpClient, AsioLinkProofs

\* Operations in progress and handlers queued, of any kind.
Flights == InFlight("connect") + InFlight("read") + InFlight("write")

FlightsBounded == Flights <= IF sending_messages_ = <<>> THEN 1 ELSE 2

Inv == LinkInv /\ ConnectedIsRead /\ FlightsBounded

\* A client that was just constructed.
LEMMA InitInv == Init => Inv
<1> SUFFICES ASSUME Init PROVE Inv
  OBVIOUS
<1>1. /\ sending_messages_ = <<>> /\ sent = <<>> /\ accepted = 0 /\ queue = <<>>
      /\ connection_state_ = "disconnected"
      /\ inProgress \in [Kind -> Nat]
      /\ inProgress["connect"] = 1 /\ inProgress["read"] = 0 /\ inProgress["write"] = 0
  BY DEF Init, LinkInit, do_connect, Idle, Kind
<1>2. Queued("connect") = 0 /\ Queued("read") = 0 /\ Queued("write") = 0
  <2>1. ASSUME NEW what PROVE Queued(what) = 0
    BY <1>1, CountNone, QueuedIsCount
  <2> QED BY <2>1
<1>3. InFlight("connect") = 1 /\ InFlight("read") = 0 /\ InFlight("write") = 0
  BY <1>1, <1>2 DEF InFlight
<1>4. LinkTypes
  BY <1>1 DEF LinkTypes
<1>5. OneWriteAtATime
  BY <1>3 DEF OneWriteAtATime
<1>6. ChunksInOrder
  BY <1>1 DEF ChunksInOrder
<1>7. ConnectedIsRead /\ FlightsBounded
  BY <1>1, <1>3 DEF ConnectedIsRead, is_connected, IsConnected, FlightsBounded, Flights
<1> QED BY <1>4, <1>5, <1>6, <1>7 DEF Inv, LinkInv

\* A step that leaves in flight what was.
LEMMA SameKeepsInv ==
  ASSUME Inv, LinkInv', SameFlight, sending_messages_' = sending_messages_,
         connection_state_' \in {connection_state_, "disconnected"},
         runner' \in {runner, "stopped"}
  PROVE  Inv'
<1>1. /\ InFlight("connect")' = InFlight("connect") /\ InFlight("read")' = InFlight("read")
      /\ InFlight("write")' = InFlight("write")
  BY DEF SameFlight, Kind
<1>2. ConnectedIsRead'
  BY <1>1 DEF Inv, ConnectedIsRead, is_connected, IsConnected
<1>3. FlightsBounded'
  BY <1>1 DEF Inv, FlightsBounded, Flights
<1> QED BY <1>2, <1>3 DEF Inv

\* A failed handler: the application reconnects or leaves it.
LEMMA DisconnectedKeepsInv ==
  ASSUME Inv, queue # <<>>, Head(queue).do \in Kind, Disconnected(Tail(queue)),
         accepted' = accepted
  PROVE  Inv'
<1> DEFINE h == Head(queue).do
<1>1. /\ LinkInv /\ LinkTypes /\ h \in Kind /\ h # "enqueue"
      /\ UNCHANGED <<sending_messages_, sent, accepted>>
      /\ connection_state_' = "disconnected"
  BY DEF Inv, LinkInv, Disconnected, Kind
<1>2. /\ InFlight("connect") \in Nat /\ InFlight("read") \in Nat /\ InFlight("write") \in Nat
      /\ Hit("connect") \in {0, 1} /\ Hit("read") \in {0, 1} /\ Hit("write") \in {0, 1}
      /\ Hit("connect") + Hit("read") + Hit("write") = 1
  BY <1>1, InFlightType DEF Hit, Kind
<1>3. LinkInv' /\ InFlight("connect")' + InFlight("read")' + InFlight("write")' <= Flights
  <2>1. CASE retries
    <3>1. /\ Continue(do_connect, Tail(queue) \o Aborted)
          /\ do_connect \in [Kind -> Nat]
          /\ do_connect["connect"] = 1 /\ do_connect["read"] = 0 /\ do_connect["write"] = 0
      BY <2>1 DEF Disconnected, reconnect, do_connect, Idle, Kind
    <3>2. /\ Aborted \in Seq(Item) /\ \A k \in Kind : Count(Aborted, k) = inProgress[k]
          /\ \A i \in DOMAIN Aborted : Aborted[i].do # "enqueue"
      BY <1>1, AbortedFact
    <3>3. \A k \in Kind : InFlight(k)' = InFlight(k) - Hit(k) + do_connect[k]
      BY <1>1, <3>1, <3>2, GoOnAborting
    <3>4. /\ InFlight("connect")' = InFlight("connect") - Hit("connect") + 1
          /\ InFlight("read")' = InFlight("read") - Hit("read") + 0
          /\ InFlight("write")' = InFlight("write") - Hit("write") + 0
      BY <3>1, <3>3 DEF Kind
    <3>5. InFlight("write")' <= InFlight("write")
      BY <1>2, <3>4
    <3>6. LinkInv'
      BY <1>1, <3>1, <3>2, <3>5, OthersKeep
    <3>7. InFlight("connect")' + InFlight("read")' + InFlight("write")' <= Flights
      BY <1>2, <3>4 DEF Flights
    <3> QED BY <3>6, <3>7
  <2>2. CASE ~retries
    <3>1. Continue(inProgress, Tail(queue))
      BY <2>2 DEF Disconnected
    <3>2. \A k \in Kind : InFlight(k)' = InFlight(k) - Hit(k)
      BY <1>1, <3>1, GoOn
    <3>3. /\ InFlight("connect")' = InFlight("connect") - Hit("connect")
          /\ InFlight("read")' = InFlight("read") - Hit("read")
          /\ InFlight("write")' = InFlight("write") - Hit("write")
      BY <3>2 DEF Kind
    <3>4. InFlight("write")' <= InFlight("write")
      BY <1>2, <3>3
    <3>5. /\ <<>> \in Seq(Item) /\ Tail(queue) \o <<>> = Tail(queue) /\ inProgress \in [Kind -> Nat]
          /\ \A i \in DOMAIN <<>> : <<>>[i].do # "enqueue"
      BY <1>1 DEF LinkTypes
    <3>6. LinkInv'
      BY <1>1, <3>1, <3>4, <3>5, OthersKeep
    <3>7. InFlight("connect")' + InFlight("read")' + InFlight("write")' <= Flights
      BY <1>2, <3>3 DEF Flights
    <3> QED BY <3>6, <3>7
  <2> QED BY <2>1, <2>2
<1>4. /\ InFlight("connect")' \in Nat /\ InFlight("read")' \in Nat /\ InFlight("write")' \in Nat
  BY <1>3, InFlightTypeNext DEF LinkInv, Kind
<1>5. Flights' <= Flights /\ Flights \in Nat /\ Flights' \in Nat
  BY <1>2, <1>3, <1>4 DEF Flights
<1>6. FlightsBounded'
  BY <1>1, <1>5 DEF Inv, FlightsBounded
<1>7. ConnectedIsRead'
  BY <1>1 DEF ConnectedIsRead, is_connected, IsConnected
<1> QED BY <1>3, <1>6, <1>7 DEF Inv

\* A handler that is followed by a read: of a connection that was made or of
\* a read that succeeded.
LEMMA ReadingKeepsInv ==
  ASSUME Inv, queue # <<>>, Head(queue).do \in {"connect", "read"},
         Continue(do_read, Tail(queue)), UNCHANGED <<sending_messages_, sent, accepted>>
  PROVE  Inv'
<1>1. LinkInv /\ LinkTypes /\ "read" \in Kind /\ Continue(Start("read"), Tail(queue))
  BY DEF Inv, LinkInv, do_read, Kind
<1>2. \A k \in Kind : InFlight(k)' = InFlight(k) - Hit(k) + IF k = "read" THEN 1 ELSE 0
  BY <1>1, GoOnWith
<1>3. /\ InFlight("connect")' = InFlight("connect") - Hit("connect")
      /\ InFlight("read")' = InFlight("read") - Hit("read") + 1
      /\ InFlight("write")' = InFlight("write")
      /\ InFlight("connect") \in Nat /\ InFlight("read") \in Nat /\ InFlight("write") \in Nat
      /\ Hit("connect") \in {0, 1} /\ Hit("read") \in {0, 1}
      /\ Hit("connect") + Hit("read") = 1
  <2>1. /\ Hit("connect") \in {0, 1} /\ Hit("read") \in {0, 1} /\ Hit("write") = 0
        /\ Hit("connect") + Hit("read") = 1
    BY DEF Hit
  <2>2. InFlight("connect") \in Nat /\ InFlight("read") \in Nat /\ InFlight("write") \in Nat
    BY <1>1, InFlightType DEF Kind
  <2> QED BY <1>2, <2>1, <2>2 DEF Kind
<1>4. LinkInv'
  <2>1. /\ <<>> \in Seq(Item) /\ Tail(queue) \o <<>> = Tail(queue) /\ Start("read") \in [Kind -> Nat]
        /\ \A i \in DOMAIN <<>> : <<>>[i].do # "enqueue"
    BY <1>1 DEF LinkTypes, Start
  <2>2. Continue(Start("read"), Tail(queue) \o <<>>) /\ Head(queue).do # "enqueue"
    BY <1>1, <2>1
  <2>3. InFlight("write")' <= InFlight("write")
    BY <1>3
  <2> QED BY <1>1, <2>1, <2>2, <2>3, OthersKeep
<1>5. InFlight("connect")' \in Nat /\ InFlight("read")' \in Nat
  BY <1>4, InFlightTypeNext DEF LinkInv, Kind
<1>6. InFlight("read")' >= 1
  <2>1. InFlight("read") >= Hit("read")
    BY <1>1, <1>3, HitInFlight
  <2> QED BY <1>3, <2>1
<1>7. runner' # "finished"
  BY <1>1, <1>6, FinishedIsIdle
<1>8. ConnectedIsRead'
  BY <1>6, <1>7 DEF ConnectedIsRead
<1>9. Flights' = Flights
  BY <1>3 DEF Flights
<1>10. FlightsBounded'
  BY <1>9 DEF Inv, FlightsBounded
<1> QED BY <1>4, <1>8, <1>10 DEF Inv

\* The handler of a write that succeeded.
LEMMA WriteNextKeepsInv ==
  ASSUME Inv, queue # <<>>, Head(queue).do = "write", WriteNext(Tail(queue)),
         accepted' = accepted
  PROVE  Inv'
<1>1. /\ LinkInv'
      /\ InFlight("connect")' = InFlight("connect") /\ InFlight("read")' = InFlight("read")
      /\ sending_messages_ # <<>> /\ InFlight("write") = 1
      /\ InFlight("write")' = IF sending_messages_' = <<>> THEN 0 ELSE 1
  BY WriteNextKeeps DEF Inv
<1>2. InFlight("connect") \in Nat /\ InFlight("read") \in Nat
  BY InFlightType DEF Inv, LinkInv, Kind
<1>3. FlightsBounded'
  BY <1>1, <1>2 DEF Inv, FlightsBounded, Flights
<1>4. ConnectedIsRead'
  <2>1. PICK started : Continue(started, Tail(queue)) /\ connection_state_' = connection_state_
    BY DEF WriteNext
  <2>2. runner' = "finished" => InFlight("read")' = 0
    BY <2>1, FinishedIsIdle DEF Kind
  <2> QED BY <1>1, <1>2, <2>1, <2>2 DEF Inv, ConnectedIsRead, is_connected, IsConnected
<1> QED BY <1>1, <1>3, <1>4 DEF Inv

\* The function write posts.
LEMMA EnqueueKeepsInv ==
  ASSUME Inv, queue # <<>>, Head(queue).do = "enqueue",
         Enqueue(Head(queue).chunk, Tail(queue)), accepted' = accepted
  PROVE  Inv'
<1>1. /\ LinkInv'
      /\ InFlight("connect")' = InFlight("connect") /\ InFlight("read")' = InFlight("read")
      /\ sending_messages_' # <<>>
      /\ InFlight("write")' = InFlight("write") + IF sending_messages_ = <<>> THEN 1 ELSE 0
  BY EnqueueKeeps DEF Inv
<1>2. InFlight("connect") \in Nat /\ InFlight("read") \in Nat /\ InFlight("write") \in Nat
  BY InFlightType DEF Inv, LinkInv, Kind
<1>3. FlightsBounded'
  BY <1>1, <1>2 DEF Inv, FlightsBounded, Flights
<1>4. ConnectedIsRead'
  <2>1. PICK started : Continue(started, Tail(queue)) /\ connection_state_' = connection_state_
    BY DEF Enqueue
  <2>2. runner' = "finished" => InFlight("read")' = 0
    BY <2>1, FinishedIsIdle DEF Kind
  <2> QED BY <1>1, <1>2, <2>1, <2>2 DEF Inv, ConnectedIsRead, is_connected, IsConnected
<1> QED BY <1>1, <1>3, <1>4 DEF Inv

\* The function close posts.
LEMMA ShutdownKeepsInv ==
  ASSUME Inv, queue # <<>>, Head(queue).do = "shutdown", shutdown(Tail(queue)),
         UNCHANGED userVars
  PROVE  Inv'
<1>1. LinkInv /\ LinkTypes
  BY DEF Inv, LinkInv
<1>2. CASE Continue(inProgress, Tail(queue)) /\ UNCHANGED linkVars
  <2>1. \A k \in Kind : InFlight(k)' = InFlight(k)
    <3> SUFFICES ASSUME NEW k \in Kind PROVE InFlight(k)' = InFlight(k)
      OBVIOUS
    <3>1. InFlight(k)' = InFlight(k) - Hit(k) /\ InFlight(k) \in Nat /\ Hit(k) = 0
      BY <1>1, <1>2, GoOn, InFlightType DEF Hit, Kind
    <3> QED BY <3>1
  <2>2. /\ InFlight("connect")' = InFlight("connect") /\ InFlight("read")' = InFlight("read")
        /\ InFlight("write")' = InFlight("write")
        /\ InFlight("write") \in Nat /\ InFlight("read") \in Nat
    BY <1>1, <2>1, InFlightType DEF Kind
  <2>3. /\ <<>> \in Seq(Item) /\ Tail(queue) \o <<>> = Tail(queue) /\ inProgress \in [Kind -> Nat]
        /\ \A i \in DOMAIN <<>> : <<>>[i].do # "enqueue"
    BY <1>1 DEF LinkTypes
  <2>4. Continue(inProgress, Tail(queue) \o <<>>) /\ Head(queue).do # "enqueue"
    BY <1>2, <2>3
  <2>5. InFlight("write")' <= InFlight("write")
    BY <2>2
  <2>6. LinkInv'
    BY <1>1, <1>2, <2>3, <2>4, <2>5, OthersKeep DEF linkVars, userVars
  <2>7. runner' = "finished" => InFlight("read")' = 0
    BY <1>2, FinishedIsIdle DEF Kind
  <2>8. ConnectedIsRead'
    BY <1>2, <2>2, <2>7 DEF Inv, ConnectedIsRead, is_connected, IsConnected, linkVars
  <2>9. FlightsBounded'
    BY <1>2, <2>2 DEF Inv, FlightsBounded, Flights, linkVars
  <2> QED BY <2>6, <2>8, <2>9 DEF Inv
<1>3. CASE Terminate
  <2>1. LinkInv' /\ SameFlight
    BY <1>1, <1>3, StillKeeps DEF Terminate, linkVars, userVars
  <2>2. ConnectedIsRead' /\ FlightsBounded'
    BY <1>3, <2>1 DEF Inv, SameFlight, Kind, ConnectedIsRead, is_connected, IsConnected,
                      FlightsBounded, Flights, Terminate, linkVars
  <2> QED BY <2>1, <2>2 DEF Inv
<1> QED BY <1>2, <1>3 DEF shutdown

\* Whatever the runner runs.
LEMMA RunKeepsInv ==
  ASSUME Inv, Run
  PROVE  Inv'
<1> DEFINE next == Head(queue)
           rest == Tail(queue)
<1>1. queue # <<>> /\ accepted' = accepted /\ UNCHANGED userVars
  BY DEF Run, userVars
<1>2. CASE next.do \in Kind /\ Disconnected(rest)
  BY <1>1, <1>2, DisconnectedKeepsInv
<1>3. CASE next.do = "connect" /\ handle_connect(next.ok, rest)
  BY <1>1, <1>2, <1>3, ReadingKeepsInv DEF handle_connect, Kind
<1>4. CASE next.do = "read" /\ handle_read(next.ok, rest)
  BY <1>1, <1>2, <1>4, ReadingKeepsInv DEF handle_read, ReadOn, linkVars, Kind
<1>5. CASE next.do = "write" /\ handle_write(next.ok, rest)
  BY <1>1, <1>2, <1>5, WriteNextKeepsInv DEF handle_write, Kind
<1>6. CASE next.do = "enqueue" /\ Enqueue(next.chunk, rest)
  BY <1>1, <1>6, EnqueueKeepsInv
<1>7. CASE next.do = "shutdown" /\ shutdown(rest)
  BY <1>1, <1>7, ShutdownKeepsInv
<1> QED BY <1>3, <1>4, <1>5, <1>6, <1>7 DEF Run

\* Every step of the runner, the user and the network.
LEMMA NextKeepsInv == Inv /\ [Next]_vars => Inv'
<1> SUFFICES ASSUME Inv, [Next]_vars PROVE Inv'
  OBVIOUS
<1> USE DEF linkVars, asioVars, userVars
<1>1. LinkInv
  BY DEF Inv
<1>2. CASE UNCHANGED vars
  BY <1>1, <1>2, StillKeeps, SameKeepsInv DEF vars
<1>3. CASE write_test
  BY <1>1, <1>3, StillKeeps, SameKeepsInv DEF write_test, Test
<1>4. CASE write
  BY <1>1, <1>4, PostWriteKeeps, SameKeepsInv DEF write, PostWrite
<1>5. CASE close_test
  BY <1>1, <1>5, StillKeeps, SameKeepsInv DEF close_test, BeginClose
<1>6. CASE close
  BY <1>1, <1>6, StillKeeps, SameKeepsInv DEF close
<1>7. CASE close_post
  BY <1>1, <1>7, PostCloseKeeps, SameKeepsInv DEF close_post, PostClose
<1>8. CASE stop_disconnected
  BY <1>1, <1>8, StillKeeps, SameKeepsInv DEF stop_disconnected
<1>9. CASE stop
  BY <1>1, <1>9, StillKeeps, SameKeepsInv DEF stop, StopAndJoin
<1>10. CASE Run
  BY <1>10, RunKeepsInv
<1>11. ASSUME NEW name \in 0 .. 1, NEW kind \in Kind, Succeed(name, kind) \/ Fail(name, kind)
       PROVE  Inv'
  <2>1. PICK ok \in BOOLEAN : Complete(kind, ok)
    BY <1>11 DEF Succeed, Fail
  <2> QED BY <1>1, <2>1, CompleteKeeps, SameKeepsInv DEF Complete
<1>12. CASE Lose
  BY <1>1, <1>12, StillKeeps, SameKeepsInv DEF Lose
<1> QED BY <1>2, <1>3, <1>4, <1>5, <1>6, <1>7, <1>8, <1>9, <1>10, <1>11, <1>12 DEF Next
-----------------------------------------------------------------------------
\* All that follows rests on the inductive invariant.
THEOREM Invariance == Spec => []Inv
<1>1. Init => Inv
  BY InitInv
<1>2. Inv /\ [Next]_vars => Inv'
  BY NextKeepsInv
<1> QED BY <1>1, <1>2, PTL DEF Spec

\* async_write is never called while another one is under way, and the chunk
\* it writes stays in sending_messages_ until its handler has run.
THEOREM OneWrite == Spec => []OneWriteAtATime
<1>1. Inv => OneWriteAtATime
  BY DEF Inv, LinkInv
<1> QED BY <1>1, Invariance, PTL

\* No accepted chunk is dropped, duplicated or overtaken.
THEOREM ChunksStayInOrder == Spec => []ChunksInOrder
<1>1. Inv => ChunksInOrder
  BY DEF Inv, LinkInv
<1> QED BY <1>1, Invariance, PTL

\* A client that says it is connected reads, and its runner has not returned.
THEOREM ConnectedReads == Spec => []ConnectedIsRead
<1>1. Inv => ConnectedIsRead
  BY DEF Inv
<1> QED BY <1>1, Invariance, PTL

\* Reconnecting never lets operations or handlers pile up.
THEOREM ReconnectsBounded == Spec => []ReconnectsDoNotMultiply
<1>1. Inv => ReconnectsDoNotMultiply
  <2> SUFFICES ASSUME Inv PROVE ReconnectsDoNotMultiply
    OBVIOUS
  <2>1. InFlight("connect") \in Nat /\ InFlight("read") \in Nat /\ InFlight("write") \in Nat
    BY InFlightType DEF Inv, LinkInv, Kind
  <2> QED BY <2>1 DEF Inv, FlightsBounded, Flights, ReconnectsDoNotMultiply
<1> QED BY <1>1, Invariance, PTL
=============================================================================
