---------------------------- MODULE SerialProofs ----------------------------
(***************************************************************************)
(* Proofs about net::serial::Serial, for any number of writes, faults and   *)
(* calls of close.                                                          *)
(*                                                                          *)
(* The argument is the client's, with the difference that openings are      *)
(* queued and not in progress: what takes turns in one flight is a read,    *)
(* and the opening that reopen posts after a read or an opening has failed. *)
(***************************************************************************)
EXTENDS Serial, AsioLinkProofs

\* Reads, writes and openings that are under way.
Flights == InFlight("read") + InFlight("write") + Queued("open")

FlightsBounded == Flights <= IF sending_messages_ = <<>> THEN 1 ELSE 2

Inv == LinkInv /\ OpenedIsRead /\ FlightsBounded

\* A port that was just constructed.
LEMMA InitInv == Init => Inv
<1> SUFFICES ASSUME Init PROVE Inv
  OBVIOUS
<1>1. /\ sending_messages_ = <<>> /\ sent = <<>> /\ accepted = 0 /\ queue = <<Open>>
      /\ connection_state_ = "disconnected"
      /\ inProgress \in [Kind -> Nat]
      /\ inProgress["read"] = 0 /\ inProgress["write"] = 0
      /\ Open.do = "open" /\ Open \in Item
  BY DEF Init, LinkInit, Idle, Kind, Open, Post, Item
<1>2. Queued("open") = 1 /\ Queued("read") = 0 /\ Queued("write") = 0
  <2>1. ASSUME NEW what PROVE Queued(what) = IF Open.do = what THEN 1 ELSE 0
    BY <1>1, CountOne, QueuedIsCount
  <2> QED BY <1>1, <2>1
<1>3. InFlight("read") = 0 /\ InFlight("write") = 0
  BY <1>1, <1>2 DEF InFlight
<1>4. LinkTypes
  BY <1>1 DEF LinkTypes
<1>5. OneWriteAtATime
  BY <1>3 DEF OneWriteAtATime
<1>6. ChunksInOrder
  <2>1. DOMAIN queue = {1} /\ queue[1].do # "enqueue"
    BY <1>1
  <2>2. PostedIn(queue) = {}
    BY <2>1 DEF PostedIn
  <2>3. Taken = <<>>
    BY <1>1 DEF Taken
  <2> QED BY <1>1, <2>2, <2>3, ChunksParts
<1>7. OpenedIsRead /\ FlightsBounded
  BY <1>1, <1>2, <1>3 DEF OpenedIsRead, is_opened, IsConnected, FlightsBounded, Flights
<1> QED BY <1>4, <1>5, <1>6, <1>7 DEF Inv, LinkInv

\* A step that leaves in flight what was.
LEMMA SameKeepsInv ==
  ASSUME Inv, LinkInv', SameFlight, sending_messages_' = sending_messages_,
         connection_state_' \in {connection_state_, "disconnected"},
         runner' \in {runner, "stopped", "terminated"}
  PROVE  Inv'
<1>1. /\ InFlight("read")' = InFlight("read") /\ InFlight("write")' = InFlight("write")
      /\ Queued("open")' = Queued("open")
  BY DEF SameFlight, Kind
<1>2. OpenedIsRead'
  BY <1>1 DEF Inv, OpenedIsRead, is_opened, IsConnected
<1>3. FlightsBounded'
  BY <1>1 DEF Inv, FlightsBounded, Flights
<1> QED BY <1>2, <1>3 DEF Inv

\* The numbers of reads, writes and openings after a handler has run that
\* aborted what was in progress and posted n openings.
LEMMA AbortingCounts ==
  ASSUME LinkInv, queue # <<>>, Head(queue).do # "enqueue", NEW extra \in Seq(Item),
         \A i \in DOMAIN extra : extra[i].do # "enqueue",
         \A k \in Kind : Count(extra, k) = inProgress[k],
         Continue(Idle, Tail(queue) \o extra),
         UNCHANGED <<sending_messages_, sent, accepted>>
  PROVE  /\ LinkInv'
         /\ InFlight("read")' = InFlight("read") - Hit("read")
         /\ InFlight("write")' = InFlight("write") - Hit("write")
         /\ Queued("open")' = Queued("open") - Hit("open") + Count(extra, "open")
<1>1. LinkTypes /\ Idle \in [Kind -> Nat] /\ \A k \in Kind : Idle[k] = 0
  BY DEF LinkInv, Idle
<1>2. ASSUME NEW k \in Kind PROVE InFlight(k)' = InFlight(k) - Hit(k)
  <2>1. InFlight(k)' = InFlight(k) - Hit(k) + Idle[k]
    BY <1>1, GoOnAborting
  <2>2. InFlight(k) \in Nat /\ Hit(k) \in Nat
    BY <1>1, InFlightType DEF Hit
  <2> QED BY <1>1, <2>1, <2>2
<1>3. /\ InFlight("read")' = InFlight("read") - Hit("read")
      /\ InFlight("write")' = InFlight("write") - Hit("write")
  BY <1>2 DEF Kind
<1>4. InFlight("write") \in Nat /\ Hit("write") \in Nat
  BY <1>1, InFlightType DEF Hit, Kind
<1>5. InFlight("write")' <= InFlight("write")
  BY <1>3, <1>4
<1>6. LinkInv'
  BY <1>1, <1>5, OthersKeep
<1>7. Queued("open")' = Queued("open") - Hit("open") + Count(extra, "open")
  <2>1. queue' = Tail(queue) \o extra
    BY DEF Continue
  <2>2. /\ Queued("open")' \in Nat
        /\ Queued("open") = Queued("open")' - Count(extra, "open") + Hit("open")
    BY <1>1, <2>1, RunCounts DEF Hit
  <2>3. Count(extra, "open") \in Nat /\ Hit("open") \in Nat
    BY CountType DEF Hit
  <2> QED BY <2>2, <2>3
<1> QED BY <1>3, <1>6, <1>7

\* The same of a handler that aborts nothing.
LEMMA PlainCounts ==
  ASSUME LinkInv, queue # <<>>, Head(queue).do # "enqueue",
         Continue(inProgress, Tail(queue)),
         UNCHANGED <<sending_messages_, sent, accepted>>
  PROVE  /\ LinkInv'
         /\ InFlight("read")' = InFlight("read") - Hit("read")
         /\ InFlight("write")' = InFlight("write") - Hit("write")
         /\ Queued("open")' = Queued("open") - Hit("open")
<1>1. LinkTypes
  BY DEF LinkInv
<1>2. /\ InFlight("read")' = InFlight("read") - Hit("read")
      /\ InFlight("write")' = InFlight("write") - Hit("write")
  BY <1>1, GoOn DEF Kind
<1>3. InFlight("write") \in Nat /\ Hit("write") \in Nat
  BY <1>1, InFlightType DEF Hit, Kind
<1>4. InFlight("write")' <= InFlight("write")
  BY <1>2, <1>3
<1>5. /\ <<>> \in Seq(Item) /\ Tail(queue) \o <<>> = Tail(queue) /\ inProgress \in [Kind -> Nat]
      /\ \A i \in DOMAIN <<>> : <<>>[i].do # "enqueue"
  BY <1>1 DEF LinkTypes
<1>6. LinkInv'
  BY <1>4, <1>5, OthersKeep
<1>7. Queued("open")' = Queued("open") - Hit("open")
  <2>1. Queued("open")' = Count(Tail(queue), "open")
    BY DEF Queued, Count, Continue
  <2>2. /\ Count(Tail(queue), "open") \in Nat
        /\ Queued("open") = Count(Tail(queue), "open") + Hit("open")
    BY <1>1, FrontCounts
  <2>3. Hit("open") \in Nat
    BY DEF Hit
  <2> QED BY <2>1, <2>2, <2>3
<1> QED BY <1>2, <1>6, <1>7

\* A queue holds nothing of a kind.
NoneIn(s, what) == \A i \in DOMAIN s : s[i].do # what

\* What neither queue holds, their concatenation does not hold.
LEMMA NoneConcat ==
  ASSUME NEW s \in Seq(Item), NEW t \in Seq(Item), NEW what,
         NoneIn(s, what), NoneIn(t, what)
  PROVE  s \o t \in Seq(Item) /\ NoneIn(s \o t, what)
<1> USE DEF NoneIn
<1>1. ASSUME NEW i \in DOMAIN (s \o t) PROVE (s \o t)[i].do # what
  <2>1. CASE i <= Len(s)
    BY <2>1
  <2>2. CASE i > Len(s)
    BY <2>2
  <2> QED BY <2>1, <2>2
<1> QED BY <1>1

\* What reopen queues: among it the handlers aborted and one opening.
LEMMA ReopenQueues ==
  ASSUME LinkTypes, NEW rest \in Seq(Item)
  PROVE  \E extra \in Seq(Item) :
           /\ rest \o <<Close>> \o Aborted \o <<Open>> = rest \o extra
           /\ \A i \in DOMAIN extra : extra[i].do # "enqueue"
           /\ \A k \in Kind : Count(extra, k) = inProgress[k]
           /\ Count(extra, "open") = 1
<1> DEFINE a == <<Close>>
           b == Aborted
           c == <<Open>>
           extra == (a \o b) \o c
<1>1. /\ a \in Seq(Item) /\ c \in Seq(Item)
      /\ DOMAIN a = {1} /\ DOMAIN c = {1} /\ a[1].do = "close" /\ c[1].do = "open"
      /\ \A what : Count(a, what) = IF "close" = what THEN 1 ELSE 0
      /\ \A what : Count(c, what) = IF "open" = what THEN 1 ELSE 0
  <2>1. Open \in Item /\ Close \in Item /\ Open.do = "open" /\ Close.do = "close"
    BY DEF Open, Close, Post, Item
  <2>2. \A what : Count(a, what) = IF Close.do = what THEN 1 ELSE 0
    BY CountOne
  <2>3. \A what : Count(c, what) = IF Open.do = what THEN 1 ELSE 0
    BY CountOne
  <2>4. a \in Seq(Item) /\ DOMAIN a = {1} /\ a[1].do = "close"
    BY <2>1
  <2>5. c \in Seq(Item) /\ DOMAIN c = {1} /\ c[1].do = "open"
    BY <2>1
  <2> HIDE DEF a, c
  <2> QED BY <2>1, <2>2, <2>3, <2>4, <2>5
<1>2. /\ b \in Seq(Item) /\ \A kind \in Kind : Count(b, kind) = inProgress[kind]
      /\ Count(b, "open") = 0 /\ \A i \in DOMAIN b : b[i].do # "enqueue"
  BY AbortedFact DEF Kind
<1> HIDE DEF a, b, c
<1>3. a \o b \in Seq(Item) /\ extra \in Seq(Item)
  BY <1>1, <1>2
<1>4. rest \o a \o b \o c = rest \o extra
  <2> DEFINE d == a \o b
  <2>1. Assoc(rest, a, b)
    BY <1>1, <1>2, ConcatAssoc
  <2>2. d \in Seq(Item)
    BY <1>3
  <2>3. Assoc(rest, d, c)
    <3> HIDE DEF d
    <3> QED BY <1>1, <2>2, ConcatAssoc
  <2>4. (rest \o a) \o b = rest \o d
    BY <2>1, Zenon DEF Assoc
  <2>5. (rest \o d) \o c = rest \o (d \o c)
    BY <2>3, Zenon DEF Assoc
  <2> QED BY <2>4, <2>5, Zenon
<1>5. ASSUME NEW what PROVE Count(extra, what) = (Count(a, what) + Count(b, what)) + Count(c, what)
  <2>1. Count(a \o b, what) = Count(a, what) + Count(b, what)
    BY <1>1, <1>2, CountConcat
  <2> DEFINE d == a \o b
  <2>2. d \in Seq(Item)
    BY <1>3
  <2> HIDE DEF d
  <2>3. Count(d \o c, what) = Count(d, what) + Count(c, what)
    BY <1>1, <2>2, CountConcat
  <2> QED BY <2>1, <2>3 DEF d
<1>6. Count(extra, "open") = 1
  BY <1>1, <1>2, <1>5
<1>7. ASSUME NEW k \in Kind PROVE Count(extra, k) = inProgress[k]
  <2>1. k # "open" /\ k # "close" /\ inProgress[k] \in Nat
    BY DEF Kind, LinkTypes
  <2>2. Count(a, k) = 0 /\ Count(c, k) = 0 /\ Count(b, k) = inProgress[k]
    BY <1>1, <1>2, <2>1
  <2> QED BY <1>5, <2>1, <2>2
<1>8. \A i \in DOMAIN extra : extra[i].do # "enqueue"
  <2> DEFINE d == a \o b
  <2>1. NoneIn(a, "enqueue") /\ NoneIn(b, "enqueue") /\ NoneIn(c, "enqueue")
    BY <1>1, <1>2 DEF NoneIn
  <2>2. d \in Seq(Item) /\ NoneIn(d, "enqueue")
    BY <1>1, <1>2, <2>1, NoneConcat
  <2> HIDE DEF d
  <2>3. NoneIn(d \o c, "enqueue")
    BY <1>1, <2>1, <2>2, NoneConcat
  <2> QED BY <2>3 DEF d, NoneIn
<1> HIDE DEF extra
<1> QED BY <1>3, <1>4, <1>6, <1>7, <1>8 DEF a, b, c

\* A failed handler: the application reopens or leaves it.
LEMMA DisconnectedKeepsInv ==
  ASSUME Inv, queue # <<>>, Head(queue).do \in {"read", "write", "open"},
         NEW p, Disconnected(p, Tail(queue)), accepted' = accepted
  PROVE  Inv'
<1>1. /\ LinkInv /\ LinkTypes /\ Head(queue).do # "enqueue" /\ Tail(queue) \in Seq(Item)
      /\ UNCHANGED <<sending_messages_, sent, accepted>>
      /\ connection_state_' = "disconnected"
  BY DEF Inv, LinkInv, LinkTypes, Disconnected
<1>2. /\ InFlight("read") \in Nat /\ InFlight("write") \in Nat /\ Queued("open") \in Nat
      /\ Hit("open") \in {0, 1} /\ Hit("read") \in {0, 1} /\ Hit("write") \in {0, 1}
      /\ Hit("open") + Hit("read") + Hit("write") = 1
  BY <1>1, InFlightType DEF Hit, Kind
<1>3. CASE retries
  <2>1. PICK extra \in Seq(Item) :
          /\ Tail(queue) \o <<Close>> \o Aborted \o <<Open>> = Tail(queue) \o extra
          /\ \A i \in DOMAIN extra : extra[i].do # "enqueue"
          /\ \A k \in Kind : Count(extra, k) = inProgress[k]
          /\ Count(extra, "open") = 1
    BY <1>1, ReopenQueues
  <2>2. Continue(Idle, Tail(queue) \o extra)
    BY <1>3, <2>1 DEF Disconnected, reopen
  <2>3. /\ LinkInv'
        /\ InFlight("read")' = InFlight("read") - Hit("read")
        /\ InFlight("write")' = InFlight("write") - Hit("write")
        /\ Queued("open")' = Queued("open") - Hit("open") + 1
    BY <1>1, <2>1, <2>2, AbortingCounts
  <2>4. Flights' = Flights
    BY <1>2, <2>3 DEF Flights
  <2>5. FlightsBounded' /\ OpenedIsRead'
    BY <1>1, <2>4 DEF Inv, FlightsBounded, OpenedIsRead, is_opened, IsConnected
  <2> QED BY <2>3, <2>5 DEF Inv
<1>4. CASE ~retries
  <2>1. Continue(inProgress, Tail(queue))
    BY <1>4 DEF Disconnected
  <2>2. /\ LinkInv'
        /\ InFlight("read")' = InFlight("read") - Hit("read")
        /\ InFlight("write")' = InFlight("write") - Hit("write")
        /\ Queued("open")' = Queued("open") - Hit("open")
    BY <1>1, <2>1, PlainCounts
  <2>3. Flights' = Flights - 1 /\ Flights \in Nat
    BY <1>2, <2>2 DEF Flights
  <2>4. FlightsBounded' /\ OpenedIsRead'
    BY <1>1, <2>3 DEF Inv, FlightsBounded, OpenedIsRead, is_opened, IsConnected
  <2> QED BY <2>2, <2>4 DEF Inv
<1> QED BY <1>3, <1>4

\* A handler that is followed by a read: of an opening or of a read that
\* succeeded.
LEMMA ReadingKeepsInv ==
  ASSUME Inv, queue # <<>>, Head(queue).do \in {"open", "read"},
         Continue(do_read, Tail(queue)), UNCHANGED <<sending_messages_, sent, accepted>>
  PROVE  Inv'
<1>1. LinkInv /\ LinkTypes /\ "read" \in Kind /\ Continue(Start("read"), Tail(queue))
  BY DEF Inv, LinkInv, do_read, Kind
<1>2. \A k \in Kind : InFlight(k)' = InFlight(k) - Hit(k) + IF k = "read" THEN 1 ELSE 0
  BY <1>1, GoOnWith
<1>3. /\ Hit("open") \in {0, 1} /\ Hit("read") \in {0, 1} /\ Hit("write") = 0
      /\ Hit("open") + Hit("read") = 1
  BY DEF Hit
<1>4. InFlight("read") \in Nat /\ InFlight("write") \in Nat /\ Queued("open") \in Nat
  BY <1>1, InFlightType DEF Kind
<1>5. /\ InFlight("read")' = InFlight("read") - Hit("read") + 1
      /\ InFlight("write")' = InFlight("write")
  BY <1>2, <1>3, <1>4 DEF Kind
<1>6. Queued("open")' = Queued("open") - Hit("open")
  <2>1. Queued("open")' = Count(Tail(queue), "open")
    BY DEF Queued, Count, Continue
  <2>2. /\ Count(Tail(queue), "open") \in Nat
        /\ Queued("open") = Count(Tail(queue), "open") + Hit("open")
    BY <1>1, FrontCounts
  <2> QED BY <1>3, <2>1, <2>2
<1>7. LinkInv'
  <2>1. /\ <<>> \in Seq(Item) /\ Tail(queue) \o <<>> = Tail(queue) /\ Start("read") \in [Kind -> Nat]
        /\ \A i \in DOMAIN <<>> : <<>>[i].do # "enqueue"
    BY <1>1 DEF LinkTypes, Start
  <2>2. Continue(Start("read"), Tail(queue) \o <<>>) /\ Head(queue).do # "enqueue"
    BY <1>1, <2>1
  <2>3. InFlight("write")' <= InFlight("write")
    BY <1>4, <1>5
  <2> QED BY <1>1, <2>1, <2>2, <2>3, OthersKeep
<1>8. InFlight("read")' >= 1
  <2>1. InFlight("read") >= Hit("read")
    BY <1>1, HitInFlight
  <2> QED BY <1>3, <1>4, <1>5, <2>1
<1>9. runner' # "finished"
  BY <1>1, <1>8, FinishedIsIdle
<1>10. OpenedIsRead'
  BY <1>8, <1>9 DEF OpenedIsRead
<1>11. Flights' = Flights
  BY <1>3, <1>4, <1>5, <1>6 DEF Flights
<1>12. FlightsBounded'
  BY <1>11 DEF Inv, FlightsBounded
<1> QED BY <1>7, <1>10, <1>12 DEF Inv

\* The handler of a write that succeeded.
LEMMA WriteNextKeepsInv ==
  ASSUME Inv, queue # <<>>, Head(queue).do = "write", WriteNext(Tail(queue)),
         accepted' = accepted
  PROVE  Inv'
<1>1. /\ LinkInv'
      /\ InFlight("read")' = InFlight("read") /\ Queued("open")' = Queued("open")
      /\ sending_messages_ # <<>> /\ InFlight("write") = 1
      /\ InFlight("write")' = IF sending_messages_' = <<>> THEN 0 ELSE 1
  BY WriteNextKeeps DEF Inv
<1>2. Queued("open") \in Nat /\ InFlight("read") \in Nat
  BY InFlightType DEF Inv, LinkInv, Kind
<1>3. FlightsBounded'
  BY <1>1, <1>2 DEF Inv, FlightsBounded, Flights
<1>4. OpenedIsRead'
  <2>1. PICK started : Continue(started, Tail(queue)) /\ connection_state_' = connection_state_
    BY DEF WriteNext
  <2>2. runner' = "finished" => InFlight("read")' = 0
    BY <2>1, FinishedIsIdle DEF Kind
  <2> QED BY <1>1, <1>2, <2>1, <2>2 DEF Inv, OpenedIsRead, is_opened, IsConnected
<1> QED BY <1>1, <1>3, <1>4 DEF Inv

\* The function write posts.
LEMMA EnqueueKeepsInv ==
  ASSUME Inv, queue # <<>>, Head(queue).do = "enqueue",
         Enqueue(Head(queue).chunk, Tail(queue)), accepted' = accepted
  PROVE  Inv'
<1>1. /\ LinkInv'
      /\ InFlight("read")' = InFlight("read") /\ Queued("open")' = Queued("open")
      /\ sending_messages_' # <<>>
      /\ InFlight("write")' = InFlight("write") + IF sending_messages_ = <<>> THEN 1 ELSE 0
  BY EnqueueKeeps DEF Inv
<1>2. Queued("open") \in Nat /\ InFlight("read") \in Nat /\ InFlight("write") \in Nat
  BY InFlightType DEF Inv, LinkInv, Kind
<1>3. FlightsBounded'
  BY <1>1, <1>2 DEF Inv, FlightsBounded, Flights
<1>4. OpenedIsRead'
  <2>1. PICK started : Continue(started, Tail(queue)) /\ connection_state_' = connection_state_
    BY DEF Enqueue
  <2>2. runner' = "finished" => InFlight("read")' = 0
    BY <2>1, FinishedIsIdle DEF Kind
  <2> QED BY <1>1, <1>2, <2>1, <2>2 DEF Inv, OpenedIsRead, is_opened, IsConnected
<1> QED BY <1>1, <1>3, <1>4 DEF Inv

\* The function close posts: the handlers it aborts stay in flight.
LEMMA ClosePortKeepsInv ==
  ASSUME Inv, queue # <<>>, Head(queue).do = "close", close_port(Tail(queue)),
         accepted' = accepted
  PROVE  Inv'
<1>1. /\ LinkInv /\ LinkTypes /\ Head(queue).do # "enqueue"
      /\ Continue(Idle, Tail(queue) \o Aborted)
      /\ UNCHANGED <<sending_messages_, sent, accepted, connection_state_>>
  BY DEF Inv, LinkInv, close_port, linkVars
<1>2. /\ Aborted \in Seq(Item) /\ \A i \in DOMAIN Aborted : Aborted[i].do # "enqueue"
      /\ \A k \in Kind : Count(Aborted, k) = inProgress[k]
      /\ Count(Aborted, "open") = 0
  BY <1>1, AbortedFact DEF Kind
<1>3. /\ LinkInv'
      /\ InFlight("read")' = InFlight("read") - Hit("read")
      /\ InFlight("write")' = InFlight("write") - Hit("write")
      /\ Queued("open")' = Queued("open") - Hit("open") + 0
  BY <1>1, <1>2, AbortingCounts
<1>4. Hit("read") = 0 /\ Hit("write") = 0 /\ Hit("open") = 0
  BY DEF Hit
<1>5. InFlight("read") \in Nat /\ InFlight("write") \in Nat /\ Queued("open") \in Nat
  BY <1>1, InFlightType DEF Kind
<1>6. /\ InFlight("read")' = InFlight("read") /\ InFlight("write")' = InFlight("write")
      /\ Queued("open")' = Queued("open")
  BY <1>3, <1>4, <1>5
<1>7. FlightsBounded'
  BY <1>1, <1>6 DEF Inv, FlightsBounded, Flights
<1>8. runner' = "finished" => InFlight("read")' = 0
  BY <1>1, FinishedIsIdle DEF Kind
<1>9. OpenedIsRead'
  BY <1>1, <1>5, <1>6, <1>8 DEF Inv, OpenedIsRead, is_opened, IsConnected
<1> QED BY <1>3, <1>7, <1>9 DEF Inv

\* Whatever the runner runs.
LEMMA RunKeepsInv ==
  ASSUME Inv, Run
  PROVE  Inv'
<1> DEFINE next == Head(queue)
           rest == Tail(queue)
<1>1. queue # <<>> /\ accepted' = accepted /\ UNCHANGED userVars
  BY DEF Run, userVars
<1>2. ASSUME NEW p, next.do \in {"read", "write", "open"}, Disconnected(p, rest)
      PROVE  Inv'
  BY <1>1, <1>2, DisconnectedKeepsInv
<1>3. CASE next.do = "open" /\ handle_open(rest)
  <2>1. CASE Continue(do_read, rest) /\ UNCHANGED <<sending_messages_, sent>>
    BY <1>1, <1>3, <2>1, ReadingKeepsInv
  <2>2. CASE Terminate
    <3>1. LinkInv' /\ SameFlight
      BY <1>1, <2>2, StillKeeps DEF Inv, Terminate, linkVars, userVars
    <3> QED BY <2>2, <3>1, SameKeepsInv DEF Terminate, linkVars
  <2>3. \/ Continue(do_read, rest) /\ UNCHANGED <<sending_messages_, sent>>
        \/ Terminate
        \/ \E p : Disconnected(p, rest)
    BY <1>3 DEF handle_open, flush_fails
  <2> QED BY <1>2, <1>3, <2>1, <2>2, <2>3
<1>4. CASE next.do = "close" /\ close_port(rest)
  BY <1>1, <1>4, ClosePortKeepsInv
<1>5. CASE next.do = "read" /\ handle_read(next.ok, rest)
  BY <1>1, <1>2, <1>5, ReadingKeepsInv DEF handle_read, ReadOn, linkVars
<1>6. CASE next.do = "write" /\ handle_write(next.ok, rest)
  BY <1>1, <1>2, <1>6, WriteNextKeepsInv DEF handle_write
<1>7. CASE next.do = "enqueue" /\ Enqueue(next.chunk, rest)
  BY <1>1, <1>7, EnqueueKeepsInv
<1> QED BY <1>3, <1>4, <1>5, <1>6, <1>7 DEF Run

\* Every step of the runner, the user and the device.
LEMMA NextKeepsInv == Inv /\ [Next]_vars => Inv'
<1> SUFFICES ASSUME Inv, [Next]_vars PROVE Inv'
  OBVIOUS
<1> USE DEF linkVars, asioVars, userVars
<1>1. LinkInv
  BY DEF Inv
<1>2. CASE UNCHANGED vars
  BY <1>1, <1>2, StillKeeps, SameKeepsInv DEF vars
<1>3. CASE write_test
  BY <1>1, <1>3, StillKeeps, SameKeepsInv DEF write_test, Test
<1>4. CASE write
  BY <1>1, <1>4, PostWriteKeeps, SameKeepsInv DEF write, PostWrite
<1>5. CASE close_set
  BY <1>1, <1>5, StillKeeps, SameKeepsInv DEF close_set, BeginClose
<1>6. CASE close
  BY <1>1, <1>6, PostCloseKeeps, SameKeepsInv DEF close, PostClose
<1>7. CASE stop
  BY <1>1, <1>7, StillKeeps, SameKeepsInv DEF stop, StopAndJoin
<1>8. CASE Run
  BY <1>8, RunKeepsInv
<1>9. ASSUME NEW kind \in Kind, NEW ok \in BOOLEAN, Finish(kind, ok)
      PROVE  Inv'
  BY <1>1, <1>9, CompleteKeeps, SameKeepsInv DEF Finish, Complete
<1>10. CASE Lose
  BY <1>1, <1>10, StillKeeps, SameKeepsInv DEF Lose
<1> QED BY <1>2, <1>3, <1>4, <1>5, <1>6, <1>7, <1>8, <1>9, <1>10 DEF Next
-----------------------------------------------------------------------------
\* All that follows rests on the inductive invariant.
THEOREM Invariance == Spec => []Inv
<1>1. Init => Inv
  BY InitInv
<1>2. Inv /\ [Next]_vars => Inv'
  BY NextKeepsInv
<1> QED BY <1>1, <1>2, PTL DEF Spec

\* async_write is never called while another one is under way, and the chunk
\* it writes stays in sending_messages_ until its handler has run.
THEOREM OneWrite == Spec => []OneWriteAtATime
<1>1. Inv => OneWriteAtATime
  BY DEF Inv, LinkInv
<1> QED BY <1>1, Invariance, PTL

\* No accepted chunk is dropped, duplicated or overtaken, whatever closings
\* and openings are posted between them.
THEOREM ChunksStayInOrder == Spec => []ChunksInOrder
<1>1. Inv => ChunksInOrder
  BY DEF Inv, LinkInv
<1> QED BY <1>1, Invariance, PTL

\* A port that is said to be open is read, also when a posted close has shut
\* it behind the back of connection_state_, and its runner has not returned.
THEOREM OpenedReads == Spec => []OpenedIsRead
<1>1. Inv => OpenedIsRead
  BY DEF Inv
<1> QED BY <1>1, Invariance, PTL

\* Reopening never lets reads, writes and openings pile up.
THEOREM ReopensBounded == Spec => []ReopensDoNotMultiply
<1>1. Inv => ReopensDoNotMultiply
  <2> SUFFICES ASSUME Inv PROVE ReopensDoNotMultiply
    OBVIOUS
  <2>1. InFlight("read") \in Nat /\ InFlight("write") \in Nat /\ Queued("open") \in Nat
    BY InFlightType DEF Inv, LinkInv, Kind
  <2> QED BY <2>1 DEF Inv, FlightsBounded, Flights, ReopensDoNotMultiply
<1> QED BY <1>1, Invariance, PTL
=============================================================================
