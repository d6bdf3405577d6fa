--------------------------- MODULE TcpServerProofs ---------------------------
(***************************************************************************)
(* Proofs about net::tcp::Server and its sessions, for any set of addresses *)
(* and any number of connections, packets, faults and calls of close.       *)
(*                                                                          *)
(* What makes the properties inductive is how sessions and the handlers     *)
(* bound to them hang together: an operation is in flight at most once, a   *)
(* write is in flight exactly while chunks wait (in a session that is in    *)
(* the map), two sessions that are alive have different addresses, a        *)
(* session that is on its way into the map has nothing else in flight, and  *)
(* one that is being reported is out of the map.                            *)
(***************************************************************************)
EXTENDS TcpServer, Integers, TLAPS

Session ==
  [id : Address, socket_ : {"open", "lost", "shut"}, sending_messages_ : Seq(Nat),
   written : Seq(Nat), sent : Seq(Nat), left : BOOLEAN]

\* What a handler that has begun may have left to do.
Rests == {"emplace", "report"}

Whats == {"read", "write"} \cup Rests

Handler == [do : {"accept"} \cup Whats, of : Nat, ok : BOOLEAN, chunk : Nat]

OpOf(h) == Op(h.do, h.of)

\* The operations in progress and those whose handlers are queued or begun.
Flight == inProgress \cup {OpOf(queue[i]) : i \in DOMAIN queue}

Ops == {Accept} \cup {Op(what, s) : what \in Whats, s \in DOMAIN session}

TypeOK ==
  /\ session \in Seq(Session)
  /\ sessions_ \subseteq DOMAIN session
  /\ queue \in Seq(Handler)
  /\ packets \in Nat

\* No operation is in flight twice, and only the handler in front has begun.
Once ==
  /\ \A i, j \in DOMAIN queue : OpOf(queue[i]) = OpOf(queue[j]) => i = j
  /\ \A i \in DOMAIN queue : OpOf(queue[i]) \notin inProgress
  /\ \A i \in DOMAIN queue : queue[i].do \in Rests => i = 1
  /\ \A op \in inProgress : op.do \notin Rests

\* Two sessions that are alive have different addresses.
OwnAddress ==
  \A s, t \in DOMAIN session : Alive(s) /\ Alive(t) /\ session[s].id = session[t].id => s = t

\* A session on its way into the map is new, and no other is accepted.
Fresh(s) ==
  /\ s \notin sessions_ /\ ~session[s].left /\ session[s].sending_messages_ = <<>>
  /\ Op("read", s) \notin Flight /\ Op("write", s) \notin Flight /\ Op("report", s) \notin Flight
  /\ ~Leaving(s) /\ Accept \notin Flight

Entering == \A s \in DOMAIN session : Op("emplace", s) \in Flight => Fresh(s)

\* A session that is being reported is not in the map.
Reporting ==
  /\ \A s \in DOMAIN session : Op("report", s) \in Flight => s \notin sessions_
  /\ user.at = "report" => user.of \in DOMAIN session \ sessions_ /\ user.next.at # "report"

\* A write in flight has a chunk to write.
WritesHaveChunks ==
  \A s \in DOMAIN session : Op("write", s) \in Flight => session[s].sending_messages_ # <<>>

Inv ==
  /\ TypeOK /\ Once /\ Flight \subseteq Ops
  /\ MapMatchesReports /\ OwnAddress /\ Entering /\ Reporting /\ WritesHaveChunks /\ ChunksFlow
-----------------------------------------------------------------------------
\* Operations are told apart by what they do and of which session.
LEMMA OpsDiffer ==
  ASSUME NEW a, NEW b, NEW s, NEW t
  PROVE  Op(a, s) = Op(b, t) <=> a = b /\ s = t
<1>1. /\ Op(a, s).do = a /\ Op(a, s).of = s
      /\ Op(b, t).do = b /\ Op(b, t).of = t
  BY DEF Op
<1> QED BY <1>1

\* InFlight is membership in Flight.
LEMMA InFlightIsFlight ==
  ASSUME NEW op
  PROVE  (InFlight(op) <=> op \in Flight) /\ (InFlight(op)' <=> op \in Flight')
BY DEF InFlight, Flight, OpOf

\* A function on an initial segment of the natural numbers is a sequence.
LEMMA IsASeq ==
  ASSUME NEW S, NEW n \in Nat, NEW s \in [1 .. n -> S]
  PROVE  s \in Seq(S)
OBVIOUS

\* Concatenation is associative.
LEMMA ConcatAssoc ==
  ASSUME NEW S, NEW r \in Seq(S), NEW s \in Seq(S), NEW t \in Seq(S)
  PROVE  (r \o s) \o t = r \o (s \o t)
OBVIOUS

\* A sequence is what is at its front and the rest.
LEMMA HeadAndTail ==
  ASSUME NEW S, NEW s \in Seq(S), s # <<>>, NEW r \in Seq(S)
  PROVE  s = <<Head(s)>> \o Tail(s) /\ Append(r, Head(s)) = r \o <<Head(s)>>
<1>1. s = <<Head(s)>> \o Tail(s)
  OBVIOUS
<1>2. Append(r, Head(s)) = r \o <<Head(s)>>
  OBVIOUS
<1> QED BY <1>1, <1>2

\* An operation that completes stays in flight.
LEMMA CompleteFlight ==
  ASSUME TypeOK, Once, NEW op, op = OpOf(op), op.do \in {"accept", "read", "write"}, op.of \in Nat,
         NEW ok \in BOOLEAN, NEW chunk \in Nat, Complete(op, ok, chunk)
  PROVE  Once' /\ Flight' = Flight /\ queue' \in Seq(Handler)
<1> DEFINE h == [do |-> op.do, of |-> op.of, ok |-> ok, chunk |-> chunk]
           n == Len(queue)
<1>1. /\ h \in Handler /\ OpOf(h) = op /\ queue \in Seq(Handler) /\ h.do \notin Rests
      /\ queue' = Append(queue, h) /\ inProgress' = inProgress \ {op} /\ op \in inProgress
  BY DEF Complete, Handler, Whats, Rests, OpOf, Op, TypeOK
<1> HIDE DEF h
<1>2. /\ n \in Nat /\ DOMAIN queue = 1 .. n /\ DOMAIN queue' = 1 .. n + 1
      /\ \A i \in 1 .. n : queue'[i] = queue[i]
      /\ queue'[n + 1] = h /\ queue' \in Seq(Handler)
  BY <1>1
<1> HIDE DEF n
<1>3. \A i \in 1 .. n : OpOf(queue[i]) # op
  BY <1>1, <1>2 DEF Once
<1>4. Once'
  <2>1. ASSUME NEW i \in 1 .. n + 1, NEW j \in 1 .. n + 1, OpOf(queue'[i]) = OpOf(queue'[j])
        PROVE  i = j
    <3>1. CASE i \in 1 .. n /\ j \in 1 .. n
      BY <1>2, <2>1, <3>1 DEF Once
    <3>2. CASE i = n + 1 /\ j \in 1 .. n
      BY <1>1, <1>2, <1>3, <2>1, <3>2
    <3>3. CASE j = n + 1 /\ i \in 1 .. n
      BY <1>1, <1>2, <1>3, <2>1, <3>3
    <3> QED BY <1>2, <3>1, <3>2, <3>3
  <2>2. ASSUME NEW i \in 1 .. n + 1 PROVE OpOf(queue'[i]) \notin inProgress'
    <3>1. CASE i \in 1 .. n
      BY <1>1, <1>2, <3>1 DEF Once
    <3>2. CASE i = n + 1
      BY <1>1, <1>2, <3>2
    <3> QED BY <1>2, <3>1, <3>2
  <2>3. ASSUME NEW i \in 1 .. n + 1, queue'[i].do \in Rests PROVE i = 1
    <3>1. i \in 1 .. n
      BY <1>1, <1>2, <2>3
    <3> QED BY <1>2, <2>3, <3>1 DEF Once
  <2>4. \A x \in inProgress' : x.do \notin Rests
    BY <1>1 DEF Once
  <2> QED BY <1>2, <2>1, <2>2, <2>3, <2>4 DEF Once
<1>5. Flight' = Flight
  <2> DEFINE A == {OpOf(queue[i]) : i \in DOMAIN queue}
             B == {OpOf(queue'[i]) : i \in DOMAIN queue'}
  <2>1. B = A \cup {op}
    <3>1. ASSUME NEW i \in DOMAIN queue' PROVE OpOf(queue'[i]) \in A \cup {op}
      <4>1. CASE i \in 1 .. n
        BY <1>2, <4>1
      <4>2. CASE i = n + 1
        BY <1>1, <1>2, <4>2
      <4> QED BY <1>2, <4>1, <4>2
    <3>2. ASSUME NEW i \in DOMAIN queue PROVE OpOf(queue[i]) \in B
      <4>1. i \in DOMAIN queue' /\ queue'[i] = queue[i]
        BY <1>2
      <4> QED BY <4>1
    <3>3. op \in B
      <4>1. n + 1 \in DOMAIN queue' /\ OpOf(queue'[n + 1]) = op
        BY <1>1, <1>2
      <4> QED BY <4>1
    <3> QED BY <3>1, <3>2, <3>3
  <2>2. Flight = inProgress \cup A /\ Flight' = inProgress' \cup B
    BY DEF Flight
  <2> HIDE DEF A, B
  <2> QED BY <1>1, <2>1, <2>2
<1> QED BY <1>2, <1>4, <1>5

\* A handler that runs is no longer in flight; what it starts is.
LEMMA RunFlight ==
  ASSUME TypeOK, Once, queue # <<>>, NEW started, Continue(started, Tail(queue)),
         started \cap (Flight \ {OpOf(Head(queue))}) = {}, \A x \in started : x.do \notin Rests
  PROVE  /\ OpOf(Head(queue)) \in Flight /\ queue' \in Seq(Handler)
         /\ Once' /\ Flight' = (Flight \ {OpOf(Head(queue))}) \cup started
<1> DEFINE n == Len(queue)
           op == OpOf(Head(queue))
           A == {OpOf(queue[i]) : i \in DOMAIN queue}
           B == {OpOf(queue'[i]) : i \in DOMAIN queue'}
<1>1. /\ n \in Nat \ {0} /\ DOMAIN queue = 1 .. n /\ DOMAIN queue' = 1 .. n - 1
      /\ \A i \in 1 .. n - 1 : queue'[i] = queue[i + 1]
      /\ queue[1] = Head(queue) /\ queue' \in Seq(Handler)
      /\ inProgress' = inProgress \cup started
  BY DEF Continue, TypeOK
<1> HIDE DEF n
<1>2. \A i \in 1 .. n : (OpOf(queue[i]) = op) => i = 1
  BY <1>1 DEF Once
<1>3. op \in A /\ op \notin inProgress
  BY <1>1 DEF Once
<1>4. B = A \ {op}
  <2>1. ASSUME NEW i \in DOMAIN queue' PROVE OpOf(queue'[i]) \in A \ {op}
    <3>1. i + 1 \in 1 .. n /\ i + 1 # 1 /\ queue'[i] = queue[i + 1]
      BY <1>1
    <3> QED BY <1>1, <1>2, <3>1
  <2>2. ASSUME NEW i \in DOMAIN queue, OpOf(queue[i]) # op PROVE OpOf(queue[i]) \in B
    <3>1. i # 1
      BY <1>1, <2>2
    <3>2. i - 1 \in 1 .. n - 1 /\ (i - 1) + 1 = i
      BY <1>1, <3>1
    <3>3. i - 1 \in DOMAIN queue' /\ queue'[i - 1] = queue[i]
      BY <1>1, <3>2
    <3> QED BY <3>3
  <2> QED BY <2>1, <2>2
<1>5. Flight = inProgress \cup A /\ Flight' = inProgress' \cup B
  BY DEF Flight
<1>6. Once'
  <2>1. ASSUME NEW i \in DOMAIN queue', NEW j \in DOMAIN queue', OpOf(queue'[i]) = OpOf(queue'[j])
        PROVE  i = j
    <3>1. /\ i \in 1 .. n - 1 /\ j \in 1 .. n - 1 /\ i + 1 \in 1 .. n /\ j + 1 \in 1 .. n
          /\ queue'[i] = queue[i + 1] /\ queue'[j] = queue[j + 1]
      BY <1>1
    <3>2. i + 1 = j + 1
      BY <1>1, <2>1, <3>1 DEF Once
    <3> QED BY <1>1, <3>1, <3>2
  <2>2. ASSUME NEW i \in DOMAIN queue' PROVE OpOf(queue'[i]) \notin inProgress'
    <3>1. i + 1 \in 1 .. n /\ queue'[i] = queue[i + 1]
      BY <1>1
    <3>2. OpOf(queue'[i]) \notin inProgress
      BY <1>1, <3>1 DEF Once
    <3>3. OpOf(queue'[i]) \in A \ {op}
      BY <1>4
    <3>4. OpOf(queue'[i]) \notin started
      BY <1>5, <3>3
    <3> QED BY <1>1, <3>2, <3>4
  <2>3. ASSUME NEW i \in DOMAIN queue', queue'[i].do \in Rests PROVE FALSE
    <3>1. i \in Nat /\ i # 0 /\ i + 1 \in 1 .. n /\ queue'[i] = queue[i + 1]
      BY <1>1
    <3>2. i + 1 = 1
      BY <1>1, <2>3, <3>1 DEF Once
    <3> QED BY <3>1, <3>2
  <2>4. \A x \in inProgress' : x.do \notin Rests
    BY <1>1 DEF Once
  <2> QED BY <2>1, <2>2, <2>3, <2>4 DEF Once
<1>7. op \in Flight /\ Flight' = (Flight \ {op}) \cup started
  <2> HIDE DEF A, B, op
  <2> QED BY <1>1, <1>3, <1>4, <1>5
<1> QED BY <1>1, <1>6, <1>7

\* A handler that has begun is in flight with what it has left to do.
LEMMA BeginFlight ==
  ASSUME TypeOK, Once, queue # <<>>, Head(queue).do \notin Rests, Flight \subseteq Ops,
         NEW what \in Rests, NEW s \in Nat,
         Continue({}, <<Then(what, s)>> \o Tail(queue))
  PROVE  /\ OpOf(Head(queue)) \in Flight /\ queue' \in Seq(Handler)
         /\ Once' /\ Flight' = (Flight \ {OpOf(Head(queue))}) \cup {Op(what, s)}
<1> DEFINE n == Len(queue)
           op == OpOf(Head(queue))
           h == Then(what, s)
           A == {OpOf(queue[i]) : i \in DOMAIN queue}
           B == {OpOf(queue'[i]) : i \in DOMAIN queue'}
<1>1. h \in Handler /\ OpOf(h) = Op(what, s) /\ h.do = what /\ Op(what, s).do = what
  BY DEF Then, Handler, Whats, OpOf, Op
<1> HIDE DEF h
<1>2. /\ n \in Nat \ {0} /\ DOMAIN queue = 1 .. n /\ DOMAIN queue' = 1 .. n
      /\ \A i \in 2 .. n : queue'[i] = queue[i]
      /\ queue[1] = Head(queue) /\ queue'[1] = h /\ queue' \in Seq(Handler)
      /\ inProgress' = inProgress
  <2>1. queue \in Seq(Handler) /\ queue' = <<h>> \o Tail(queue) /\ inProgress' = inProgress
    BY DEF Continue, TypeOK, h
  <2> QED BY <1>1, <2>1
<1> HIDE DEF n
<1>3. \A i \in 1 .. n : i = 1 \/ i \in 2 .. n
  BY <1>2
<1>4. \A i \in 2 .. n : OpOf(queue[i]) # op /\ queue[i].do \notin Rests
  BY <1>2 DEF Once
<1>5. op \in A /\ op \notin inProgress
  BY <1>2 DEF Once
<1>6. \A i \in 2 .. n : OpOf(queue[i]) # Op(what, s)
  BY <1>1, <1>4 DEF OpOf, Op
<1>7. Op(what, s) \notin inProgress
  BY <1>1 DEF Once
<1>8. B = (A \ {op}) \cup {Op(what, s)}
  <2>1. ASSUME NEW i \in DOMAIN queue' PROVE OpOf(queue'[i]) \in (A \ {op}) \cup {Op(what, s)}
    <3>1. CASE i = 1
      BY <1>1, <1>2, <3>1
    <3>2. CASE i \in 2 .. n
      BY <1>2, <1>4, <3>2
    <3> QED BY <1>2, <1>3, <3>1, <3>2
  <2>2. ASSUME NEW i \in DOMAIN queue, OpOf(queue[i]) # op PROVE OpOf(queue[i]) \in B
    <3>1. i \in 2 .. n
      BY <1>2, <1>3, <2>2
    <3>2. i \in DOMAIN queue' /\ queue'[i] = queue[i]
      BY <1>2, <3>1
    <3> QED BY <3>2
  <2>3. Op(what, s) \in B
    <3>1. 1 \in DOMAIN queue' /\ OpOf(queue'[1]) = Op(what, s)
      BY <1>1, <1>2
    <3> QED BY <3>1
  <2> QED BY <2>1, <2>2, <2>3
<1>9. Once'
  <2>1. ASSUME NEW i \in 1 .. n, NEW j \in 1 .. n, OpOf(queue'[i]) = OpOf(queue'[j]) PROVE i = j
    <3>1. CASE i \in 2 .. n /\ j \in 2 .. n
      BY <1>2, <2>1, <3>1 DEF Once
    <3>2. CASE i = 1 /\ j \in 2 .. n
      BY <1>1, <1>2, <1>6, <2>1, <3>2
    <3>3. CASE j = 1 /\ i \in 2 .. n
      BY <1>1, <1>2, <1>6, <2>1, <3>3
    <3> QED BY <1>3, <3>1, <3>2, <3>3
  <2>2. ASSUME NEW i \in 1 .. n PROVE OpOf(queue'[i]) \notin inProgress'
    <3>1. CASE i = 1
      BY <1>1, <1>2, <1>7, <3>1
    <3>2. CASE i \in 2 .. n
      BY <1>2, <3>2 DEF Once
    <3> QED BY <1>3, <3>1, <3>2
  <2>3. ASSUME NEW i \in 1 .. n, queue'[i].do \in Rests PROVE i = 1
    BY <1>2, <1>3, <1>4, <2>3
  <2>4. \A x \in inProgress' : x.do \notin Rests
    BY <1>2 DEF Once
  <2> QED BY <1>2, <2>1, <2>2, <2>3, <2>4 DEF Once
<1>10. Flight = inProgress \cup A /\ Flight' = inProgress' \cup B
  BY DEF Flight
<1>11. op \in Flight /\ Flight' = (Flight \ {op}) \cup {Op(what, s)}
  <2> HIDE DEF A, B, op
  <2> QED BY <1>2, <1>5, <1>8, <1>10
<1> QED BY <1>2, <1>9, <1>11
-----------------------------------------------------------------------------
\* ChunksFlow in terms of Flight, before and after a step.
Sent(s) == session[s].sent \o session[s].sending_messages_ = session[s].written

Flows(s) ==
  s \in sessions_ /\ session[s].sending_messages_ # <<>> => Op("write", s) \in Flight

\* ChunksFlow, session by session.
LEMMA FlowParts ==
  /\ ChunksFlow <=> \A s \in DOMAIN session : Sent(s) /\ Flows(s)
  /\ ChunksFlow' <=> \A s \in DOMAIN session' : Sent(s)' /\ Flows(s)'
<1>1. ChunksFlow <=> \A s \in DOMAIN session : Sent(s) /\ Flows(s)
  BY InFlightIsFlight DEF ChunksFlow, Sent, Flows
<1>2. ChunksFlow' <=> \A s \in DOMAIN session' : Sent(s)' /\ Flows(s)'
  BY InFlightIsFlight DEF ChunksFlow, Sent, Flows
<1> QED BY <1>1, <1>2

\* The operations of the sessions are those of sessions that exist.
LEMMA OpsOf ==
  ASSUME Flight \subseteq Ops, NEW what \in Whats, NEW s, Op(what, s) \in Flight
  PROVE  s \in DOMAIN session
<1>1. Op(what, s) \in Ops /\ Op(what, s) # Accept
  BY OpsDiffer DEF Accept, Whats, Rests
<1>2. PICK w \in Whats, t \in DOMAIN session : Op(what, s) = Op(w, t)
  BY <1>1 DEF Ops
<1> QED BY <1>2, OpsDiffer

\* The operations of a session that exists.
LEMMA IsAnOp ==
  ASSUME NEW what \in Whats, NEW s \in DOMAIN session
  PROVE  Op(what, s) \in Ops
BY DEF Ops

\* What a session keeps of itself when others change.
SameChunks(t) ==
  /\ session'[t].id = session[t].id
  /\ session'[t].sending_messages_ = session[t].sending_messages_
  /\ session'[t].written = session[t].written
  /\ session'[t].sent = session[t].sent

\* Who is alive and who is on the way, in terms of Flight.
LEMMA AliveParts ==
  ASSUME NEW s
  PROVE  /\ Alive(s) <=> s \in sessions_ \/ Leaving(s) \/ \E what \in Whats : Op(what, s) \in Flight
         /\ Alive(s)' <=> s \in sessions_' \/ Leaving(s)' \/ \E what \in Whats : Op(what, s) \in Flight'
         /\ Changing(s) <=> Op("emplace", s) \in Flight \/ Op("report", s) \in Flight \/ Leaving(s)
         /\ Changing(s)' <=> Op("emplace", s) \in Flight' \/ Op("report", s) \in Flight' \/ Leaving(s)'
<1>1. Whats = {"read", "write", "emplace", "report"}
  BY DEF Whats, Rests
<1>2. /\ Held(s) <=> Leaving(s) \/ \E what \in Whats : Op(what, s) \in Flight
      /\ Held(s)' <=> Leaving(s)' \/ \E what \in Whats : Op(what, s) \in Flight'
  <2>1. \A what : InFlight(Op(what, s)) <=> Op(what, s) \in Flight
    BY InFlightIsFlight
  <2>2. \A what : InFlight(Op(what, s))' <=> Op(what, s) \in Flight'
    BY InFlightIsFlight
  <2>3. Held(s) <=> Leaving(s) \/ \E what \in Whats : Op(what, s) \in Flight
    BY <1>1, <2>1, Zenon DEF Held
  <2>4. Held(s)' <=> Leaving(s)' \/ \E what \in Whats : Op(what, s) \in Flight'
    BY <1>1, <2>2, Zenon DEF Held
  <2> QED BY <2>3, <2>4
<1>3. Changing(s) <=> Op("emplace", s) \in Flight \/ Op("report", s) \in Flight \/ Leaving(s)
  BY InFlightIsFlight, Zenon DEF Changing
<1>4. Changing(s)' <=> Op("emplace", s) \in Flight' \/ Op("report", s) \in Flight' \/ Leaving(s)'
  BY InFlightIsFlight, Zenon DEF Changing
<1>5. (Alive(s) <=> s \in sessions_ \/ Held(s)) /\ (Alive(s)' <=> s \in sessions_' \/ Held(s)')
  BY Zenon DEF Alive
<1> QED BY <1>2, <1>3, <1>4, <1>5, Zenon

\* No session comes to life.
LEMMA AddressesKept ==
  ASSUME OwnAddress, DOMAIN session' = DOMAIN session,
         \A t \in DOMAIN session : session'[t].id = session[t].id,
         \A t \in DOMAIN session : Alive(t)' => Alive(t)
  PROVE  OwnAddress'
BY DEF OwnAddress

\* The user's thread neither begins nor ends a report.
UserStays == user' = user \/ (user.at # "report" /\ user'.at # "report")

\* Then it reports the same session as before, if any.
LEMMA StaysLeaving ==
  ASSUME UserStays, NEW t
  PROVE  Leaving(t)' <=> Leaving(t)
BY DEF UserStays, Leaving

\* A step that changes neither the map nor what is in flight, and of the
\* sessions at most the sockets.
LEMMA StillKeepsInv ==
  ASSUME Inv, session' \in Seq(Session), DOMAIN session' = DOMAIN session,
         \A t \in DOMAIN session : SameChunks(t) /\ session'[t].left = session[t].left,
         sessions_' = sessions_, Flight' = Flight, Once', queue' \in Seq(Handler), packets' \in Nat,
         UserStays
  PROVE  Inv'
<1>1. TypeOK' /\ Flight' \subseteq Ops'
  BY DEF Inv, TypeOK, Ops
<1>2. \A t : (Alive(t)' <=> Alive(t)) /\ (Changing(t)' <=> Changing(t)) /\ (Leaving(t)' <=> Leaving(t))
  BY AliveParts, StaysLeaving
<1>3. MapMatchesReports'
  BY <1>2 DEF Inv, MapMatchesReports, Unreported
<1>4. OwnAddress'
  BY <1>2, AddressesKept DEF Inv, SameChunks
<1>5. Entering'
  BY <1>2 DEF Inv, Entering, Fresh, SameChunks
<1>6. Reporting'
  BY DEF Inv, Reporting, UserStays
<1>7. WritesHaveChunks'
  BY DEF Inv, WritesHaveChunks, SameChunks
<1>8. ChunksFlow'
  <2>1. ASSUME NEW s \in DOMAIN session PROVE Sent(s)' /\ Flows(s)'
    BY FlowParts DEF Inv, Sent, Flows, SameChunks
  <2> QED BY <2>1, FlowParts
<1> QED BY <1>1, <1>3, <1>4, <1>5, <1>6, <1>7, <1>8 DEF Inv

\* The fields of a session.
LEMMA SessionFields ==
  ASSUME NEW x \in Session
  PROVE  /\ x.left \in BOOLEAN
         /\ x.sending_messages_ \in Seq(Nat) /\ x.written \in Seq(Nat) /\ x.sent \in Seq(Nat)
BY DEF Session

\* What a report does to the sessions.
LEMMA ReportSessions ==
  ASSUME TypeOK, NEW s \in DOMAIN session, report(s)
  PROVE  /\ session' \in Seq(Session) /\ DOMAIN session' = DOMAIN session
         /\ session'[s].left
         /\ \A t \in DOMAIN session : SameChunks(t) /\ (t # s => session'[t] = session[t])
<1> DEFINE n == Len(session)
<1>1. /\ n \in Nat /\ DOMAIN session = 1 .. n /\ session \in [1 .. n -> Session]
      /\ session' = [session EXCEPT ![s] = [session[s] EXCEPT !.left = TRUE]]
  BY DEF TypeOK, report
<1> HIDE DEF n
<1>2. [session[s] EXCEPT !.left = TRUE] \in Session
  <2>1. session[s] \in Session
    BY <1>1
  <2> QED BY <2>1 DEF Session
<1>3. session' \in [1 .. n -> Session]
  BY <1>1, <1>2
<1>4. session' \in Seq(Session) /\ DOMAIN session' = DOMAIN session
  BY <1>1, <1>3, IsASeq
<1>5. session'[s] = [session[s] EXCEPT !.left = TRUE] /\ session[s] \in Session
  BY <1>1
<1>6. session'[s].left /\ SameChunks(s)
  BY <1>5 DEF SameChunks, Session
<1>7. \A t \in DOMAIN session : t # s => session'[t] = session[t]
  BY <1>1
<1> QED BY <1>4, <1>6, <1>7 DEF SameChunks

\* What closing or losing a socket does to the sessions.
LEMMA SocketSessions ==
  ASSUME TypeOK, NEW s \in DOMAIN session, NEW state \in {"open", "lost", "shut"},
         session' = [session EXCEPT ![s].socket_ = state]
  PROVE  /\ session' \in Seq(Session) /\ DOMAIN session' = DOMAIN session
         /\ \A t \in DOMAIN session : SameChunks(t) /\ session'[t].left = session[t].left
<1> DEFINE n == Len(session)
<1>1. /\ n \in Nat /\ DOMAIN session = 1 .. n /\ session \in [1 .. n -> Session]
      /\ session' = [session EXCEPT ![s] = [session[s] EXCEPT !.socket_ = state]]
  BY DEF TypeOK
<1> HIDE DEF n
<1>2. [session[s] EXCEPT !.socket_ = state] \in Session
  <2>1. \A x \in Session : [x EXCEPT !.socket_ = state] \in Session
    BY DEF Session
  <2> QED BY <1>1, <2>1
<1>3. session' \in [1 .. n -> Session]
  BY <1>1, <1>2
<1>4. session' \in Seq(Session) /\ DOMAIN session' = DOMAIN session
  BY <1>1, <1>3, IsASeq
<1>5. ASSUME NEW t \in DOMAIN session
      PROVE  SameChunks(t) /\ session'[t].left = session[t].left
  <2>1. CASE t = s
    <3>1. session'[t] = [session[s] EXCEPT !.socket_ = state] /\ session[s] \in Session
      BY <1>1, <2>1
    <3> QED BY <2>1, <3>1 DEF SameChunks, Session
  <2>2. CASE t # s
    BY <1>1, <2>2 DEF SameChunks
  <2> QED BY <2>1, <2>2
<1> QED BY <1>4, <1>5

\* A session is erased: when a handler of its own has failed, or in close.
LEMMA LeaveKeepsInv ==
  ASSUME Inv, NEW s \in DOMAIN session, Alive(s), Op("emplace", s) \notin Flight,
         leave(s), session' = session,
         Changing(s)', \A t \in DOMAIN session : Changing(t) => Changing(t)',
         \A t : Leaving(t)' => Leaving(t) \/ t = s,
         user'.at = "report" => user'.of \in DOMAIN session /\ user'.next.at # "report",
         Flight' \subseteq Flight \cup {Op("report", s)},
         \A t \in DOMAIN session : t # s /\ Op("write", t) \in Flight => Op("write", t) \in Flight',
         Once', queue' \in Seq(Handler), packets' = packets
  PROVE  Inv'
<1>1. \A t \in sessions_ : session[t].id = session[s].id => t = s
  BY AliveParts DEF Inv, OwnAddress, TypeOK
<1>2. sessions_' = sessions_ \ {s}
  BY <1>1 DEF leave, Under
<1>3. TypeOK' /\ Flight' \subseteq Ops'
  BY <1>2 DEF Inv, TypeOK, Ops, Whats, Rests
<1>4. MapMatchesReports'
  BY <1>2 DEF Inv, MapMatchesReports, Unreported
<1>5. \A what, t : t # s /\ Op(what, t) \in Flight' => Op(what, t) \in Flight
  BY OpsDiffer
<1>6. \A what : what # "report" /\ Op(what, s) \in Flight' => Op(what, s) \in Flight
  BY OpsDiffer
<1>7. OwnAddress'
  <2>1. ASSUME NEW t \in DOMAIN session, Alive(t)' PROVE Alive(t)
    <3>1. CASE t = s
      BY <3>1
    <3>2. CASE t # s
      BY <1>2, <1>5, <2>1, <3>2, AliveParts
    <3> QED BY <3>1, <3>2
  <2> QED BY <2>1, AddressesKept DEF Inv
<1>8. Entering'
  <2> SUFFICES ASSUME NEW t \in DOMAIN session, Op("emplace", t) \in Flight' PROVE Fresh(t)'
    BY DEF Entering
  <2>1. t # s /\ Op("emplace", t) \in Flight
    BY <1>5, <1>6
  <2>2. Fresh(t)
    BY <2>1 DEF Inv, Entering
  <2>3. Accept \notin Flight'
    BY <2>2, OpsDiffer DEF Fresh, Accept
  <2> QED BY <1>2, <1>5, <2>1, <2>2, <2>3 DEF Fresh
<1>9. Reporting'
  <2>1. ASSUME NEW t \in DOMAIN session, Op("report", t) \in Flight' PROVE t \notin sessions_'
    BY <1>2, <1>5, <2>1 DEF Inv, Reporting
  <2>2. ASSUME user'.at = "report" PROVE user'.of \notin sessions_'
    <3>1. ASSUME NEW t, t = user'.of PROVE t \notin sessions_'
      <4>1. Leaving(t)'
        BY <2>2, <3>1 DEF Leaving
      <4>2. Leaving(t) \/ t = s
        BY <4>1
      <4>3. Leaving(t) => t \notin sessions_
        BY DEF Inv, Reporting, Leaving
      <4> QED BY <1>2, <4>2, <4>3
    <3> QED BY <3>1
  <2> QED BY <2>1, <2>2 DEF Reporting
<1>10. WritesHaveChunks'
  BY <1>5, <1>6 DEF Inv, WritesHaveChunks
<1>11. ChunksFlow'
  <2>1. ASSUME NEW t \in DOMAIN session PROVE Sent(t)' /\ Flows(t)'
    <3>1. Sent(t) /\ Flows(t)
      BY FlowParts DEF Inv
    <3> QED BY <1>2, <3>1 DEF Sent, Flows
  <2> QED BY <2>1, FlowParts
<1> QED BY <1>3, <1>4, <1>7, <1>8, <1>9, <1>10, <1>11 DEF Inv

\* A session that was erased is reported, by either thread.
LEMMA ReportKeepsInv ==
  ASSUME Inv, NEW s \in DOMAIN session, s \notin sessions_, Op("emplace", s) \notin Flight, report(s),
         \A t \in DOMAIN session : t # s /\ Changing(t) => Changing(t)',
         \A t : Leaving(t)' => Leaving(t),
         user'.at = "report" => user'.next.at # "report",
         Flight' \subseteq Flight,
         \A t \in DOMAIN session : Op("write", t) \in Flight => Op("write", t) \in Flight',
         Once', queue' \in Seq(Handler), packets' = packets
  PROVE  Inv'
<1>1. /\ session' \in Seq(Session) /\ DOMAIN session' = DOMAIN session
      /\ session'[s].left
      /\ \A t \in DOMAIN session : SameChunks(t) /\ (t # s => session'[t] = session[t])
  BY ReportSessions DEF Inv
<1>2. sessions_' = sessions_
  BY DEF report
<1>3. TypeOK' /\ Flight' \subseteq Ops'
  BY <1>1, <1>2 DEF Inv, TypeOK, Ops
<1>4. MapMatchesReports'
  <2>1. \A t \in DOMAIN session : t \in Unreported' <=> t # s /\ t \in Unreported
    BY <1>1 DEF Unreported
  <2>2. \A t \in Unreported' : t \in DOMAIN session
    BY <1>1 DEF Unreported
  <2>3. sessions_ \subseteq DOMAIN session
    BY DEF Inv, TypeOK
  <2> QED BY <1>2, <2>1, <2>2, <2>3 DEF Inv, MapMatchesReports
<1>5. OwnAddress'
  <2>1. \A t \in DOMAIN session : Alive(t)' => Alive(t)
    BY <1>2, AliveParts
  <2> QED BY <1>1, <2>1, AddressesKept DEF Inv, SameChunks
<1>6. Entering'
  <2> SUFFICES ASSUME NEW t \in DOMAIN session, Op("emplace", t) \in Flight' PROVE Fresh(t)'
    BY <1>1 DEF Entering
  <2>1. t # s /\ Fresh(t) /\ session'[t] = session[t]
    BY <1>1 DEF Inv, Entering
  <2> QED BY <1>2, <2>1 DEF Fresh
<1>7. Reporting'
  <2>1. ASSUME user'.at = "report" PROVE user'.of \in DOMAIN session \ sessions_
    <3>1. Leaving(user'.of)
      BY <2>1 DEF Leaving
    <3> QED BY <3>1 DEF Inv, Reporting, Leaving
  <2> QED BY <1>1, <1>2, <2>1 DEF Inv, Reporting
<1>8. WritesHaveChunks'
  BY <1>1 DEF Inv, WritesHaveChunks, SameChunks
<1>9. ChunksFlow'
  <2>1. ASSUME NEW t \in DOMAIN session PROVE Sent(t)' /\ Flows(t)'
    <3>1. Sent(t) /\ Flows(t)
      BY FlowParts DEF Inv
    <3> QED BY <1>1, <1>2, <3>1 DEF Sent, Flows, SameChunks
  <2> QED BY <1>1, <2>1, FlowParts
<1> QED BY <1>3, <1>4, <1>5, <1>6, <1>7, <1>8, <1>9 DEF Inv

\* A connection is accepted: its session is alive, and not yet in the map.
LEMMA AcceptKeepsInv ==
  ASSUME Inv, queue # <<>>, Head(queue).do = "accept", OpOf(Head(queue)) = Accept,
         NEW id \in FreeAddress,
         session' = Append(session, NewSession(id)),
         Continue({}, <<Then("emplace", Len(session) + 1)>> \o Tail(queue)),
         UNCHANGED <<sessions_, user, packets>>
  PROVE  Inv'
<1> DEFINE n == Len(session)
           new == n + 1
           x == NewSession(id)
<1>1. /\ n \in Nat /\ DOMAIN session = 1 .. n /\ id \in Address
      /\ \A t \in DOMAIN session : Alive(t) => session[t].id # id
  BY DEF Inv, TypeOK, FreeAddress
<1>2. /\ x \in Session /\ x.id = id /\ ~x.left
      /\ x.sending_messages_ = <<>> /\ x.sent = <<>> /\ x.written = <<>>
  BY <1>1 DEF NewSession, Session
<1>3. /\ session' \in Seq(Session) /\ DOMAIN session' = 1 .. new /\ session'[new] = x
      /\ \A t \in 1 .. n : session'[t] = session[t]
  <2> HIDE DEF x
  <2>1. session \in Seq(Session) /\ session' = Append(session, x)
    BY DEF Inv, TypeOK, x
  <2> QED BY <1>2, <2>1
<1> HIDE DEF x
<1>4. /\ OpOf(Head(queue)) \in Flight /\ queue' \in Seq(Handler)
      /\ Once' /\ Flight' = (Flight \ {OpOf(Head(queue))}) \cup {Op("emplace", new)}
  <2>1. new \in Nat /\ "emplace" \in Rests /\ Head(queue).do \notin Rests
    BY <1>1 DEF Rests
  <2> QED BY <2>1, BeginFlight DEF Inv
<1> HIDE DEF n
<1>5. Accept \in Flight /\ Flight' = (Flight \ {Accept}) \cup {Op("emplace", new)}
  BY <1>4
<1>6. /\ sessions_ \subseteq 1 .. n /\ new \notin 1 .. n /\ new \notin sessions_
      /\ 1 .. new = 1 .. n \cup {new}
  BY <1>1 DEF Inv, TypeOK
<1>7. \A what \in Whats : Op(what, new) \notin Flight
  BY <1>1, <1>6, OpsOf DEF Inv
<1>8. \A t : t # new => \A what \in Whats : Op(what, t) \in Flight' <=> Op(what, t) \in Flight
  BY <1>5, OpsDiffer DEF Accept, Whats, Rests
<1>9. \A what \in Whats : Op(what, new) \in Flight' <=> what = "emplace"
  BY <1>5, <1>7, OpsDiffer
<1>10. \A t : Leaving(t)' <=> Leaving(t)
  BY DEF Leaving
<1>11. ~Leaving(new)
  BY <1>1, <1>6 DEF Inv, Reporting, Leaving
<1>12. \A t \in 1 .. n : (Alive(t)' <=> Alive(t)) /\ (Changing(t)' <=> Changing(t))
  <2> SUFFICES ASSUME NEW t \in 1 .. n
               PROVE  (Alive(t)' <=> Alive(t)) /\ (Changing(t)' <=> Changing(t))
    OBVIOUS
  <2>1. t # new
    BY <1>6
  <2> QED BY <1>8, <1>10, <2>1, AliveParts DEF Whats, Rests
<1>13. TypeOK'
  BY <1>1, <1>3, <1>4, <1>6 DEF Inv, TypeOK
<1>14. Flight' \subseteq Ops'
  <2>1. Ops \subseteq Ops'
    BY <1>1, <1>3, <1>6 DEF Ops
  <2>2. Op("emplace", new) \in Ops'
    BY <1>3, <1>6 DEF Ops, Whats, Rests
  <2> QED BY <1>5, <2>1, <2>2 DEF Inv
<1>15. MapMatchesReports'
  <2>1. \A t \in 1 .. n : t \in Unreported' <=> t \in Unreported
    BY <1>1, <1>3, <1>6 DEF Unreported
  <2>2. Unreported' \subseteq 1 .. n \cup {new}
    BY <1>3, <1>6 DEF Unreported
  <2>3. ASSUME NEW t, t = new PROVE Changing(t)'
    <3>1. Op("emplace", t) \in Flight'
      BY <1>5, <2>3
    <3> QED BY <3>1, AliveParts
  <2>4. sessions_' \subseteq Unreported'
    BY <1>6, <2>1 DEF Inv, MapMatchesReports
  <2>5. ASSUME NEW t \in Unreported' \ sessions_' PROVE Changing(t)'
    <3>1. CASE t \in 1 .. n
      BY <1>12, <2>1, <2>5, <3>1 DEF Inv, MapMatchesReports
    <3>2. CASE t = new
      BY <2>3, <3>2
    <3> QED BY <2>2, <2>5, <3>1, <3>2
  <2> QED BY <2>4, <2>5 DEF MapMatchesReports
<1>16. OwnAddress'
  <2> SUFFICES ASSUME NEW s \in 1 .. new, NEW t \in 1 .. new, Alive(s)', Alive(t)',
                      session'[s].id = session'[t].id
               PROVE  s = t
    BY <1>3 DEF OwnAddress
  <2>1. CASE s \in 1 .. n /\ t \in 1 .. n
    BY <1>1, <1>3, <1>12, <2>1 DEF Inv, OwnAddress
  <2>2. CASE s = new /\ t \in 1 .. n
    BY <1>1, <1>2, <1>3, <1>12, <2>2
  <2>3. CASE t = new /\ s \in 1 .. n
    BY <1>1, <1>2, <1>3, <1>12, <2>3
  <2> QED BY <1>6, <2>1, <2>2, <2>3
<1>17. Entering'
  <2> SUFFICES ASSUME NEW t \in 1 .. new, Op("emplace", t) \in Flight' PROVE Fresh(t)'
    BY <1>3 DEF Entering
  <2>1. t = new
    <3> SUFFICES ASSUME t # new PROVE FALSE
      OBVIOUS
    <3>1. Op("emplace", t) \in Flight /\ t \in 1 .. n
      BY <1>6, <1>8 DEF Whats, Rests
    <3> QED BY <1>1, <1>5, <3>1 DEF Inv, Entering, Fresh
  <2>2. Accept \notin Flight'
    BY <1>5, OpsDiffer DEF Accept
  <2> QED BY <1>2, <1>3, <1>6, <1>9, <1>10, <1>11, <2>1, <2>2 DEF Fresh, Whats, Rests
<1>18. Reporting'
  <2>1. ASSUME NEW t \in 1 .. new, Op("report", t) \in Flight' PROVE t \notin sessions_
    <3>1. t # new
      BY <1>9, <2>1 DEF Whats, Rests
    <3>2. t \in 1 .. n /\ Op("report", t) \in Flight
      BY <1>6, <1>8, <2>1, <3>1 DEF Whats, Rests
    <3> QED BY <1>1, <3>2 DEF Inv, Reporting
  <2> QED BY <1>1, <1>3, <1>6, <2>1 DEF Inv, Reporting
<1>19. WritesHaveChunks'
  <2> SUFFICES ASSUME NEW s \in 1 .. new, Op("write", s) \in Flight'
               PROVE  session'[s].sending_messages_ # <<>>
    BY <1>3 DEF WritesHaveChunks
  <2>1. s # new
    BY <1>9 DEF Whats, Rests
  <2>2. s \in 1 .. n /\ Op("write", s) \in Flight
    BY <1>6, <1>8, <2>1 DEF Whats, Rests
  <2> QED BY <1>1, <1>3, <2>2 DEF Inv, WritesHaveChunks
<1>20. ChunksFlow'
  <2>1. ASSUME NEW s \in 1 .. n PROVE Sent(s)' /\ Flows(s)'
    <3>1. Sent(s) /\ Flows(s) /\ session'[s] = session[s] /\ s # new
      BY <1>1, <1>3, <1>6, FlowParts DEF Inv
    <3> QED BY <1>8, <3>1 DEF Sent, Flows, Whats, Rests
  <2>2. ASSUME NEW s, s = new PROVE Sent(s)' /\ Flows(s)'
    <3>1. session'[s] = x
      BY <1>3, <2>2
    <3>2. x.sent \o x.sending_messages_ = x.written
      BY <1>2
    <3> QED BY <1>2, <3>1, <3>2 DEF Sent, Flows
  <2> QED BY <1>3, <1>6, <2>1, <2>2, FlowParts
<1> QED BY <1>4, <1>13, <1>14, <1>15, <1>16, <1>17, <1>18, <1>19, <1>20 DEF Inv

\* The new session gets into the map, and is read.
LEMMA EmplaceKeepsInv ==
  ASSUME Inv, queue # <<>>, NEW s \in DOMAIN session, OpOf(Head(queue)) = Op("emplace", s),
         emplace(s, Tail(queue)), UNCHANGED <<user, packets>>
  PROVE  Inv'
<1> DEFINE started == {Op("read", s), Accept}
<1>1. Op("emplace", s) \in Flight
  <2>1. 1 \in DOMAIN queue /\ queue[1] = Head(queue)
    BY DEF Inv, TypeOK
  <2> QED BY <2>1 DEF Flight
<1>2. Fresh(s)
  BY <1>1 DEF Inv, Entering
<1>3. /\ Once' /\ queue' \in Seq(Handler)
      /\ Flight' = (Flight \ {Op("emplace", s)}) \cup started
  <2>1. started \cap (Flight \ {OpOf(Head(queue))}) = {} /\ Continue(started, Tail(queue))
    BY <1>2 DEF Fresh, emplace
  <2>2. \A y \in started : y.do \notin Rests
    BY DEF Accept, Op, Rests
  <2> HIDE DEF started
  <2> QED BY <2>1, <2>2, RunFlight DEF Inv
<1>4. session' = session /\ \A t : Leaving(t)' <=> Leaving(t)
  BY DEF emplace, Leaving
<1>5. Alive(s) /\ sessions_ \subseteq DOMAIN session
  BY <1>1, AliveParts DEF Inv, TypeOK, Whats, Rests
<1>6. sessions_' = sessions_ \cup {s}
  <2>1. \A t \in sessions_ : Alive(t)
    BY AliveParts
  <2>2. Under(session[s].id) = {}
    BY <1>2, <1>5, <2>1 DEF Inv, OwnAddress, Fresh, Under
  <2> QED BY <2>2 DEF emplace
<1>7. \A t : t # s => \A what \in Whats : Op(what, t) \in Flight' <=> Op(what, t) \in Flight
  BY <1>3, OpsDiffer DEF Accept, Whats, Rests
<1>8. \A what \in Whats : Op(what, s) \in Flight' <=> what = "read"
  BY <1>2, <1>3, OpsDiffer DEF Fresh, Accept, Whats, Rests
<1>9. \A t : t # s => (Alive(t)' <=> Alive(t)) /\ (Changing(t)' <=> Changing(t))
  <2> SUFFICES ASSUME NEW t, t # s
               PROVE  (Alive(t)' <=> Alive(t)) /\ (Changing(t)' <=> Changing(t))
    OBVIOUS
  <2> QED BY <1>4, <1>6, <1>7, AliveParts DEF Whats, Rests
<1>10. TypeOK' /\ Flight' \subseteq Ops'
  <2>1. Ops' = Ops
    BY <1>4 DEF Ops
  <2>2. Op("read", s) \in Ops /\ Accept \in Ops
    BY IsAnOp DEF Whats, Ops
  <2> QED BY <1>3, <1>4, <1>5, <1>6, <2>1, <2>2 DEF Inv, TypeOK
<1>11. MapMatchesReports'
  <2>1. s \in Unreported /\ Unreported' = Unreported
    BY <1>2, <1>4 DEF Fresh, Unreported
  <2> QED BY <1>6, <1>9, <2>1 DEF Inv, MapMatchesReports
<1>12. OwnAddress'
  BY <1>4, <1>5, <1>9, AddressesKept DEF Inv
<1>13. Entering'
  <2> SUFFICES ASSUME NEW t \in DOMAIN session, Op("emplace", t) \in Flight' PROVE FALSE
    BY <1>4 DEF Entering
  <2>1. t # s /\ Op("emplace", t) \in Flight
    BY <1>7, <1>8 DEF Whats, Rests
  <2>2. 1 \in DOMAIN queue /\ queue[1] = Head(queue)
    BY DEF Inv, TypeOK
  <2>3. \A op \in inProgress : op.do # "emplace"
    BY DEF Inv, Once, Rests
  <2>4. PICK i \in DOMAIN queue : OpOf(queue[i]) = Op("emplace", t)
    BY <2>1, <2>3 DEF Flight, Op
  <2>5. queue[i].do = "emplace"
    BY <2>4, OpsDiffer DEF OpOf
  <2>6. i = 1
    BY <2>5 DEF Inv, Once, Rests
  <2> QED BY <2>1, <2>2, <2>4, <2>6, OpsDiffer
<1>14. Reporting'
  <2>1. ASSUME NEW t \in DOMAIN session, Op("report", t) \in Flight' PROVE t \notin sessions_'
    <3>1. t # s /\ Op("report", t) \in Flight
      BY <1>7, <1>8, <2>1 DEF Whats, Rests
    <3> QED BY <1>6, <3>1 DEF Inv, Reporting
  <2>2. user.at = "report" => user.of # s
    BY <1>2 DEF Fresh, Leaving
  <2> QED BY <1>4, <1>6, <2>1, <2>2 DEF Inv, Reporting
<1>15. WritesHaveChunks'
  BY <1>4, <1>7, <1>8 DEF Inv, WritesHaveChunks, Whats, Rests
<1>16. ChunksFlow'
  <2>1. ASSUME NEW t \in DOMAIN session PROVE Sent(t)' /\ Flows(t)'
    <3>1. Sent(t) /\ Flows(t)
      BY FlowParts DEF Inv
    <3>2. CASE t = s
      BY <1>2, <1>4, <3>1, <3>2 DEF Sent, Flows, Fresh
    <3>3. CASE t # s
      BY <1>4, <1>6, <1>7, <3>1, <3>3 DEF Sent, Flows, Whats, Rests
    <3> QED BY <3>2, <3>3
  <2> QED BY <1>4, <2>1, FlowParts
<1> QED BY <1>3, <1>10, <1>11, <1>12, <1>13, <1>14, <1>15, <1>16 DEF Inv

\* What answering a packet does to a session.
Wrote(x, chunk) ==
  [x EXCEPT !.sending_messages_ = Append(@, chunk), !.written = Append(@, chunk)]

\* Answering a packet keeps what was sent and what waits together what was written.
LEMMA WroteFields ==
  ASSUME NEW x \in Session, NEW chunk \in Nat, x.sent \o x.sending_messages_ = x.written
  PROVE  /\ Wrote(x, chunk) \in Session
         /\ Wrote(x, chunk).id = x.id /\ Wrote(x, chunk).left = x.left
         /\ Wrote(x, chunk).sending_messages_ # <<>>
         /\ Wrote(x, chunk).sent \o Wrote(x, chunk).sending_messages_ = Wrote(x, chunk).written
<1> DEFINE m == Append(x.sending_messages_, chunk)
           w == Append(x.written, chunk)
           y == Wrote(x, chunk)
<1>1. x.sending_messages_ \in Seq(Nat) /\ x.written \in Seq(Nat) /\ x.sent \in Seq(Nat)
  BY SessionFields
<1>2. m \in Seq(Nat) /\ w \in Seq(Nat) /\ m # <<>> /\ x.sent \o m = w
  <2> DEFINE a == x.sending_messages_
             b == x.written
             u == x.sent
  <2>1. a \in Seq(Nat) /\ b \in Seq(Nat) /\ u \in Seq(Nat) /\ u \o a = b
    BY <1>1
  <2> HIDE DEF a, b, u
  <2>2. Append(a, chunk) \in Seq(Nat) /\ Append(b, chunk) \in Seq(Nat)
    BY <2>1
  <2>3. Append(a, chunk) # <<>>
    <3>1. Len(Append(a, chunk)) = Len(a) + 1 /\ Len(a) \in Nat /\ Len(<<>>) = 0
      BY <2>1
    <3>2. Len(Append(a, chunk)) # Len(<<>>)
      BY <3>1
    <3> QED BY <3>2, Zenon
  <2>4. u \o Append(a, chunk) = Append(u \o a, chunk)
    BY <2>1
  <2> QED BY <2>1, <2>2, <2>3, <2>4 DEF a, b, u
<1>3. y = [x EXCEPT !.sending_messages_ = m, !.written = w]
  BY DEF Wrote
<1> HIDE DEF m, w, y
<1>4. y \in Session
  BY <1>2, <1>3 DEF Session
<1>5. /\ y.id = x.id /\ y.left = x.left /\ y.sent = x.sent
      /\ y.sending_messages_ = m /\ y.written = w
  BY <1>3 DEF Session
<1> QED BY <1>2, <1>4, <1>5 DEF y

\* A packet is answered and the next one read.
LEMMA AnswerKeepsInv ==
  ASSUME Inv, queue # <<>>, NEW s \in DOMAIN session, OpOf(Head(queue)) = Op("read", s),
         NEW chunk \in Nat, NEW targets \in SUBSET sessions_,
         session' = [t \in DOMAIN session |->
                       IF t \in targets THEN write(t, chunk) ELSE session[t]],
         Continue({Op("write", t) : t \in {u \in targets : StartsWrite(u)}}
                    \cup {Op("read", s)}, Tail(queue)),
         UNCHANGED <<sessions_, user, packets>>
  PROVE  Inv'
<1> DEFINE n == Len(session)
           W == {Op("write", t) : t \in {u \in targets : StartsWrite(u)}}
<1>1. /\ n \in Nat /\ DOMAIN session = 1 .. n /\ targets \subseteq 1 .. n /\ sessions_ \subseteq 1 .. n
      /\ \A t \in 1 .. n : session[t] \in Session /\ Sent(t) /\ Flows(t)
  BY FlowParts DEF Inv, TypeOK
<1> HIDE DEF n
<1>2. ASSUME NEW t \in 1 .. n
      PROVE  /\ session'[t] \in Session
             /\ session'[t].id = session[t].id /\ session'[t].left = session[t].left
             /\ session'[t].sent \o session'[t].sending_messages_ = session'[t].written
             /\ t \in targets => session'[t].sending_messages_ # <<>>
             /\ t \notin targets => session'[t] = session[t]
  <2>1. CASE t \in targets
    <3>1. session'[t] = Wrote(session[t], chunk)
      BY <1>1, <2>1 DEF write, Wrote
    <3>2. /\ session[t] \in Session
          /\ session[t].sent \o session[t].sending_messages_ = session[t].written
      BY <1>1 DEF Sent
    <3> DEFINE x == session[t]
               y == Wrote(x, chunk)
    <3>3. /\ y \in Session /\ y.id = x.id /\ y.left = x.left
          /\ y.sending_messages_ # <<>>
          /\ y.sent \o y.sending_messages_ = y.written
      <4>1. x \in Session /\ x.sent \o x.sending_messages_ = x.written
        BY <3>2
      <4> HIDE DEF x
      <4> QED BY <4>1, WroteFields
    <3> HIDE DEF y
    <3> QED BY <2>1, <3>1, <3>3 DEF y
  <2>2. CASE t \notin targets
    BY <1>1, <2>2 DEF Sent
  <2> QED BY <2>1, <2>2
<1>3. session' \in Seq(Session) /\ DOMAIN session' = 1 .. n
  <2>1. DOMAIN session' = 1 .. n /\ session' \in [1 .. n -> Session]
    BY <1>1, <1>2
  <2> QED BY <1>1, <2>1, IsASeq
<1>4. \A t : Op("write", t) \in W <=> t \in targets /\ session[t].sending_messages_ = <<>>
  BY OpsDiffer DEF StartsWrite
<1>5. /\ Accept \notin W
      /\ \A t : /\ Op("read", t) \notin W /\ Op("emplace", t) \notin W
                /\ Op("report", t) \notin W
  BY OpsDiffer DEF Accept
<1>6. \A op \in W : op \notin Flight
  <2>1. ASSUME NEW t \in targets, session[t].sending_messages_ = <<>> PROVE Op("write", t) \notin Flight
    BY <1>1, <2>1 DEF Inv, WritesHaveChunks
  <2> QED BY <2>1 DEF StartsWrite
<1>7. /\ Once' /\ queue' \in Seq(Handler) /\ Op("read", s) \in Flight
      /\ Flight' = (Flight \ {Op("read", s)}) \cup (W \cup {Op("read", s)})
  <2> DEFINE started == W \cup {Op("read", s)}
  <2>1. started \cap (Flight \ {OpOf(Head(queue))}) = {} /\ Continue(started, Tail(queue))
    BY <1>6
  <2>2. \A y \in started : y.do \notin Rests
    BY DEF Op, Rests
  <2> HIDE DEF started
  <2>3. /\ OpOf(Head(queue)) \in Flight /\ queue' \in Seq(Handler)
        /\ Once' /\ Flight' = (Flight \ {OpOf(Head(queue))}) \cup started
    BY <2>1, <2>2, RunFlight DEF Inv
  <2> QED BY <2>3 DEF started
<1>8. Flight' = Flight \cup W
  BY <1>7
<1> HIDE DEF W
<1>9. TypeOK'
  BY <1>1, <1>3, <1>7 DEF Inv, TypeOK
<1>10. Flight' \subseteq Ops'
  <2>1. Ops' = Ops
    BY <1>1, <1>3 DEF Ops
  <2>2. W \subseteq Ops
    BY <1>1, IsAnOp DEF W, Whats
  <2> QED BY <1>8, <2>1, <2>2 DEF Inv
<1>11. \A t : /\ Alive(t)' => Alive(t)
              /\ Changing(t)' <=> Changing(t)
              /\ Leaving(t)' <=> Leaving(t)
  <2> SUFFICES ASSUME NEW t
               PROVE  /\ Alive(t)' => Alive(t)
                      /\ Changing(t)' <=> Changing(t)
                      /\ Leaving(t)' <=> Leaving(t)
    OBVIOUS
  <2>1. Leaving(t)' <=> Leaving(t)
    BY DEF Leaving
  <2>2. \A what \in Whats : Op(what, t) \in Flight' => Op(what, t) \in Flight \/ t \in sessions_
    BY <1>4, <1>5, <1>8 DEF Whats, Rests
  <2>3. /\ Op("emplace", t) \in Flight' <=> Op("emplace", t) \in Flight
        /\ Op("report", t) \in Flight' <=> Op("report", t) \in Flight
    BY <1>5, <1>8
  <2> QED BY <2>1, <2>2, <2>3, AliveParts
<1>12. MapMatchesReports'
  BY <1>1, <1>2, <1>3, <1>11 DEF Inv, MapMatchesReports, Unreported
<1>13. OwnAddress'
  BY <1>1, <1>2, <1>3, <1>11, AddressesKept DEF Inv
<1>14. Entering'
  <2> SUFFICES ASSUME NEW t \in 1 .. n, Op("emplace", t) \in Flight' PROVE Fresh(t)'
    BY <1>3 DEF Entering
  <2>1. Fresh(t)
    BY <1>1, <1>5, <1>8 DEF Inv, Entering
  <2>2. t \notin targets /\ session'[t] = session[t]
    BY <1>2, <2>1 DEF Fresh
  <2> QED BY <1>4, <1>5, <1>8, <1>11, <2>1, <2>2 DEF Fresh
<1>15. Reporting'
  BY <1>1, <1>3, <1>5, <1>8 DEF Inv, Reporting
<1>16. WritesHaveChunks'
  <2> SUFFICES ASSUME NEW t \in 1 .. n, Op("write", t) \in Flight'
               PROVE  session'[t].sending_messages_ # <<>>
    BY <1>3 DEF WritesHaveChunks
  <2>1. CASE t \in targets
    BY <1>2, <2>1
  <2>2. CASE t \notin targets
    <3>1. Op("write", t) \in Flight
      BY <1>4, <1>8, <2>2
    <3> QED BY <1>1, <1>2, <2>2, <3>1 DEF Inv, WritesHaveChunks
  <2> QED BY <2>1, <2>2
<1>17. ChunksFlow'
  <2>1. ASSUME NEW t \in 1 .. n PROVE Sent(t)' /\ Flows(t)'
    <3>1. Sent(t)'
      BY <1>2 DEF Sent
    <3>2. CASE t \in targets
      <4>1. Op("write", t) \in Flight'
        BY <1>1, <1>4, <1>8, <3>2 DEF Flows
      <4> QED BY <3>1, <4>1 DEF Flows
    <3>3. CASE t \notin targets
      BY <1>1, <1>2, <1>8, <3>1, <3>3 DEF Flows
    <3> QED BY <3>2, <3>3
  <2> QED BY <1>3, <2>1, FlowParts
<1> QED BY <1>7, <1>9, <1>10, <1>12, <1>13, <1>14, <1>15, <1>16, <1>17 DEF Inv

\* What a write that succeeded does to its session.
LEMMA SentFields ==
  ASSUME NEW x \in Session, x.sending_messages_ # <<>>, NEW y,
         y = [x EXCEPT !.sending_messages_ = Tail(x.sending_messages_),
                       !.sent = Append(@, Head(x.sending_messages_))],
         x.sent \o x.sending_messages_ = x.written
  PROVE  /\ y \in Session /\ y.id = x.id /\ y.left = x.left
         /\ y.sending_messages_ = Tail(x.sending_messages_)
         /\ y.sent \o y.sending_messages_ = y.written
<1> DEFINE m == x.sending_messages_
           w == x.sent
<1>1. m \in Seq(Nat) /\ w \in Seq(Nat) /\ x.written \in Seq(Nat) /\ m # <<>>
  BY SessionFields
<1>2. \A a, b \in Seq(Nat) : [x EXCEPT !.sending_messages_ = a, !.sent = b] \in Session
  BY DEF Session
<1>3. /\ y.id = x.id /\ y.left = x.left /\ y.written = x.written
      /\ y.sending_messages_ = Tail(m) /\ y.sent = Append(w, Head(m))
      /\ y = [x EXCEPT !.sending_messages_ = Tail(m), !.sent = Append(w, Head(m))]
  BY DEF Session
<1> HIDE DEF m, w
<1>4. Tail(m) \in Seq(Nat) /\ Append(w, Head(m)) \in Seq(Nat)
  BY <1>1
<1>5. y \in Session
  BY <1>2, <1>3, <1>4
<1>6. Append(w, Head(m)) \o Tail(m) = w \o m
  <2>1. m = <<Head(m)>> \o Tail(m) /\ Append(w, Head(m)) = w \o <<Head(m)>>
    BY <1>1, HeadAndTail
  <2>2. (w \o <<Head(m)>>) \o Tail(m) = w \o (<<Head(m)>> \o Tail(m))
    <3>1. <<Head(m)>> \in Seq(Nat) /\ Tail(m) \in Seq(Nat)
      BY <1>1
    <3> QED BY <1>1, <3>1, ConcatAssoc
  <2> QED BY <2>1, <2>2, Zenon
<1>7. x.written = w \o m
  BY DEF w, m
<1> QED BY <1>3, <1>5, <1>6, <1>7 DEF m

\* The handler of a write that succeeded: the next chunk is written.
LEMMA SentKeepsInv ==
  ASSUME Inv, queue # <<>>, NEW s \in DOMAIN session, OpOf(Head(queue)) = Op("write", s),
         handle_write(s, TRUE, Tail(queue)), UNCHANGED <<user, packets>>
  PROVE  Inv'
<1> DEFINE n == Len(session)
           waiting == session[s].sending_messages_
           started == IF Tail(waiting) = <<>> THEN {} ELSE {Op("write", s)}
<1>19. /\ n \in Nat /\ DOMAIN session = 1 .. n /\ session \in [1 .. n -> Session]
      /\ sessions_ \subseteq 1 .. n
      /\ \A t \in 1 .. n : session[t] \in Session /\ Sent(t) /\ Flows(t)
  BY FlowParts DEF Inv, TypeOK
<1> HIDE DEF n
<1>20. Op("write", s) \in Flight /\ waiting # <<>>
  <2>1. 1 \in DOMAIN queue /\ queue[1] = Head(queue)
    BY DEF Inv, TypeOK
  <2>2. Op("write", s) \in Flight
    BY <2>1 DEF Flight
  <2> QED BY <2>2 DEF Inv, WritesHaveChunks
<1>21. /\ session' = [session EXCEPT ![s] = [session[s] EXCEPT !.sending_messages_ = Tail(waiting),
                                                              !.sent = Append(@, Head(waiting))]]
      /\ Continue(started, Tail(queue)) /\ sessions_' = sessions_
  BY DEF handle_write
<1>22. /\ session'[s] \in Session /\ session'[s].id = session[s].id
      /\ session'[s].left = session[s].left
      /\ session'[s].sending_messages_ = Tail(waiting)
      /\ session'[s].sent \o session'[s].sending_messages_ = session'[s].written
  <2>1. session'[s] = [session[s] EXCEPT !.sending_messages_ = Tail(waiting),
                                         !.sent = Append(@, Head(waiting))]
    BY <1>19, <1>21
  <2> QED BY <1>19, <1>20, <2>1, SentFields DEF Sent
<1>23. \A t \in 1 .. n : t # s => session'[t] = session[t]
  BY <1>19, <1>21
<1>24. session' \in Seq(Session) /\ DOMAIN session' = 1 .. n
  <2>1. DOMAIN session' = 1 .. n
    BY <1>19, <1>21
  <2>2. \A t \in 1 .. n : session'[t] \in Session
    BY <1>19, <1>22, <1>23
  <2>3. session' = [t \in 1 .. n |-> session'[t]]
    BY <1>19, <1>21
  <2>4. session' \in [1 .. n -> Session]
    BY <2>2, <2>3
  <2> QED BY <1>19, <2>1, <2>4, IsASeq
<1>7. /\ Once' /\ queue' \in Seq(Handler)
      /\ Flight' = (Flight \ {Op("write", s)}) \cup started
  <2>1. started \cap (Flight \ {OpOf(Head(queue))}) = {}
    OBVIOUS
  <2>2. \A y \in started : y.do \notin Rests
    BY DEF Op, Rests
  <2> HIDE DEF started
  <2> QED BY <1>21, <2>1, <2>2, RunFlight DEF Inv
<1>8. /\ Op("write", s) \in Flight' <=> Tail(waiting) # <<>>
      /\ \A t : t # s => (Op("write", t) \in Flight' <=> Op("write", t) \in Flight)
      /\ \A t : \A what \in {"emplace", "report"} : Op(what, t) \in Flight' <=> Op(what, t) \in Flight
      /\ Flight' \subseteq Flight
  BY <1>7, <1>20, OpsDiffer
<1>9. TypeOK'
  BY <1>7, <1>19, <1>21, <1>24 DEF Inv, TypeOK
<1>10. Flight' \subseteq Ops'
  <2>1. Ops' = Ops
    BY <1>19, <1>24 DEF Ops
  <2> QED BY <1>8, <2>1 DEF Inv
<1>11. \A t \in 1 .. n : session'[t].id = session[t].id /\ session'[t].left = session[t].left
  BY <1>22, <1>23
<1>12. \A t : /\ Alive(t)' => Alive(t)
              /\ Changing(t)' <=> Changing(t)
              /\ Leaving(t)' <=> Leaving(t)
  <2>1. \A t : Leaving(t)' <=> Leaving(t)
    BY DEF Leaving
  <2> QED BY <1>8, <1>21, <2>1, AliveParts
<1>13. MapMatchesReports'
  BY <1>11, <1>12, <1>19, <1>21, <1>24 DEF Inv, MapMatchesReports, Unreported
<1>14. OwnAddress'
  BY <1>11, <1>12, <1>19, <1>24, AddressesKept DEF Inv
<1>15. Entering'
  <2> SUFFICES ASSUME NEW t \in 1 .. n, Op("emplace", t) \in Flight' PROVE Fresh(t)'
    BY <1>24 DEF Entering
  <2>1. Fresh(t)
    BY <1>8, <1>19 DEF Inv, Entering
  <2>2. t # s /\ session'[t] = session[t]
    BY <1>20, <1>23, <2>1 DEF Fresh
  <2> QED BY <1>8, <1>12, <1>21, <2>1, <2>2 DEF Fresh
<1>16. Reporting'
  BY <1>8, <1>19, <1>21, <1>24 DEF Inv, Reporting
<1>17. WritesHaveChunks'
  <2> SUFFICES ASSUME NEW t \in 1 .. n, Op("write", t) \in Flight'
               PROVE  session'[t].sending_messages_ # <<>>
    BY <1>24 DEF WritesHaveChunks
  <2>1. CASE t = s
    BY <1>8, <1>22, <2>1
  <2>2. CASE t # s
    <3>1. Op("write", t) \in Flight /\ session'[t] = session[t]
      BY <1>8, <1>23, <2>2
    <3> QED BY <1>19, <3>1 DEF Inv, WritesHaveChunks
  <2> QED BY <2>1, <2>2
<1>18. ChunksFlow'
  <2>1. ASSUME NEW t \in 1 .. n PROVE Sent(t)' /\ Flows(t)'
    <3>1. CASE t = s
      BY <1>8, <1>22, <3>1 DEF Sent, Flows
    <3>2. CASE t # s
      <4>1. Sent(t) /\ Flows(t) /\ session'[t] = session[t]
        BY <1>19, <1>23, <3>2
      <4> QED BY <1>8, <1>21, <3>2, <4>1 DEF Sent, Flows
    <3> QED BY <3>1, <3>2
  <2> QED BY <1>24, <2>1, FlowParts
<1> QED BY <1>7, <1>9, <1>10, <1>13, <1>14, <1>15, <1>16, <1>17, <1>18 DEF Inv
-----------------------------------------------------------------------------
\* A server that was just constructed.
LEMMA InitInv == Init => Inv
<1> SUFFICES ASSUME Init PROVE Inv
  OBVIOUS
<1>19. /\ sessions_ = {} /\ session = <<>> /\ queue = <<>> /\ inProgress = {Accept} /\ packets = 0
      /\ DOMAIN session = {} /\ DOMAIN queue = {} /\ user.at = "idle"
  BY DEF Init
<1>20. Flight = {Accept}
  BY <1>19 DEF Flight
<1>21. TypeOK /\ Once
  BY <1>19 DEF TypeOK, Once, Accept, Op, Rests
<1>22. Flight \subseteq Ops
  BY <1>20 DEF Ops
<1>23. MapMatchesReports /\ OwnAddress /\ WritesHaveChunks /\ ChunksFlow
  BY <1>19 DEF MapMatchesReports, Unreported, OwnAddress, WritesHaveChunks, ChunksFlow
<1>24. Entering /\ Reporting
  BY <1>19 DEF Entering, Reporting
<1> QED BY <1>21, <1>22, <1>23, <1>24 DEF Inv

\* The server, or the process, has ended.
LEMMA DestroyedKeepsInv ==
  ASSUME Inv, NEW how \in {"undefined", "thrown", "stopped"}, Destroyed(how)
  PROVE  Inv'
<1>1. /\ sessions_' = {} /\ session' = <<>> /\ queue' = <<>> /\ inProgress' = {}
      /\ DOMAIN session' = {} /\ DOMAIN queue' = {} /\ packets' = packets
      /\ user'.at # "report"
  BY DEF Destroyed, counters
<1>2. Flight' = {}
  BY <1>1 DEF Flight
<1>3. TypeOK' /\ Once'
  BY <1>1 DEF Inv, TypeOK, Once
<1>4. MapMatchesReports' /\ OwnAddress' /\ WritesHaveChunks' /\ ChunksFlow'
  BY <1>1 DEF MapMatchesReports, Unreported, OwnAddress, WritesHaveChunks, ChunksFlow
<1>5. Entering' /\ Reporting'
  BY <1>1 DEF Entering, Reporting
<1> QED BY <1>2, <1>3, <1>4, <1>5 DEF Inv

\* The handler at the front is one of an operation in flight.
LEMMA FrontIsInFlight ==
  ASSUME Inv, queue # <<>>
  PROVE  /\ Head(queue) \in Handler /\ OpOf(Head(queue)) \in Flight
         /\ Head(queue).do = "accept" => OpOf(Head(queue)) = Accept
         /\ Head(queue).do # "accept" => Head(queue).of \in DOMAIN session
<1>1. 1 \in DOMAIN queue /\ queue[1] = Head(queue) /\ Head(queue) \in Handler
  BY DEF Inv, TypeOK
<1>2. OpOf(Head(queue)) \in Flight
  BY <1>1 DEF Flight
<1>3. Head(queue).do \in {"accept"} \cup Whats
  BY <1>1 DEF Handler
<1>4. ASSUME Head(queue).do # "accept" PROVE Head(queue).of \in DOMAIN session
  BY <1>2, <1>3, <1>4, OpsOf DEF Inv, OpOf
<1>5. ASSUME Head(queue).do = "accept" PROVE OpOf(Head(queue)) = Accept
  <2>1. OpOf(Head(queue)) \in Ops
    BY <1>2 DEF Inv
  <2>2. \A what \in Whats : \A s : OpOf(Head(queue)) # Op(what, s)
    BY <1>5, OpsDiffer DEF OpOf, Whats, Rests
  <2> QED BY <2>1, <2>2 DEF Ops
<1> QED BY <1>1, <1>2, <1>4, <1>5

\* The handler of a failed read or write: its session is erased.
LEMMA FailedKeepsInv ==
  ASSUME Inv, queue # <<>>, Head(queue).do \in {"read", "write"},
         Fails(Head(queue).of, Tail(queue)), UNCHANGED <<user, packets>>
  PROVE  Inv'
<1> SUFFICES ASSUME NEW s, s = Head(queue).of PROVE Inv'
  OBVIOUS
<1> DEFINE op == OpOf(Head(queue))
<1>1. s \in DOMAIN session /\ op \in Flight /\ op \in {Op("read", s), Op("write", s)}
  BY FrontIsInFlight DEF OpOf
<1>2. leave(s) /\ session' = session /\ Continue({}, <<Then("report", s)>> \o Tail(queue))
  BY DEF Fails
<1>3. s \in Nat /\ "report" \in Rests /\ Head(queue).do \notin Rests
  BY <1>1 DEF Inv, TypeOK, Rests
<1>4. /\ Once' /\ queue' \in Seq(Handler)
      /\ Flight' = (Flight \ {op}) \cup {Op("report", s)}
  BY <1>2, <1>3, BeginFlight DEF Inv
<1> HIDE DEF op
<1>5. Alive(s) /\ Op("emplace", s) \notin Flight
  <2>1. Alive(s)
    BY <1>1, AliveParts DEF Whats
  <2>2. ~Fresh(s)
    BY <1>1 DEF Fresh
  <2> QED BY <1>1, <2>1, <2>2 DEF Inv, Entering
<1>6. \A t : Leaving(t)' <=> Leaving(t)
  BY DEF Leaving
<1>7. \A t : \A what \in Rests : Op(what, t) \in Flight => Op(what, t) \in Flight'
  BY <1>1, <1>4, OpsDiffer DEF Rests
<1>8. Changing(s)' /\ \A t \in DOMAIN session : Changing(t) => Changing(t)'
  BY <1>4, <1>6, <1>7, AliveParts DEF Rests
<1>9. \A t \in DOMAIN session : t # s /\ Op("write", t) \in Flight => Op("write", t) \in Flight'
  BY <1>1, <1>4, OpsDiffer
<1>10. user'.at = "report" => user'.of \in DOMAIN session /\ user'.next.at # "report"
  BY DEF Inv, Reporting
<1>11. Flight' \subseteq Flight \cup {Op("report", s)}
  BY <1>4
<1> QED BY <1>1, <1>2, <1>4, <1>5, <1>6, <1>8, <1>9, <1>10, <1>11, LeaveKeepsInv

\* The end of a handler that has failed: its session is reported.
LEMMA ReportedKeepsInv ==
  ASSUME Inv, queue # <<>>, Head(queue).do = "report",
         report(Head(queue).of), Continue({}, Tail(queue)), UNCHANGED <<user, packets>>
  PROVE  Inv'
<1> DEFINE s == Head(queue).of
<1>1. s \in DOMAIN session /\ OpOf(Head(queue)) = Op("report", s) /\ Op("report", s) \in Flight
  BY FrontIsInFlight DEF OpOf
<1> HIDE DEF s
<1>2. Once' /\ queue' \in Seq(Handler) /\ Flight' = Flight \ {Op("report", s)}
  <2>1. {} \cap (Flight \ {OpOf(Head(queue))}) = {} /\ \A y \in {} : y.do \notin Rests
    OBVIOUS
  <2>2. /\ Once' /\ queue' \in Seq(Handler)
        /\ Flight' = (Flight \ {OpOf(Head(queue))}) \cup {}
    BY <2>1, RunFlight DEF Inv
  <2> QED BY <1>1, <2>2
<1>3. s \notin sessions_ /\ Op("emplace", s) \notin Flight
  <2>1. ~Fresh(s)
    BY <1>1 DEF Fresh
  <2> QED BY <1>1, <2>1 DEF Inv, Entering, Reporting
<1>4. \A t : Leaving(t)' <=> Leaving(t)
  BY DEF Leaving
<1>5. \A t \in DOMAIN session : t # s /\ Changing(t) => Changing(t)'
  <2>1. \A t : t # s => \A what : Op(what, t) \in Flight => Op(what, t) \in Flight'
    BY <1>2, OpsDiffer
  <2> QED BY <1>4, <2>1, AliveParts
<1>6. \A t \in DOMAIN session : Op("write", t) \in Flight => Op("write", t) \in Flight'
  BY <1>2, OpsDiffer
<1>7. user'.at = "report" => user'.next.at # "report"
  BY DEF Inv, Reporting
<1>8. report(s) /\ Flight' \subseteq Flight
  BY <1>2 DEF s
<1> QED BY <1>1, <1>2, <1>3, <1>4, <1>5, <1>6, <1>7, <1>8, ReportKeepsInv

\* Whatever the runner runs.
LEMMA RunKeepsInv ==
  ASSUME Inv, Run
  PROVE  Inv'
<1> DEFINE next == Head(queue)
           rest == Tail(queue)
           s == next.of
<1>1. queue # <<>> /\ packets' = packets /\ user' = user
  BY DEF Run, counters
<1>2. /\ next \in Handler /\ OpOf(next) \in Flight
      /\ next.do = "accept" => OpOf(next) = Accept
      /\ next.do # "accept" => s \in DOMAIN session
      /\ OpOf(next) = Op(next.do, s)
      /\ next.ok \in BOOLEAN /\ next.chunk \in Nat
  BY <1>1, FrontIsInFlight DEF Handler, OpOf
<1>3. CASE next.do = "accept" /\ handle_accept(next.ok, rest)
  <2>1. CASE Continue({Accept}, rest) /\ UNCHANGED <<sessions_, session>>
    <3>1. {Accept} \cap (Flight \ {OpOf(next)}) = {} /\ \A y \in {Accept} : y.do \notin Rests
      BY <1>2, <1>3 DEF Accept, Op, Rests
    <3>2. Once' /\ queue' \in Seq(Handler) /\ Flight' = (Flight \ {OpOf(next)}) \cup {Accept}
      BY <1>1, <2>1, <3>1, RunFlight DEF Inv
    <3>3. Flight' = Flight
      BY <1>2, <1>3, <3>2
    <3> QED BY <1>1, <2>1, <3>2, <3>3, StillKeepsInv DEF Inv, TypeOK, SameChunks, UserStays
  <2>2. CASE /\ \E id \in FreeAddress : session' = Append(session, NewSession(id))
             /\ Continue({}, <<Then("emplace", Len(session) + 1)>> \o rest)
             /\ UNCHANGED sessions_
    BY <1>1, <1>2, <1>3, <2>2, AcceptKeepsInv
  <2> QED BY <1>3, <2>1, <2>2 DEF handle_accept
<1>4. CASE next.do = "read" /\ handle_read(s, next.ok, next.chunk, rest)
  <2>1. CASE Fails(s, rest)
    BY <1>1, <1>4, <2>1, FailedKeepsInv
  <2>2. CASE /\ \E targets \in {write_to(s), write_to_all, write_to_all_except(s)} :
                  /\ session' = [t \in DOMAIN session |->
                                   IF t \in targets THEN write(t, next.chunk) ELSE session[t]]
                  /\ Continue({Op("write", t) : t \in {u \in targets : StartsWrite(u)}}
                                \cup {Op("read", s)}, rest)
             /\ UNCHANGED sessions_
    <3>1. PICK targets \in {write_to(s), write_to_all, write_to_all_except(s)} :
            /\ session' = [t \in DOMAIN session |->
                             IF t \in targets THEN write(t, next.chunk) ELSE session[t]]
            /\ Continue({Op("write", t) : t \in {u \in targets : StartsWrite(u)}}
                          \cup {Op("read", s)}, rest)
      BY <2>2
    <3>2. targets \in SUBSET sessions_
      BY <3>1 DEF write_to, write_to_all, write_to_all_except, Under
    <3> QED BY <1>1, <1>2, <1>4, <2>2, <3>1, <3>2, AnswerKeepsInv
  <2> QED BY <1>4, <2>1, <2>2 DEF handle_read
<1>5. CASE next.do = "write" /\ handle_write(s, next.ok, rest)
  <2>1. CASE Fails(s, rest)
    BY <1>1, <1>5, <2>1, FailedKeepsInv
  <2>2. CASE handle_write(s, TRUE, rest)
    BY <1>1, <1>2, <1>5, <2>2, SentKeepsInv
  <2> QED BY <1>5, <2>1, <2>2 DEF handle_write
<1>6. CASE next.do = "emplace" /\ emplace(s, rest)
  BY <1>1, <1>2, <1>6, EmplaceKeepsInv
<1>7. CASE next.do = "report" /\ report(s) /\ Continue({}, rest)
  BY <1>1, <1>7, ReportedKeepsInv
<1> QED BY <1>3, <1>4, <1>5, <1>6, <1>7 DEF Run

\* close in the user's thread, between any two steps of the runner.
LEMMA CloseKeepsInv ==
  ASSUME Inv, close \/ close_session \/ close_leave \/ close_report \/ stop
  PROVE  Inv'
<1>1. ASSUME UNCHANGED <<inProgress, queue>> PROVE Flight' = Flight /\ Once' /\ queue' \in Seq(Handler)
  BY <1>1 DEF Flight, Once, Inv, TypeOK
<1>2. CASE close
  <2>1. UserStays
    BY <1>2 DEF close, Visit, UserStays
  <2> QED BY <1>1, <1>2, <2>1, StillKeepsInv DEF close, asioVars, Inv, TypeOK, SameChunks
<1>3. ASSUME NEW how \in {"undefined", "thrown", "stopped"}, Destroyed(how) PROVE Inv'
  BY <1>3, DestroyedKeepsInv
<1>4. CASE close_session
  <2>1. CASE /\ user.iter \in sessions_
             /\ session' = [session EXCEPT ![user.iter].socket_ = "shut"]
             /\ user' = Visit("leave", user.iter, user.old)
             /\ UNCHANGED <<sessions_, asioVars, counters>>
    <3> DEFINE s == user.iter
    <3>1. s \in DOMAIN session
      BY <2>1 DEF Inv, TypeOK
    <3> HIDE DEF s
    <3>2. /\ session' \in Seq(Session) /\ DOMAIN session' = DOMAIN session
          /\ \A t \in DOMAIN session : SameChunks(t) /\ session'[t].left = session[t].left
      BY <2>1, <3>1, SocketSessions DEF Inv, s
    <3>3. UserStays
      BY <1>4, <2>1 DEF close_session, Visit, UserStays
    <3> QED BY <1>1, <2>1, <3>2, <3>3, StillKeepsInv DEF asioVars, counters, Inv, TypeOK
  <2> QED BY <1>3, <1>4, <2>1 DEF close_session
<1>5. CASE close_leave
  <2>1. CASE /\ user.iter \in sessions_ /\ leave(user.iter)
             /\ \E next : /\ user' = [at |-> "report", of |-> user.iter, next |-> next]
                          /\ next.at # "report"
             /\ UNCHANGED <<session, asioVars, counters>>
    <3> SUFFICES ASSUME NEW s, s = user.iter PROVE Inv'
      OBVIOUS
    <3>1. s \in DOMAIN session /\ s \in sessions_ /\ leave(s) /\ session' = session
      BY <2>1 DEF Inv, TypeOK
    <3>2. Flight' = Flight /\ Once' /\ queue' \in Seq(Handler) /\ packets' = packets
      BY <1>1, <2>1 DEF asioVars, counters
    <3>3. user.at # "report" /\ user'.at = "report" /\ user'.of = s /\ user'.next.at # "report"
      BY <1>5, <2>1 DEF close_leave
    <3>4. Leaving(s)' /\ \A t : ~Leaving(t) /\ (Leaving(t)' => t = s)
      BY <3>3 DEF Leaving
    <3>5. Alive(s) /\ Op("emplace", s) \notin Flight
      BY <3>1, AliveParts DEF Inv, Entering, Fresh
    <3>6. Changing(s)' /\ \A t \in DOMAIN session : Changing(t) => Changing(t)'
      BY <3>2, <3>4, AliveParts
    <3> QED BY <3>1, <3>2, <3>3, <3>4, <3>5, <3>6, LeaveKeepsInv
  <2>2. \A next \in {Visit("shutdown", s, user.old) : s \in sessions_ \ {user.iter}} \cup {[at |-> "idle"]} :
          next.at # "report"
    BY DEF Visit
  <2> QED BY <1>3, <1>5, <2>1, <2>2 DEF close_leave
<1>6. CASE close_report
  <2> DEFINE s == user.of
  <2>1. /\ user.at = "report" /\ report(s) /\ user' = user.next
        /\ s \in DOMAIN session /\ s \notin sessions_ /\ user'.at # "report"
    BY <1>6 DEF close_report, Inv, Reporting
  <2>2. Flight' = Flight /\ Once' /\ queue' \in Seq(Handler) /\ packets' = packets
    BY <1>1, <1>6 DEF close_report, asioVars, counters
  <2>3. Leaving(s) /\ \A t : ~Leaving(t)' /\ (Leaving(t) => t = s)
    BY <2>1 DEF Leaving
  <2> HIDE DEF s
  <2>4. Op("emplace", s) \notin Flight
    BY <2>1, <2>3 DEF Inv, Entering, Fresh
  <2>5. \A t \in DOMAIN session : t # s /\ Changing(t) => Changing(t)'
    BY <2>2, <2>3, AliveParts
  <2> QED BY <2>1, <2>2, <2>3, <2>4, <2>5, ReportKeepsInv
<1>7. CASE stop
  BY <1>3, <1>7 DEF stop
<1> QED BY <1>2, <1>4, <1>5, <1>6, <1>7

\* An operation completes, in success or failure.
LEMMA CompleteKeepsInv ==
  ASSUME Inv, NEW what \in {"accept", "read", "write"}, NEW s \in Nat,
         NEW ok \in BOOLEAN, NEW chunk \in Nat, Complete(Op(what, s), ok, chunk),
         packets' \in Nat
  PROVE  Inv'
<1>1. Op(what, s) = OpOf(Op(what, s)) /\ Op(what, s).do = what /\ Op(what, s).of = s
  BY DEF OpOf, Op
<1>2. Once' /\ Flight' = Flight /\ queue' \in Seq(Handler)
  BY <1>1, CompleteFlight DEF Inv
<1>3. UNCHANGED <<sessions_, session, user>>
  BY DEF Complete
<1> QED BY <1>2, <1>3, StillKeepsInv DEF Inv, TypeOK, SameChunks, UserStays

\* Every step of the runner, the user, the peers and the network.
LEMMA NextKeepsInv == Inv /\ [Next]_vars => Inv'
<1> SUFFICES ASSUME Inv, [Next]_vars PROVE Inv'
  OBVIOUS
<1>1. packets \in Nat /\ packets + 1 \in Nat /\ DOMAIN session \subseteq Nat /\ 0 \in Nat
  BY DEF Inv, TypeOK
<1>2. ASSUME UNCHANGED asioVars PROVE Flight' = Flight /\ Once' /\ queue' \in Seq(Handler)
  BY <1>2 DEF Flight, Once, Inv, TypeOK, asioVars
<1>3. CASE UNCHANGED vars
  <2>1. UNCHANGED <<sessions_, session, user, packets>> /\ UNCHANGED asioVars
    BY <1>3 DEF vars, counters
  <2> QED BY <1>2, <2>1, StillKeepsInv DEF Inv, TypeOK, SameChunks, UserStays
<1>4. CASE Run
  BY <1>4, RunKeepsInv
<1>5. CASE close \/ close_session \/ close_leave \/ close_report \/ stop
  BY <1>5, CloseKeepsInv
<1>6. CASE Connect
  BY <1>1, <1>6, CompleteKeepsInv DEF Connect, Accept
<1>7. CASE AcceptFails
  BY <1>1, <1>7, CompleteKeepsInv DEF AcceptFails, Accept
<1>8. ASSUME NEW s \in DOMAIN session, Receive(s) PROVE Inv'
  BY <1>1, <1>8, CompleteKeepsInv DEF Receive
<1>9. ASSUME NEW s \in DOMAIN session, Send(s) PROVE Inv'
  BY <1>1, <1>9, CompleteKeepsInv DEF Send
<1>10. ASSUME NEW s \in DOMAIN session, NEW what \in {"read", "write"}, Fail(s, what) PROVE Inv'
  BY <1>1, <1>10, CompleteKeepsInv DEF Fail
<1>11. ASSUME NEW s \in DOMAIN session, Lose(s) PROVE Inv'
  <2>1. /\ session' \in Seq(Session) /\ DOMAIN session' = DOMAIN session
        /\ \A t \in DOMAIN session : SameChunks(t) /\ session'[t].left = session[t].left
    BY <1>11, SocketSessions DEF Inv, Lose
  <2>2. UNCHANGED <<sessions_, packets>> /\ UNCHANGED asioVars /\ UserStays
    BY <1>11 DEF Lose, UserStays
  <2> QED BY <1>1, <1>2, <2>1, <2>2, StillKeepsInv
<1> QED BY <1>3, <1>4, <1>5, <1>6, <1>7, <1>8, <1>9, <1>10, <1>11 DEF Next

\* All that follows rests on the inductive invariant.
THEOREM Invariance == Spec => []Inv
<1>1. Init => Inv
  BY InitInv
<1>2. Inv /\ [Next]_vars => Inv'
  BY NextKeepsInv
<1> QED BY <1>1, <1>2, PTL DEF Spec

\* The sessions of the map and those the application believes to be connected
\* are the same but for those a thread is just putting in or taking out.
THEOREM MapAlwaysMatches == Spec => []MapMatchesReports
<1>1. Inv => MapMatchesReports
  BY DEF Inv
<1> QED BY <1>1, Invariance, PTL

\* Looking up and erasing by address never meets a newer session at the
\* address of one that a handler or close still has a share of.
THEOREM LateHandlersAreHarmless == Spec => []LateHandlersMeetOwnSession
<1>1. Inv => LateHandlersMeetOwnSession
  <2> SUFFICES ASSUME Inv, NEW s \in DOMAIN session, Held(s)
               PROVE  Under(session[s].id) \subseteq {s}
    BY DEF LateHandlersMeetOwnSession
  <2>1. Alive(s) /\ \A t \in sessions_ : Alive(t)
    BY DEF Alive
  <2> QED BY <2>1 DEF Inv, TypeOK, OwnAddress, Under
<1> QED BY <1>1, Invariance, PTL

\* What a session was told to write is sent in order and without loss, and a
\* chunk that waits in a session of the map is about to be written.
THEOREM ChunksAlwaysFlow == Spec => []ChunksFlow
<1>1. Inv => ChunksFlow
  BY DEF Inv
<1> QED BY <1>1, Invariance, PTL
=============================================================================
