--------------------------- MODULE AsioLinkProofs ---------------------------
(***************************************************************************)
(* What the proofs about net::tcp::Client and net::serial::Serial share:    *)
(* how many operations and handlers of each kind a step leaves in flight,   *)
(* and what it does to the chunks on their way.                             *)
(***************************************************************************)
EXTENDS AsioLink, FiniteSetTheorems, TLAPS

\* The number of handlers or functions of a kind in a queue.
Count(s, what) == Cardinality({i \in DOMAIN s : s[i].do = what})

\* Queued counts in the queue of the link.
LEMMA QueuedIsCount ==
  ASSUME NEW what
  PROVE  Queued(what) = Count(queue, what)
BY DEF Queued, Count

\* What is counted is finite.
LEMMA CountType ==
  ASSUME NEW S, NEW s \in Seq(S), NEW what
  PROVE  /\ IsFiniteSet({i \in DOMAIN s : s[i].do = what})
         /\ Count(s, what) \in Nat
<1>1. DOMAIN s = 1 .. Len(s) /\ Len(s) \in Nat
  OBVIOUS
<1>2. IsFiniteSet(1 .. Len(s))
  BY <1>1, FS_Interval
<1>3. IsFiniteSet({i \in DOMAIN s : s[i].do = what})
  BY <1>1, <1>2, FS_Subset
<1> QED BY <1>3, FS_CardinalityType DEF Count

\* Counting in two queues, one behind the other.
LEMMA CountConcat ==
  ASSUME NEW S, NEW s \in Seq(S), NEW t \in Seq(S), NEW what
  PROVE  Count(s \o t, what) = Count(s, what) + Count(t, what)
<1> DEFINE A == {i \in DOMAIN s : s[i].do = what}
           B == {i \in DOMAIN t : t[i].do = what}
           C == {i \in DOMAIN (s \o t) : (s \o t)[i].do = what}
           D == {i \in C : i > Len(s)}
           f == [i \in B |-> i + Len(s)]
<1>1. /\ Len(s) \in Nat /\ Len(t) \in Nat /\ Len(s \o t) = Len(s) + Len(t)
      /\ DOMAIN s = 1 .. Len(s) /\ DOMAIN t = 1 .. Len(t)
      /\ DOMAIN (s \o t) = 1 .. Len(s) + Len(t)
      /\ \A i \in 1 .. Len(s) : (s \o t)[i] = s[i]
      /\ \A i \in 1 .. Len(t) : (s \o t)[i + Len(s)] = t[i]
  OBVIOUS
<1>2. f \in Bijection(B, D)
  <2>1. \A i \in B : f[i] \in D
    BY <1>1
  <2>2. \A d \in D : \E i \in B : f[i] = d
    <3> TAKE d \in D
    <3>1. d - Len(s) \in 1 .. Len(t) /\ (d - Len(s)) + Len(s) = d
      BY <1>1
    <3>2. d - Len(s) \in B
      BY <1>1, <3>1
    <3> QED BY <3>1, <3>2
  <2>3. \A i, j \in B : f[i] = f[j] => i = j
    BY <1>1
  <2> QED BY <2>1, <2>2, <2>3 DEF Bijection, Injection, Surjection, IsInjective
<1>3. C = A \cup D /\ A \cap D = {}
  BY <1>1
<1>4. /\ IsFiniteSet(A) /\ IsFiniteSet(B)
      /\ Cardinality(A) = Count(s, what) /\ Cardinality(B) = Count(t, what)
      /\ Cardinality(C) = Count(s \o t, what)
      /\ Cardinality(A) \in Nat /\ Cardinality(B) \in Nat
  BY CountType DEF Count
<1> HIDE DEF A, B, C, D, f
<1>5. IsFiniteSet(D) /\ Cardinality(D) = Cardinality(B)
  BY <1>2, <1>4, FS_Bijection DEF ExistsBijection
<1>6. Cardinality(C) = Cardinality(A) + Cardinality(D) - Cardinality({})
  BY <1>3, <1>4, <1>5, FS_Union
<1> QED BY <1>4, <1>5, <1>6, FS_EmptySet

\* A queue of one.
LEMMA CountOne ==
  ASSUME NEW x, NEW what
  PROVE  Count(<<x>>, what) = IF x.do = what THEN 1 ELSE 0
<1>1. DOMAIN <<x>> = {1} /\ <<x>>[1] = x
  OBVIOUS
<1>2. {i \in DOMAIN <<x>> : <<x>>[i].do = what} = IF x.do = what THEN {1} ELSE {}
  BY <1>1
<1> QED BY <1>2, FS_Singleton, FS_EmptySet DEF Count

\* Handlers are queued at the back and run from the front.
LEMMA CountAppend ==
  ASSUME NEW S, NEW s \in Seq(S), NEW x \in S, NEW what
  PROVE  Count(Append(s, x), what) = Count(s, what) + IF x.do = what THEN 1 ELSE 0
<1>1. Append(s, x) = s \o <<x>> /\ <<x>> \in Seq(S)
  OBVIOUS
<1>2. Count(s \o <<x>>, what) = Count(s, what) + Count(<<x>>, what)
  BY <1>1, CountConcat
<1> QED BY <1>1, <1>2, CountOne

\* Running the first handler takes it out of the count.
LEMMA CountTail ==
  ASSUME NEW S, NEW s \in Seq(S), s # <<>>, NEW what
  PROVE  Count(s, what) = Count(Tail(s), what) + IF Head(s).do = what THEN 1 ELSE 0
<1>1. s = <<Head(s)>> \o Tail(s) /\ <<Head(s)>> \in Seq(S) /\ Tail(s) \in Seq(S)
  OBVIOUS
<1>2. Count(<<Head(s)>> \o Tail(s), what) = Count(<<Head(s)>>, what) + Count(Tail(s), what)
  BY <1>1, CountConcat
<1>3. Count(Tail(s), what) \in Nat
  BY <1>1, CountType
<1>4. Count(s, what) = Count(<<Head(s)>>, what) + Count(Tail(s), what)
  BY <1>1, <1>2
<1>5. Count(<<Head(s)>>, what) = IF Head(s).do = what THEN 1 ELSE 0
  BY CountOne
<1> DEFINE a == Count(s, what)
           b == Count(<<Head(s)>>, what)
           c == Count(Tail(s), what)
<1>6. a = b + c /\ c \in Nat /\ b \in {0, 1}
  BY <1>3, <1>4, <1>5
<1> HIDE DEF a, b, c
<1>7. a = c + b
  BY <1>6
<1> QED BY <1>5, <1>7 DEF a, b, c

\* A function on an initial segment of the natural numbers is a sequence.
LEMMA IsASeq ==
  ASSUME NEW S, NEW n \in Nat, NEW s \in [1 .. n -> S]
  PROVE  s \in Seq(S)
OBVIOUS

\* A queue that holds nothing but handlers of one kind.
LEMMA CountAll ==
  ASSUME NEW n \in Nat, NEW s, NEW what,
         DOMAIN s = 1 .. n, \A i \in 1 .. n : s[i].do = what
  PROVE  Count(s, what) = n
<1>1. {i \in DOMAIN s : s[i].do = what} = 1 .. n
  OBVIOUS
<1>2. Cardinality(1 .. n) = n
  BY FS_Interval
<1> QED BY <1>1, <1>2 DEF Count

\* A queue that holds none of a kind.
LEMMA CountNone ==
  ASSUME NEW s, NEW what, \A i \in DOMAIN s : s[i].do # what
  PROVE  Count(s, what) = 0
<1>1. {i \in DOMAIN s : s[i].do = what} = {}
  OBVIOUS
<1> QED BY <1>1, FS_EmptySet DEF Count
-----------------------------------------------------------------------------
Item ==
  [do : Kind, ok : BOOLEAN] \cup [do : {"enqueue"}, chunk : Nat]
    \cup [do : {"shutdown", "open", "close"}]

LinkTypes ==
  /\ sending_messages_ \in Seq(Nat) /\ sent \in Seq(Nat)
  /\ inProgress \in [Kind -> Nat]
  /\ queue \in Seq(Item)
  /\ accepted \in Nat

\* Counting is done with natural numbers.
LEMMA InFlightType ==
  ASSUME LinkTypes, NEW what
  PROVE  /\ Queued(what) \in Nat
         /\ what \in Kind => inProgress[what] \in Nat /\ InFlight(what) \in Nat
<1>1. Queued(what) \in Nat
  BY CountType, QueuedIsCount DEF LinkTypes
<1> QED BY <1>1 DEF InFlight, LinkTypes

\* What is aborted turns from operations into handlers.
LEMMA AbortedFact ==
  ASSUME LinkTypes
  PROVE  /\ Aborted \in Seq(Item)
         /\ \A kind \in Kind : Count(Aborted, kind) = inProgress[kind]
         /\ \A what : what \notin Kind => Count(Aborted, what) = 0
         /\ \A i \in DOMAIN Aborted : Aborted[i].do # "enqueue"
<1> DEFINE Of(kind) == [i \in 1 .. inProgress[kind] |-> Done(kind, FALSE)]
<1>1. inProgress["read"] \in Nat /\ inProgress["connect"] \in Nat /\ inProgress["write"] \in Nat
  BY DEF LinkTypes, Kind
<1>2. ASSUME NEW kind \in Kind
      PROVE  /\ Of(kind) \in Seq(Item)
             /\ DOMAIN Of(kind) = 1 .. inProgress[kind]
             /\ \A i \in 1 .. inProgress[kind] : Of(kind)[i].do = kind
             /\ \A what : Count(Of(kind), what) = IF kind = what THEN inProgress[kind] ELSE 0
  <2>1. Done(kind, FALSE) \in Item /\ Done(kind, FALSE).do = kind /\ inProgress[kind] \in Nat
    BY DEF Done, Item, LinkTypes
  <2>2. Of(kind) \in [1 .. inProgress[kind] -> Item]
    BY <2>1
  <2>3. Of(kind) \in Seq(Item)
    BY <2>1, <2>2, IsASeq
  <2>4. /\ DOMAIN Of(kind) = 1 .. inProgress[kind]
        /\ \A i \in 1 .. inProgress[kind] : Of(kind)[i].do = kind
    BY <2>1
  <2> HIDE DEF Of
  <2>5. ASSUME NEW what
        PROVE  Count(Of(kind), what) = IF kind = what THEN inProgress[kind] ELSE 0
    <3> DEFINE n == inProgress[kind]
               t == Of(kind)
    <3>1. n \in Nat /\ DOMAIN t = 1 .. n /\ \A i \in 1 .. n : t[i].do = kind
      BY <2>1, <2>4
    <3> HIDE DEF n, t
    <3>2. CASE kind = what
      <4>1. Count(t, kind) = n
        BY <3>1, CountAll
      <4> QED BY <3>2, <4>1 DEF n, t
    <3>3. CASE kind # what
      <4>1. \A i \in DOMAIN t : t[i].do # what
        BY <3>1, <3>3
      <4>2. Count(t, what) = 0
        BY <4>1, CountNone
      <4> QED BY <3>3, <4>2 DEF t
    <3> QED BY <3>2, <3>3
  <2> QED BY <2>3, <2>4, <2>5
<1>3. /\ Of("read") \in Seq(Item) /\ Of("connect") \in Seq(Item) /\ Of("write") \in Seq(Item)
      /\ \A i \in DOMAIN Of("read") : Of("read")[i].do # "enqueue"
      /\ \A i \in DOMAIN Of("connect") : Of("connect")[i].do # "enqueue"
      /\ \A i \in DOMAIN Of("write") : Of("write")[i].do # "enqueue"
  <2> HIDE DEF Of
  <2> QED BY <1>2 DEF Kind
<1>4. ASSUME NEW what
      PROVE  /\ Count(Of("read"), what) = IF "read" = what THEN inProgress["read"] ELSE 0
             /\ Count(Of("connect"), what) = IF "connect" = what THEN inProgress["connect"] ELSE 0
             /\ Count(Of("write"), what) = IF "write" = what THEN inProgress["write"] ELSE 0
  <2> HIDE DEF Of
  <2> QED BY <1>2 DEF Kind
<1>5. Aborted = (Of("read") \o Of("connect")) \o Of("write")
  BY DEF Aborted
<1> HIDE DEF Of
<1>6. Of("read") \o Of("connect") \in Seq(Item) /\ Aborted \in Seq(Item)
  BY <1>3, <1>5
<1>7. ASSUME NEW what
      PROVE  Count(Aborted, what) =
               (Count(Of("read"), what) + Count(Of("connect"), what)) + Count(Of("write"), what)
  <2>1. Count(Of("read") \o Of("connect"), what) = Count(Of("read"), what) + Count(Of("connect"), what)
    BY <1>3, CountConcat
  <2>2. Count(Aborted, what) = Count(Of("read") \o Of("connect"), what) + Count(Of("write"), what)
    BY <1>3, <1>5, <1>6, CountConcat
  <2> QED BY <2>1, <2>2
<1>8. \A kind \in Kind : Count(Aborted, kind) = inProgress[kind]
  <2>1. Count(Aborted, "read") = inProgress["read"]
    BY <1>1, <1>4, <1>7
  <2>2. Count(Aborted, "connect") = inProgress["connect"]
    BY <1>1, <1>4, <1>7
  <2>3. Count(Aborted, "write") = inProgress["write"]
    BY <1>1, <1>4, <1>7
  <2> QED BY <2>1, <2>2, <2>3 DEF Kind
<1>9. \A what : what \notin Kind => Count(Aborted, what) = 0
  <2> SUFFICES ASSUME NEW what, what \notin Kind PROVE Count(Aborted, what) = 0
    OBVIOUS
  <2>1. what # "read" /\ what # "connect" /\ what # "write"
    BY DEF Kind
  <2>2. Count(Of("read"), what) = 0 /\ Count(Of("connect"), what) = 0 /\ Count(Of("write"), what) = 0
    BY <1>4, <2>1
  <2> QED BY <1>7, <2>2
<1>10. \A i \in DOMAIN Aborted : Aborted[i].do # "enqueue"
  BY <1>3, <1>5
<1> QED BY <1>6, <1>8, <1>9, <1>10

\* A handler is taken from the front and leaves others at the back.
LEMMA RunCounts ==
  ASSUME LinkTypes, queue # <<>>, NEW extra \in Seq(Item), NEW what,
         queue' = Tail(queue) \o extra
  PROVE  /\ Queued(what)' \in Nat
         /\ Queued(what) = Queued(what)' - Count(extra, what)
                             + IF Head(queue).do = what THEN 1 ELSE 0
<1>1. queue \in Seq(Item) /\ Tail(queue) \in Seq(Item)
  BY DEF LinkTypes
<1>2. /\ Queued(what) = Count(queue, what)
      /\ Queued(what)' = Count(Tail(queue) \o extra, what)
  BY DEF Queued, Count
<1>3. Count(queue, what) = Count(Tail(queue), what) + IF Head(queue).do = what THEN 1 ELSE 0
  BY <1>1, CountTail
<1>4. Count(Tail(queue) \o extra, what) = Count(Tail(queue), what) + Count(extra, what)
  BY <1>1, CountConcat
<1>5. Count(Tail(queue), what) \in Nat /\ Count(extra, what) \in Nat
  BY <1>1, CountType
<1> DEFINE a == Count(Tail(queue), what)
           b == Count(extra, what)
           h == IF Head(queue).do = what THEN 1 ELSE 0
<1>6. Queued(what) = a + h /\ Queued(what)' = a + b /\ a \in Nat /\ b \in Nat /\ h \in Nat
  BY <1>2, <1>3, <1>4, <1>5
<1> HIDE DEF a, b, h
<1>7. Queued(what) = Queued(what)' - b + h /\ Queued(what)' \in Nat
  BY <1>6
<1> QED BY <1>7 DEF b, h

\* Something is queued at the back.
LEMMA AppendCounts ==
  ASSUME LinkTypes, NEW x \in Item, NEW what, queue' = Append(queue, x)
  PROVE  Queued(what)' = Queued(what) + IF x.do = what THEN 1 ELSE 0
<1>1. Count(Append(queue, x), what) = Count(queue, what) + IF x.do = what THEN 1 ELSE 0
  BY CountAppend DEF LinkTypes
<1> QED BY <1>1 DEF Queued, Count

\* An operation that completes stays in flight.
LEMMA CompleteCounts ==
  ASSUME LinkTypes, NEW kind \in Kind, NEW ok \in BOOLEAN, Complete(kind, ok)
  PROVE  /\ LinkTypes'
         /\ \A k \in Kind : InFlight(k)' = InFlight(k)
         /\ \A what : what \notin Kind => Queued(what)' = Queued(what)
<1>1. /\ Done(kind, ok) \in Item /\ Done(kind, ok).do = kind
      /\ queue' = Append(queue, Done(kind, ok))
      /\ inProgress' = [inProgress EXCEPT ![kind] = @ - 1]
      /\ inProgress[kind] > 0 /\ inProgress \in [Kind -> Nat]
  BY DEF Complete, Done, Item, LinkTypes
<1>2. LinkTypes'
  <2>1. inProgress' \in [Kind -> Nat]
    BY <1>1
  <2>2. queue' \in Seq(Item)
    <3> HIDE DEF Item
    <3> QED BY <1>1 DEF LinkTypes
  <2> QED BY <2>1, <2>2 DEF Complete, LinkTypes, linkVars, userVars
<1>3. ASSUME NEW k \in Kind PROVE InFlight(k)' = InFlight(k)
  <2>1. Queued(k)' = Queued(k) + IF kind = k THEN 1 ELSE 0
    BY <1>1, AppendCounts
  <2>2. inProgress'[k] = inProgress[k] - (IF kind = k THEN 1 ELSE 0) /\ inProgress[k] \in Nat
    BY <1>1
  <2>3. Queued(k) \in Nat
    BY InFlightType
  <2> DEFINE h == IF kind = k THEN 1 ELSE 0
  <2>4. h \in {0, 1}
    OBVIOUS
  <2> HIDE DEF h
  <2>5. inProgress'[k] + Queued(k)' = inProgress[k] + Queued(k)
    BY <2>1, <2>2, <2>3, <2>4 DEF h
  <2> QED BY <2>5 DEF InFlight
<1>4. ASSUME NEW what, what \notin Kind PROVE Queued(what)' = Queued(what)
  <2>1. Queued(what)' = Queued(what) + IF kind = what THEN 1 ELSE 0
    BY <1>1, AppendCounts
  <2> QED BY <1>4, <2>1, InFlightType
<1> QED BY <1>2, <1>3, <1>4
-----------------------------------------------------------------------------
Taken == sent \o sending_messages_

PostedIn(q) == {i \in DOMAIN q : q[i].do = "enqueue"}

\* ChunksInOrder with its abbreviations named.
LEMMA ChunksParts ==
  ChunksInOrder <=>
    /\ Len(Taken) <= accepted /\ \A k \in DOMAIN Taken : Taken[k] = k
    /\ {queue[i].chunk : i \in PostedIn(queue)} = Len(Taken) + 1 .. accepted
    /\ \A i, j \in PostedIn(queue) : i < j => queue[i].chunk < queue[j].chunk
BY DEF ChunksInOrder, Taken, PostedIn

\* The same for the state after a step.
LEMMA ChunksPartsNext ==
  ChunksInOrder' <=>
    /\ Len(Taken') <= accepted' /\ \A k \in DOMAIN Taken' : Taken'[k] = k
    /\ {queue'[i].chunk : i \in PostedIn(queue')} = Len(Taken') + 1 .. accepted'
    /\ \A i, j \in PostedIn(queue') : i < j => queue'[i].chunk < queue'[j].chunk
BY DEF ChunksInOrder, Taken, PostedIn

\* Running or queueing handlers leaves the chunks in order, as long as what
\* is taken from the front and put at the back are not posted chunks.
LEMMA ChunksKept ==
  ASSUME LinkTypes, ChunksInOrder, NEW d \in {0, 1}, d <= Len(queue),
         d = 1 => queue[1].do # "enqueue",
         NEW extra \in Seq(Item), \A i \in DOMAIN extra : extra[i].do # "enqueue",
         queue' = (IF d = 1 THEN Tail(queue) ELSE queue) \o extra,
         accepted' = accepted, Taken' = Taken
  PROVE  ChunksInOrder'
<1> DEFINE n == Len(queue) - d
<1>1. /\ n \in Nat /\ DOMAIN queue = 1 .. n + d
      /\ \A i \in 1 .. n : i \in DOMAIN queue' /\ queue'[i] = queue[i + d]
      /\ \A i \in DOMAIN queue' : i \notin 1 .. n => queue'[i].do # "enqueue"
      /\ \A i \in DOMAIN queue' : i \in Nat
  <2>1. queue \in Seq(Item)
    BY DEF LinkTypes
  <2>2. CASE d = 0
    BY <2>1, <2>2
  <2>3. CASE d = 1
    BY <2>1, <2>3
  <2> QED BY <2>2, <2>3
<1> HIDE DEF n
<1>2. \A i \in PostedIn(queue') : i \in 1 .. n /\ i + d \in PostedIn(queue) /\ queue'[i] = queue[i + d]
  BY <1>1 DEF PostedIn
<1>3. \A j \in PostedIn(queue) : j - d \in PostedIn(queue') /\ queue'[j - d] = queue[j]
  <2> TAKE j \in PostedIn(queue)
  <2>1. j - d \in 1 .. n /\ (j - d) + d = j
    <3>1. j \in 1 .. n + d /\ queue[j].do = "enqueue"
      BY <1>1 DEF PostedIn
    <3>2. CASE d = 0
      BY <1>1, <3>1, <3>2
    <3>3. CASE d = 1
      BY <1>1, <3>1, <3>3
    <3> QED BY <3>2, <3>3
  <2> QED BY <1>1, <2>1 DEF PostedIn
<1>4. {queue'[i].chunk : i \in PostedIn(queue')} = {queue[i].chunk : i \in PostedIn(queue)}
  <2>1. ASSUME NEW i \in PostedIn(queue')
        PROVE  queue'[i].chunk \in {queue[j].chunk : j \in PostedIn(queue)}
    BY <1>2
  <2>2. ASSUME NEW j \in PostedIn(queue)
        PROVE  queue[j].chunk \in {queue'[i].chunk : i \in PostedIn(queue')}
    BY <1>3
  <2> DEFINE A == {queue'[i].chunk : i \in PostedIn(queue')}
             B == {queue[i].chunk : i \in PostedIn(queue)}
  <2>3. \A a \in A : a \in B
    BY <2>1, Zenon
  <2>4. \A b \in B : b \in A
    BY <2>2, Zenon
  <2> HIDE DEF A, B
  <2>5. A = B
    BY <2>3, <2>4
  <2> QED BY <2>5 DEF A, B
<1>5. \A i, j \in PostedIn(queue') : i < j => queue'[i].chunk < queue'[j].chunk
  <2> SUFFICES ASSUME NEW i \in PostedIn(queue'), NEW j \in PostedIn(queue'), i < j
               PROVE  queue'[i].chunk < queue'[j].chunk
    OBVIOUS
  <2>1. i \in 1 .. n /\ j \in 1 .. n /\ i + d < j + d
    BY <1>1, <1>2
  <2> QED BY <1>2, <2>1, ChunksParts
<1> QED BY <1>4, <1>5, ChunksParts, ChunksPartsNext

\* The two cases: something is queued, and a handler runs.
LEMMA ChunksKeptBehind ==
  ASSUME LinkTypes, ChunksInOrder, NEW x \in Item, x.do # "enqueue",
         queue' = Append(queue, x), accepted' = accepted, Taken' = Taken
  PROVE  ChunksInOrder'
<1> DEFINE d == 0
           extra == <<x>>
<1>1. /\ extra \in Seq(Item) /\ d \in {0, 1} /\ d <= Len(queue) /\ d # 1
      /\ \A i \in DOMAIN extra : extra[i].do # "enqueue"
      /\ queue' = (IF d = 1 THEN Tail(queue) ELSE queue) \o extra
  BY DEF LinkTypes
<1> HIDE DEF d, extra
<1> QED BY <1>1, ChunksKept

\* Chunks stay in order when a handler that enqueues none is run.
LEMMA ChunksKeptRunning ==
  ASSUME LinkTypes, ChunksInOrder, queue # <<>>, Head(queue).do # "enqueue",
         NEW extra \in Seq(Item), \A i \in DOMAIN extra : extra[i].do # "enqueue",
         queue' = Tail(queue) \o extra, accepted' = accepted, Taken' = Taken
  PROVE  ChunksInOrder'
<1> DEFINE d == 1
<1>1. /\ d \in {0, 1} /\ d <= Len(queue) /\ queue[1].do # "enqueue"
      /\ queue' = (IF d = 1 THEN Tail(queue) ELSE queue) \o extra
  BY DEF LinkTypes
<1> HIDE DEF d
<1> QED BY <1>1, ChunksKept

\* write posts the next chunk, behind all that are posted.
LEMMA PostWriteChunks ==
  ASSUME LinkTypes, ChunksInOrder, PostWrite
  PROVE  LinkTypes' /\ ChunksInOrder' /\ \A what : what # "enqueue" => Queued(what)' = Queued(what)
<1> DEFINE x == [do |-> "enqueue", chunk |-> accepted + 1]
           n == Len(queue)
<1>1. /\ queue' = Append(queue, x) /\ accepted' = accepted + 1 /\ x \in Item
      /\ queue \in Seq(Item) /\ accepted \in Nat
      /\ x.do = "enqueue" /\ x.chunk = accepted + 1
      /\ UNCHANGED <<sent, sending_messages_, inProgress>>
  BY DEF PostWrite, LinkTypes, Item, linkVars
<1> HIDE DEF x
<1>2. LinkTypes'
  BY <1>1 DEF LinkTypes
<1>3. ASSUME NEW what, what # "enqueue" PROVE Queued(what)' = Queued(what)
  <2>1. Queued(what)' = Queued(what) + IF x.do = what THEN 1 ELSE 0
    BY <1>1, AppendCounts
  <2> QED BY <1>1, <1>3, <2>1, InFlightType
<1>4. /\ n \in Nat /\ DOMAIN queue = 1 .. n /\ DOMAIN queue' = 1 .. n + 1
      /\ \A i \in 1 .. n : queue'[i] = queue[i]
      /\ queue'[n + 1] = x
  BY <1>1
<1> HIDE DEF n
<1>5. /\ PostedIn(queue') = PostedIn(queue) \cup {n + 1}
      /\ \A i \in PostedIn(queue) : i \in 1 .. n /\ queue'[i] = queue[i]
  BY <1>1, <1>4 DEF PostedIn
<1>6. Taken' = Taken /\ Len(Taken) \in Nat
  BY <1>1 DEF Taken, LinkTypes
<1>7. Len(Taken) <= accepted
  BY ChunksParts
<1>8. {queue'[i].chunk : i \in PostedIn(queue')} = Len(Taken) + 1 .. accepted + 1
  <2>1. {queue'[i].chunk : i \in PostedIn(queue')} = {queue[i].chunk : i \in PostedIn(queue)} \cup {accepted + 1}
    BY <1>1, <1>4, <1>5
  <2>2. (Len(Taken) + 1 .. accepted) \cup {accepted + 1} = Len(Taken) + 1 .. accepted + 1
    BY <1>1, <1>6, <1>7
  <2> QED BY <2>1, <2>2, ChunksParts
<1>9. \A i, j \in PostedIn(queue') : i < j => queue'[i].chunk < queue'[j].chunk
  <2> SUFFICES ASSUME NEW i \in PostedIn(queue'), NEW j \in PostedIn(queue'), i < j
               PROVE  queue'[i].chunk < queue'[j].chunk
    OBVIOUS
  <2>1. i \in PostedIn(queue)
    BY <1>4, <1>5
  <2>2. CASE j = n + 1
    <3>1. queue[i].chunk \in Len(Taken) + 1 .. accepted
      BY <2>1, ChunksParts
    <3>2. queue[i].chunk < accepted + 1
      BY <1>1, <1>6, <3>1
    <3>3. queue'[i] = queue[i] /\ queue'[j] = x
      BY <1>4, <1>5, <2>1, <2>2
    <3>4. queue'[i].chunk = queue[i].chunk /\ queue'[j].chunk = accepted + 1
      BY <1>1, <3>3
    <3> QED BY <3>2, <3>4, Zenon
  <2>3. CASE j # n + 1
    <3>1. j \in PostedIn(queue)
      BY <1>5, <2>3
    <3>2. queue[i].chunk < queue[j].chunk
      BY <2>1, <3>1, ChunksParts
    <3>3. queue'[i] = queue[i] /\ queue'[j] = queue[j]
      BY <1>5, <2>1, <3>1
    <3> QED BY <3>2, <3>3
  <2> QED BY <2>2, <2>3
<1>10. Len(Taken) <= accepted + 1
  BY <1>1, <1>6, <1>7
<1> QED BY <1>1, <1>2, <1>3, <1>6, <1>8, <1>9, <1>10, ChunksParts, ChunksPartsNext

\* The posted chunk that is run is the next one.
LEMMA EnqueueChunks ==
  ASSUME LinkTypes, ChunksInOrder, queue # <<>>, Head(queue).do = "enqueue",
         Enqueue(Head(queue).chunk, Tail(queue)), accepted' = accepted
  PROVE  LinkTypes' /\ ChunksInOrder'
<1> DEFINE x == Head(queue)
           n == Len(queue)
           l == Len(Taken)
<1>1. /\ queue \in Seq(Item) /\ n \in Nat \ {0} /\ queue[1] = x /\ x \in Item
      /\ queue' = Tail(queue) /\ DOMAIN queue = 1 .. n /\ DOMAIN queue' = 1 .. n - 1
      /\ \A i \in 1 .. n - 1 : queue'[i] = queue[i + 1]
      /\ queue' \in Seq(Item)
  BY DEF LinkTypes, Enqueue, Continue
<1>2. x.chunk \in Nat
  BY <1>1 DEF Item, Kind
<1>3. /\ sending_messages_' = Append(sending_messages_, x.chunk) /\ sent' = sent
      /\ sending_messages_ \in Seq(Nat) /\ sent \in Seq(Nat)
  BY DEF Enqueue, LinkTypes
<1>3a. inProgress' \in [Kind -> Nat]
  <2>1. inProgress \in [Kind -> Nat] /\ "write" \in Kind
    BY DEF LinkTypes, Kind
  <2>2. inProgress' \in {inProgress, [inProgress EXCEPT !["write"] = @ + 1]}
    BY DEF Enqueue, Continue, do_write, Start
  <2> QED BY <2>1, <2>2
<1> HIDE DEF x, n
<1>4. LinkTypes'
  BY <1>1, <1>2, <1>3, <1>3a DEF LinkTypes
<1>5. /\ l \in Nat /\ Len(Taken') = l + 1 /\ DOMAIN Taken = 1 .. l /\ DOMAIN Taken' = 1 .. l + 1
      /\ Taken'[l + 1] = x.chunk /\ \A i \in 1 .. l : Taken'[i] = Taken[i]
  BY <1>2, <1>3 DEF Taken
<1> HIDE DEF l
<1>6. /\ 1 \in PostedIn(queue)
      /\ \A i \in PostedIn(queue) : i \in 1 .. n
      /\ \A i \in PostedIn(queue') : i + 1 \in PostedIn(queue) /\ queue'[i] = queue[i + 1] /\ i \in 1 .. n - 1
      /\ \A i \in PostedIn(queue) : i # 1 => i - 1 \in PostedIn(queue') /\ queue'[i - 1] = queue[i]
  <2>1. 1 \in PostedIn(queue) /\ \A i \in PostedIn(queue) : i \in 1 .. n
    BY <1>1 DEF PostedIn, x
  <2>2. ASSUME NEW i \in PostedIn(queue')
        PROVE  i + 1 \in PostedIn(queue) /\ queue'[i] = queue[i + 1] /\ i \in 1 .. n - 1
    BY <1>1 DEF PostedIn
  <2>3. ASSUME NEW i \in PostedIn(queue), i # 1
        PROVE  i - 1 \in PostedIn(queue') /\ queue'[i - 1] = queue[i]
    <3>1. i - 1 \in 1 .. n - 1 /\ (i - 1) + 1 = i
      BY <1>1, <2>1, <2>3
    <3> QED BY <1>1, <3>1 DEF PostedIn
  <2> QED BY <2>1, <2>2, <2>3
<1>7. /\ {queue[i].chunk : i \in PostedIn(queue)} = l + 1 .. accepted
      /\ \A i, j \in PostedIn(queue) : i < j => queue[i].chunk < queue[j].chunk
      /\ \A k \in DOMAIN Taken : Taken[k] = k
      /\ accepted \in Nat
  BY ChunksParts DEF l, LinkTypes
<1>8. \A i \in PostedIn(queue) : queue[i].chunk \in l + 1 .. accepted
  BY <1>7
<1>9. x.chunk = l + 1
  <2>1. l + 1 \in l + 1 .. accepted
    BY <1>1, <1>5, <1>6, <1>7, <1>8
  <2>2. PICK i \in PostedIn(queue) : queue[i].chunk = l + 1
    BY <1>7, <2>1
  <2>3. CASE i = 1
    BY <1>1, <2>2, <2>3
  <2>4. CASE i # 1
    <3>1. 1 < i
      BY <1>1, <1>6, <2>4
    <3>2. x.chunk < l + 1 /\ x.chunk \in l + 1 .. accepted
      BY <1>1, <1>6, <1>7, <1>8, <2>2, <3>1
    <3> QED BY <1>5, <1>7, <3>2
  <2> QED BY <2>3, <2>4
<1>10. {queue'[i].chunk : i \in PostedIn(queue')} = l + 2 .. accepted
  <2>1. ASSUME NEW i \in PostedIn(queue') PROVE queue'[i].chunk \in l + 2 .. accepted
    <3>1. 1 < i + 1
      BY <1>1, <1>6
    <3>2. l + 1 < queue[i + 1].chunk /\ queue[i + 1].chunk \in l + 1 .. accepted
      BY <1>1, <1>6, <1>7, <1>8, <1>9, <3>1
    <3> QED BY <1>5, <1>6, <1>7, <3>2
  <2>2. ASSUME NEW c \in l + 2 .. accepted PROVE \E i \in PostedIn(queue') : queue'[i].chunk = c
    <3>1. c \in l + 1 .. accepted /\ c # l + 1
      BY <1>5, <1>7
    <3>2. PICK j \in PostedIn(queue) : queue[j].chunk = c
      BY <1>7, <3>1
    <3>3. j # 1
      BY <1>1, <1>9, <3>1, <3>2
    <3> QED BY <1>6, <3>2, <3>3
  <2> QED BY <2>1, <2>2
<1>11. \A i, j \in PostedIn(queue') : i < j => queue'[i].chunk < queue'[j].chunk
  <2> SUFFICES ASSUME NEW i \in PostedIn(queue'), NEW j \in PostedIn(queue'), i < j
               PROVE  queue'[i].chunk < queue'[j].chunk
    OBVIOUS
  <2>1. i + 1 < j + 1
    BY <1>1, <1>6
  <2> QED BY <1>6, <1>7, <2>1
<1>12. \A k \in DOMAIN Taken' : Taken'[k] = k
  BY <1>5, <1>7, <1>9
<1>13. (l + 1) + 1 = l + 2 /\ l + 1 <= accepted
  BY <1>1, <1>5, <1>6, <1>7, <1>8
<1> QED BY <1>4, <1>5, <1>10, <1>11, <1>12, <1>13, ChunksPartsNext

\* What is in the middle may be counted with either side.
Assoc(r, s, t) == (r \o s) \o t = r \o (s \o t)

\* Concatenation is associative.
LEMMA ConcatAssoc ==
  ASSUME NEW S, NEW r \in Seq(S), NEW s \in Seq(S), NEW t \in Seq(S)
  PROVE  Assoc(r, s, t)
BY DEF Assoc

\* A chunk that was written is still one that was taken.
LEMMA WriteNextTaken ==
  ASSUME LinkTypes, sending_messages_ # <<>>, NEW rest, WriteNext(rest)
  PROVE  /\ Taken' = Taken
         /\ sending_messages_' \in Seq(Nat) /\ sent' \in Seq(Nat)
<1>1. /\ sending_messages_ \in Seq(Nat) /\ sent \in Seq(Nat)
      /\ sending_messages_' = Tail(sending_messages_)
      /\ sent' = Append(sent, Head(sending_messages_))
  BY DEF LinkTypes, WriteNext
<1>2. sending_messages_ = <<Head(sending_messages_)>> \o Tail(sending_messages_)
  BY <1>1
<1>3. sent' = sent \o <<Head(sending_messages_)>>
  BY <1>1
<1>4. /\ Head(sending_messages_) \in Nat /\ Tail(sending_messages_) \in Seq(Nat)
      /\ <<Head(sending_messages_)>> \in Seq(Nat)
  BY <1>1
<1>5. Assoc(sent, <<Head(sending_messages_)>>, Tail(sending_messages_))
  BY <1>1, <1>4, ConcatAssoc
<1>6. sent' \o sending_messages_' = sent \o sending_messages_
  BY <1>1, <1>2, <1>3, <1>5, Zenon DEF Assoc
<1>7. sent' \in Seq(Nat)
  BY <1>1, <1>4
<1> QED BY <1>1, <1>4, <1>6, <1>7, Zenon DEF Taken
-----------------------------------------------------------------------------
\* What client and serial port have in common of their inductive invariants.
LinkInv == LinkTypes /\ OneWriteAtATime /\ ChunksInOrder

\* Is the handler that runs of this kind?
Hit(what) == IF Head(queue).do = what THEN 1 ELSE 0

\* A step that leaves everything in flight as it was.
SameFlight ==
  /\ \A kind \in Kind : InFlight(kind)' = InFlight(kind)
  /\ Queued("open")' = Queued("open")

\* Counting is done with natural numbers, also after the step.
LEMMA InFlightTypeNext ==
  ASSUME LinkTypes', NEW kind \in Kind
  PROVE  InFlight(kind)' \in Nat
<1>1. Count(queue', kind) \in Nat
  BY CountType DEF LinkTypes
<1>2. Queued(kind)' = Count(queue', kind)
  BY DEF Queued, Count
<1>3. inProgress'[kind] \in Nat
  BY DEF LinkTypes
<1> QED BY <1>1, <1>2, <1>3 DEF InFlight

\* A handler starts operations and queues others: what that does to the
\* number in flight of one kind.
LEMMA ContinueCounts ==
  ASSUME LinkTypes, queue # <<>>, NEW started \in [Kind -> Nat], NEW extra \in Seq(Item),
         Continue(started, Tail(queue) \o extra), NEW kind \in Kind
  PROVE  /\ Count(extra, kind) \in Nat
         /\ InFlight(kind)' = InFlight(kind) - Hit(kind)
                                + (started[kind] + Count(extra, kind) - inProgress[kind])
<1> DEFINE a == Queued(kind)
           b == Queued(kind)'
           c == Count(extra, kind)
           h == Hit(kind)
           p == inProgress[kind]
           q == started[kind]
<1>1. queue' = Tail(queue) \o extra /\ inProgress' = started
  BY DEF Continue
<1>2. b \in Nat /\ a = b - c + h
  BY <1>1, RunCounts DEF Hit
<1>3. c \in Nat /\ p \in Nat /\ q \in Nat /\ h \in Nat
  BY CountType DEF LinkTypes, Hit
<1>4. InFlight(kind) = p + a /\ InFlight(kind)' = q + b
  BY <1>1 DEF InFlight
<1> HIDE DEF a, b, c, h, p, q
<1>5. q + b = (p + a) - h + (q + c - p)
  BY <1>2, <1>3
<1> QED BY <1>3, <1>4, <1>5 DEF c, h, p, q

\* A handler that starts nothing.
LEMMA GoOn ==
  ASSUME LinkTypes, queue # <<>>, Continue(inProgress, Tail(queue)), NEW kind \in Kind
  PROVE  InFlight(kind)' = InFlight(kind) - Hit(kind)
<1>1. Tail(queue) \o <<>> = Tail(queue) /\ <<>> \in Seq(Item) /\ inProgress \in [Kind -> Nat]
  BY DEF LinkTypes
<1>2. Count(<<>>, kind) = 0
  BY CountNone
<1>3. InFlight(kind)' = InFlight(kind) - Hit(kind) + (inProgress[kind] + 0 - inProgress[kind])
  BY <1>1, <1>2, ContinueCounts
<1>4. InFlight(kind) \in Nat /\ inProgress[kind] \in Nat /\ Hit(kind) \in Nat
  BY InFlightType DEF Hit
<1> QED BY <1>3, <1>4

\* A handler that starts one operation.
LEMMA GoOnWith ==
  ASSUME LinkTypes, queue # <<>>, NEW first \in Kind, Continue(Start(first), Tail(queue)),
         NEW kind \in Kind
  PROVE  InFlight(kind)' = InFlight(kind) - Hit(kind) + IF kind = first THEN 1 ELSE 0
<1> DEFINE d == IF kind = first THEN 1 ELSE 0
<1>1. Tail(queue) \o <<>> = Tail(queue) /\ <<>> \in Seq(Item) /\ Start(first) \in [Kind -> Nat]
  BY DEF LinkTypes, Start
<1>2. Count(<<>>, kind) = 0
  BY CountNone
<1>3. InFlight(kind)' = InFlight(kind) - Hit(kind) + (Start(first)[kind] + 0 - inProgress[kind])
  BY <1>1, <1>2, ContinueCounts
<1>4. InFlight(kind) \in Nat /\ inProgress[kind] \in Nat /\ Hit(kind) \in Nat
  BY InFlightType DEF Hit
<1>5. Start(first)[kind] = inProgress[kind] + d /\ d \in Nat
  BY DEF Start, LinkTypes
<1> HIDE DEF d
<1>6. InFlight(kind)' = InFlight(kind) - Hit(kind) + d
  BY <1>3, <1>4, <1>5
<1> QED BY <1>6 DEF d

\* A handler that aborts what is in progress and starts anew.
LEMMA GoOnAborting ==
  ASSUME LinkTypes, queue # <<>>, NEW started \in [Kind -> Nat], NEW extra \in Seq(Item),
         Continue(started, Tail(queue) \o extra), NEW kind \in Kind,
         Count(extra, kind) = inProgress[kind]
  PROVE  InFlight(kind)' = InFlight(kind) - Hit(kind) + started[kind]
<1>1. InFlight(kind)' = InFlight(kind) - Hit(kind) + (started[kind] + inProgress[kind] - inProgress[kind])
  BY ContinueCounts
<1>2. InFlight(kind) \in Nat /\ inProgress[kind] \in Nat /\ Hit(kind) \in Nat /\ started[kind] \in Nat
  BY InFlightType DEF Hit
<1> QED BY <1>1, <1>2

\* run returns only when nothing is in flight.
LEMMA FinishedIsIdle ==
  ASSUME NEW started, NEW rest, Continue(started, rest), runner' = "finished", NEW kind \in Kind
  PROVE  InFlight(kind)' = 0
<1>1. inProgress' = Idle /\ queue' = <<>>
  BY DEF Continue
<1>2. Queued(kind)' = Count(<<>>, kind)
  BY <1>1 DEF Queued, Count
<1>3. Count(<<>>, kind) = 0
  BY CountNone
<1> QED BY <1>1, <1>2, <1>3 DEF InFlight, Idle

\* Nothing of the link changes.
LEMMA StillKeeps ==
  ASSUME LinkInv, UNCHANGED <<sending_messages_, sent, inProgress, queue, accepted>>
  PROVE  LinkInv' /\ SameFlight
<1>1. LinkTypes' /\ OneWriteAtATime' /\ ChunksInOrder'
  BY DEF LinkInv, LinkTypes, OneWriteAtATime, ChunksInOrder, InFlight, Queued
<1>2. SameFlight
  BY DEF SameFlight, InFlight, Queued
<1> QED BY <1>1, <1>2 DEF LinkInv

\* write posts.
LEMMA PostWriteKeeps ==
  ASSUME LinkInv, PostWrite
  PROVE  LinkInv' /\ SameFlight
<1>1. LinkTypes' /\ ChunksInOrder' /\ \A what : what # "enqueue" => Queued(what)' = Queued(what)
  BY PostWriteChunks DEF LinkInv
<1>2. SameFlight
  BY <1>1 DEF SameFlight, InFlight, Kind, PostWrite
<1>3. InFlight("write")' = InFlight("write") /\ sending_messages_' = sending_messages_
  BY <1>2 DEF SameFlight, Kind, PostWrite, linkVars
<1>4. OneWriteAtATime'
  BY <1>3 DEF OneWriteAtATime, LinkInv
<1> QED BY <1>1, <1>2, <1>4 DEF LinkInv

\* close posts.
LEMMA PostCloseKeeps ==
  ASSUME LinkInv, NEW what \in {"shutdown", "close"}, PostClose(what)
  PROVE  LinkInv' /\ SameFlight
<1> DEFINE x == Post(what)
<1>1. /\ x \in Item /\ x.do = what /\ queue' = Append(queue, x) /\ queue \in Seq(Item)
      /\ UNCHANGED <<sending_messages_, sent, inProgress, accepted>>
  BY DEF PostClose, Post, Item, LinkInv, LinkTypes
<1> HIDE DEF x
<1>2. LinkTypes'
  BY <1>1 DEF LinkInv, LinkTypes
<1>3. ASSUME NEW w, w # what PROVE Queued(w)' = Queued(w)
  <2>1. Queued(w)' = Queued(w) + IF x.do = w THEN 1 ELSE 0
    BY <1>1, AppendCounts DEF LinkInv
  <2> QED BY <1>1, <1>3, <2>1, InFlightType DEF LinkInv
<1>4. SameFlight
  BY <1>1, <1>3 DEF SameFlight, InFlight, Kind
<1>5. InFlight("write")' = InFlight("write")
  BY <1>4 DEF SameFlight, Kind
<1>6. OneWriteAtATime'
  BY <1>1, <1>5 DEF OneWriteAtATime, LinkInv
<1>7. ChunksInOrder'
  <2>1. Taken' = Taken
    BY <1>1 DEF Taken
  <2> QED BY <1>1, <2>1, ChunksKeptBehind DEF LinkInv
<1> QED BY <1>2, <1>4, <1>6, <1>7 DEF LinkInv

\* An operation completes.
LEMMA CompleteKeeps ==
  ASSUME LinkInv, NEW kind \in Kind, NEW ok \in BOOLEAN, Complete(kind, ok)
  PROVE  LinkInv' /\ SameFlight
<1>1. LinkTypes' /\ SameFlight
  BY CompleteCounts DEF LinkInv, SameFlight, Kind
<1>2. /\ InFlight("write")' = InFlight("write")
      /\ UNCHANGED <<sending_messages_, sent, accepted>>
  BY <1>1 DEF SameFlight, Kind, Complete, linkVars, userVars
<1>3. OneWriteAtATime'
  BY <1>2 DEF OneWriteAtATime, LinkInv
<1>4. ChunksInOrder'
  <2> DEFINE x == Done(kind, ok)
  <2>1. x \in Item /\ x.do # "enqueue" /\ queue' = Append(queue, x) /\ queue \in Seq(Item)
    BY DEF Complete, Done, Item, Kind, LinkInv, LinkTypes
  <2> HIDE DEF x
  <2>2. Taken' = Taken
    BY <1>2 DEF Taken
  <2> QED BY <1>2, <2>1, <2>2, ChunksKeptBehind DEF LinkInv
<1> QED BY <1>1, <1>3, <1>4 DEF LinkInv

\* A handler runs that is not the one of a write that succeeded or of write's
\* post, and leaves no more writes in flight.
LEMMA OthersKeep ==
  ASSUME LinkInv, queue # <<>>, Head(queue).do # "enqueue",
         NEW started \in [Kind -> Nat], NEW extra \in Seq(Item),
         \A i \in DOMAIN extra : extra[i].do # "enqueue",
         Continue(started, Tail(queue) \o extra),
         UNCHANGED <<sending_messages_, sent, accepted>>,
         InFlight("write")' <= InFlight("write")
  PROVE  LinkInv'
<1>1. queue' = Tail(queue) \o extra /\ inProgress' = started
  BY DEF Continue
<1>2. LinkTypes'
  BY <1>1 DEF LinkInv, LinkTypes
<1>3. ChunksInOrder'
  BY <1>1, ChunksKeptRunning DEF LinkInv, Taken
<1>4. InFlight("write") \in Nat /\ InFlight("write")' \in Nat
  BY <1>2, InFlightType, InFlightTypeNext DEF LinkInv, Kind
<1>5. OneWriteAtATime'
  BY <1>4 DEF OneWriteAtATime, LinkInv
<1> QED BY <1>2, <1>3, <1>5 DEF LinkInv

\* The handler that runs is one of those that were queued.
LEMMA FrontCounts ==
  ASSUME LinkTypes, queue # <<>>, NEW what
  PROVE  /\ Count(Tail(queue), what) \in Nat
         /\ Queued(what) = Count(Tail(queue), what) + Hit(what)
<1>1. queue \in Seq(Item) /\ Tail(queue) \in Seq(Item)
  BY DEF LinkTypes
<1>2. Count(Tail(queue), what) \in Nat
  BY <1>1, CountType
<1>3. Count(queue, what) = Count(Tail(queue), what) + Hit(what)
  BY <1>1, CountTail DEF Hit
<1> QED BY <1>2, <1>3, QueuedIsCount

\* In particular one of its kind was in flight.
LEMMA HitInFlight ==
  ASSUME LinkTypes, queue # <<>>, NEW kind \in Kind
  PROVE  InFlight(kind) >= Hit(kind)
<1>1. /\ Count(Tail(queue), kind) \in Nat /\ Hit(kind) \in Nat
      /\ Queued(kind) = Count(Tail(queue), kind) + Hit(kind)
  BY FrontCounts DEF Hit
<1>2. inProgress[kind] \in Nat
  BY DEF LinkTypes
<1> QED BY <1>1, <1>2 DEF InFlight

\* The others stay queued.
LEMMA OpenStays ==
  ASSUME LinkTypes, queue # <<>>, Head(queue).do # "open", queue' = Tail(queue)
  PROVE  Queued("open")' = Queued("open")
<1>1. Queued("open")' = Count(Tail(queue), "open")
  BY DEF Queued, Count
<1>2. /\ Count(Tail(queue), "open") \in Nat
      /\ Queued("open") = Count(Tail(queue), "open") + Hit("open")
  BY FrontCounts
<1> QED BY <1>1, <1>2 DEF Hit

\* A write that succeeded is followed by the next one.
LEMMA WriteNextKeeps ==
  ASSUME LinkInv, queue # <<>>, Head(queue).do = "write", WriteNext(Tail(queue)),
         accepted' = accepted
  PROVE  /\ LinkInv'
         /\ InFlight("connect")' = InFlight("connect") /\ InFlight("read")' = InFlight("read")
         /\ Queued("open")' = Queued("open")
         /\ sending_messages_ # <<>> /\ InFlight("write") = 1
         /\ InFlight("write")' = IF sending_messages_' = <<>> THEN 0 ELSE 1
<1>1. /\ LinkTypes /\ {"write", "read", "connect"} \subseteq Kind
      /\ Hit("write") = 1 /\ Hit("read") = 0 /\ Hit("connect") = 0
  BY DEF LinkInv, Kind, Hit
<1>2. \A k \in Kind : InFlight(k) \in Nat /\ inProgress[k] \in Nat
  BY <1>1, InFlightType
<1>3. InFlight("write") = 1 /\ sending_messages_ # <<>>
  <2>1. Queued("write") >= 1
    <3>1. /\ Count(Tail(queue), "write") \in Nat
          /\ Queued("write") = Count(Tail(queue), "write") + Hit("write")
      BY <1>1, FrontCounts
    <3> QED BY <1>1, <3>1
  <2>2. Queued("write") \in Nat /\ inProgress["write"] \in Nat
    BY <1>1, InFlightType
  <2>3. InFlight("write") >= 1
    BY <2>1, <2>2 DEF InFlight
  <2> QED BY <1>1, <1>2, <2>3 DEF LinkInv, OneWriteAtATime
<1>4. /\ Taken' = Taken /\ sending_messages_' \in Seq(Nat) /\ sent' \in Seq(Nat)
      /\ sending_messages_' = Tail(sending_messages_)
  BY <1>1, <1>3, WriteNextTaken DEF WriteNext
<1>5. ASSUME sending_messages_' = <<>>
      PROVE  /\ InFlight("write")' = 0
             /\ InFlight("connect")' = InFlight("connect") /\ InFlight("read")' = InFlight("read")
  <2>1. Continue(inProgress, Tail(queue))
    BY <1>4, <1>5 DEF WriteNext
  <2>2. \A k \in Kind : InFlight(k)' = InFlight(k) - Hit(k)
    BY <1>1, <2>1, GoOn
  <2> QED BY <1>1, <1>2, <1>3, <2>2
<1>6. ASSUME sending_messages_' # <<>>
      PROVE  /\ InFlight("write")' = 1
             /\ InFlight("connect")' = InFlight("connect") /\ InFlight("read")' = InFlight("read")
  <2>1. Continue(Start("write"), Tail(queue))
    BY <1>4, <1>6 DEF WriteNext, do_write
  <2>2. \A k \in Kind : InFlight(k)' = InFlight(k) - Hit(k) + IF k = "write" THEN 1 ELSE 0
    BY <1>1, <2>1, GoOnWith
  <2> QED BY <1>1, <1>2, <1>3, <2>2
<1>7. /\ InFlight("write")' = IF sending_messages_' = <<>> THEN 0 ELSE 1
      /\ InFlight("connect")' = InFlight("connect") /\ InFlight("read")' = InFlight("read")
  BY <1>5, <1>6
<1>8. queue' = Tail(queue) /\ queue \in Seq(Item) /\ Tail(queue) = Tail(queue) \o <<>>
  BY <1>1 DEF WriteNext, Continue, LinkTypes
<1>9. LinkTypes'
  <2>1. inProgress \in [Kind -> Nat] /\ "write" \in Kind
    BY <1>1 DEF LinkTypes
  <2>2. inProgress' \in {inProgress, [inProgress EXCEPT !["write"] = @ + 1]}
    BY DEF WriteNext, Continue, do_write, Start
  <2>3. inProgress' \in [Kind -> Nat]
    BY <2>1, <2>2
  <2>4. queue' \in Seq(Item)
    BY <1>8
  <2> QED BY <1>1, <1>4, <2>3, <2>4 DEF LinkTypes
<1>10. ChunksInOrder'
  <2>1. <<>> \in Seq(Item) /\ Head(queue).do # "enqueue" /\ queue' = Tail(queue) \o <<>>
        /\ \A i \in DOMAIN <<>> : <<>>[i].do # "enqueue"
    BY <1>8
  <2> QED BY <1>1, <1>4, <2>1, ChunksKeptRunning DEF LinkInv
<1>11. OneWriteAtATime'
  BY <1>7 DEF OneWriteAtATime
<1>12. Queued("open")' = Queued("open")
  BY <1>1, <1>8, OpenStays
<1> QED BY <1>3, <1>7, <1>9, <1>10, <1>11, <1>12 DEF LinkInv

\* A chunk that is taken is written at once if no other is being written.
LEMMA EnqueueKeeps ==
  ASSUME LinkInv, queue # <<>>, Head(queue).do = "enqueue",
         Enqueue(Head(queue).chunk, Tail(queue)), accepted' = accepted
  PROVE  /\ LinkInv'
         /\ InFlight("connect")' = InFlight("connect") /\ InFlight("read")' = InFlight("read")
         /\ Queued("open")' = Queued("open")
         /\ sending_messages_' # <<>>
         /\ InFlight("write")' = InFlight("write") + IF sending_messages_ = <<>> THEN 1 ELSE 0
<1>1. /\ LinkTypes /\ {"write", "read", "connect"} \subseteq Kind
      /\ Hit("write") = 0 /\ Hit("read") = 0 /\ Hit("connect") = 0
  BY DEF LinkInv, Kind, Hit
<1>2. \A k \in Kind : InFlight(k) \in Nat
  BY <1>1, InFlightType
<1>3. LinkTypes' /\ ChunksInOrder'
  BY EnqueueChunks DEF LinkInv
<1>4. sending_messages_' # <<>>
  <2>1. sending_messages_ \in Seq(Nat) /\ sending_messages_' = Append(sending_messages_, Head(queue).chunk)
    BY <1>1 DEF LinkTypes, Enqueue
  <2> QED BY <2>1
<1>5. ASSUME sending_messages_ # <<>>
      PROVE  /\ InFlight("write")' = InFlight("write")
             /\ InFlight("connect")' = InFlight("connect") /\ InFlight("read")' = InFlight("read")
  <2>1. Continue(inProgress, Tail(queue))
    BY <1>5 DEF Enqueue
  <2>2. \A k \in Kind : InFlight(k)' = InFlight(k) - Hit(k)
    BY <1>1, <2>1, GoOn
  <2> QED BY <1>1, <1>2, <2>2
<1>6. ASSUME sending_messages_ = <<>>
      PROVE  /\ InFlight("write")' = InFlight("write") + 1
             /\ InFlight("connect")' = InFlight("connect") /\ InFlight("read")' = InFlight("read")
  <2>1. Continue(Start("write"), Tail(queue))
    BY <1>6 DEF Enqueue, do_write
  <2>2. \A k \in Kind : InFlight(k)' = InFlight(k) - Hit(k) + IF k = "write" THEN 1 ELSE 0
    BY <1>1, <2>1, GoOnWith
  <2> QED BY <1>1, <1>2, <2>2
<1>7. OneWriteAtATime'
  <2>1. InFlight("write")' <= 1
    BY <1>1, <1>2, <1>5, <1>6 DEF LinkInv, OneWriteAtATime
  <2> QED BY <1>4, <2>1 DEF OneWriteAtATime
<1>8. Queued("open")' = Queued("open")
  <2>1. queue' = Tail(queue) /\ queue \in Seq(Item)
    BY <1>1 DEF Enqueue, Continue, LinkTypes
  <2> QED BY <1>1, <2>1, OpenStays
<1>9. /\ InFlight("write")' = InFlight("write") + IF sending_messages_ = <<>> THEN 1 ELSE 0
      /\ InFlight("connect")' = InFlight("connect") /\ InFlight("read")' = InFlight("read")
  BY <1>1, <1>2, <1>5, <1>6
<1> QED BY <1>3, <1>4, <1>7, <1>8, <1>9 DEF LinkInv
=============================================================================
