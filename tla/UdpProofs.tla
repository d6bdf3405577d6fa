------------------------------ MODULE UdpProofs ------------------------------
(***************************************************************************)
(* Proofs about net::udp::Udp, for any remotes, any sizes of datagrams and  *)
(* any number of datagrams, sends and faults, on both platforms.            *)
(*                                                                          *)
(* That every datagram is handed over whole rests on the count of the loop  *)
(* of handle_read: what is available is always the size of some datagrams   *)
(* at the front, so that the buffer receive_from is given holds the next    *)
(* one.  The sums this is about are defined by recursion; what is needed of *)
(* them is proved by induction over sets of natural numbers.                *)
(***************************************************************************)
EXTENDS Udp, Integers, WellFoundedInduction, TLAPS

\* Induction up to n.
LEMMA UpToInduction ==
  ASSUME NEW n \in Nat, NEW T, 0 \in T, \A i \in 0 .. n - 1 : i \in T => i + 1 \in T
  PROVE  \A i \in 0 .. n : i \in T
<1> SUFFICES ASSUME NEW j \in 0 .. n, j \notin T PROVE FALSE
  OBVIOUS
<1> DEFINE B == {i \in 0 .. n : i \notin T}
<1>1. B \subseteq Nat /\ B # {}
  OBVIOUS
<1> HIDE DEF B
<1>2. PICK x \in B : \A y \in B : ~(<<y, x>> \in OpToRel(<, Nat))
  BY <1>1, WFMin, NatLessThanWellFounded
<1>3. \A y \in B : ~(y < x)
  BY <1>1, <1>2 DEF OpToRel
<1>4. x \in 0 .. n /\ x \notin T /\ x # 0
  BY DEF B
<1>5. x - 1 \in 0 .. n - 1 /\ (x - 1) + 1 = x /\ x - 1 < x
  BY <1>4
<1>6. x - 1 \notin B
  BY <1>3, <1>5
<1>7. x - 1 \in T
  BY <1>5, <1>6 DEF B
<1> QED BY <1>4, <1>5, <1>7

Datagram == [from : Remote, size : Nat]

\* The datagrams of a sequence have sizes.
LEMMA Sizes ==
  ASSUME NEW s \in Seq(Datagram)
  PROVE  /\ Len(s) \in Nat
         /\ \A i \in 1 .. Len(s) : s[i].size \in Nat
<1>1. \A x \in Datagram : x.size \in Nat
  BY DEF Datagram
<1>2. Len(s) \in Nat /\ \A i \in 1 .. Len(s) : s[i] \in Datagram
  OBVIOUS
<1> QED BY <1>1, <1>2

\* What the recursive definition says of f.
IsUpTo(f, s, n) ==
  f = [i \in 0 .. n |-> IF i = 0 THEN 0 ELSE f[i - 1] + s[i].size]

\* There is a function that satisfies it.
LEMMA UpToExists ==
  ASSUME NEW s \in Seq(Datagram)
  PROVE  \E f : IsUpTo(f, s, Len(s))
<1> DEFINE T == {k \in Nat : \E f : IsUpTo(f, s, k)}
<1>1. Len(s) \in Nat
  OBVIOUS
<1>2. 0 \in T
  <2> DEFINE f == [i \in 0 .. 0 |-> 0]
  <2>1. IsUpTo(f, s, 0)
    BY DEF IsUpTo
  <2> QED BY <2>1
<1>3. ASSUME NEW k \in 0 .. Len(s) - 1, k \in T PROVE k + 1 \in T
  <2>1. PICK f : IsUpTo(f, s, k)
    BY <1>3
  <2> DEFINE g == [i \in 0 .. k + 1 |-> IF i = k + 1 THEN f[k] + s[k + 1].size ELSE f[i]]
  <2>2. k \in Nat /\ k + 1 \in Nat
    BY <1>1
  <2>3. ASSUME NEW i \in 0 .. k + 1
        PROVE  g[i] = IF i = 0 THEN 0 ELSE g[i - 1] + s[i].size
    <3>1. CASE i = k + 1
      <4>1. i # 0 /\ i - 1 = k /\ k \in 0 .. k + 1 /\ k # k + 1
        BY <2>2, <3>1
      <4>2. g[k] = f[k] /\ g[i] = f[k] + s[k + 1].size
        BY <3>1, <4>1
      <4> QED BY <3>1, <4>1, <4>2
    <3>2. CASE i # k + 1
      <4>1. i \in 0 .. k /\ g[i] = f[i]
        BY <2>2, <3>2
      <4>2. f[i] = IF i = 0 THEN 0 ELSE f[i - 1] + s[i].size
        BY <2>1, <4>1 DEF IsUpTo
      <4>3. i # 0 => g[i - 1] = f[i - 1]
        BY <2>2, <4>1
      <4> QED BY <4>1, <4>2, <4>3
    <3> QED BY <3>1, <3>2
  <2>4. g = [i \in 0 .. k + 1 |-> g[i]]
    OBVIOUS
  <2> HIDE DEF g
  <2>5. g = [i \in 0 .. k + 1 |-> IF i = 0 THEN 0 ELSE g[i - 1] + s[i].size]
    BY <2>3, <2>4
  <2> QED BY <2>2, <2>5 DEF IsUpTo
<1> HIDE DEF T
<1>4. \A i \in 0 .. Len(s) : i \in T
  BY <1>1, <1>2, <1>3, UpToInduction
<1> QED BY <1>1, <1>4 DEF T

\* So the definition means what it says.
LEMMA UpToDef ==
  ASSUME NEW s \in Seq(Datagram)
  PROVE  IsUpTo(BytesUpTo(s), s, Len(s))
<1>1. BytesUpTo(s) = CHOOSE f : IsUpTo(f, s, Len(s))
  BY DEF BytesUpTo, IsUpTo
<1> QED BY <1>1, UpToExists, Zenon

\* Sums are natural numbers and go up by one datagram at a time.
LEMMA UpToFacts ==
  ASSUME NEW s \in Seq(Datagram)
  PROVE  /\ BytesUpTo(s)[0] = 0
         /\ \A i \in 1 .. Len(s) : BytesUpTo(s)[i] = BytesUpTo(s)[i - 1] + s[i].size
         /\ \A i \in 0 .. Len(s) : BytesUpTo(s)[i] \in Nat
<1> DEFINE f == BytesUpTo(s)
           n == Len(s)
<1>1. n \in Nat /\ \A i \in 1 .. n : s[i].size \in Nat
  BY Sizes
<1>2. f = [i \in 0 .. n |-> IF i = 0 THEN 0 ELSE f[i - 1] + s[i].size]
  BY UpToDef DEF IsUpTo
<1> HIDE DEF f, n
<1>3. f[0] = 0
  BY <1>1, <1>2
<1>4. \A i \in 1 .. n : f[i] = f[i - 1] + s[i].size
  BY <1>1, <1>2
<1> DEFINE T == {i \in 0 .. n : f[i] \in Nat}
<1>5. 0 \in T
  BY <1>1, <1>3
<1>6. ASSUME NEW i \in 0 .. n - 1, i \in T PROVE i + 1 \in T
  <2>1. i + 1 \in 1 .. n /\ (i + 1) - 1 = i
    BY <1>1
  <2>2. f[i + 1] = f[i] + s[i + 1].size
    BY <1>4, <2>1
  <2> QED BY <1>1, <1>6, <2>1, <2>2
<1> HIDE DEF T
<1>7. \A i \in 0 .. n : i \in T
  BY <1>1, <1>5, <1>6, UpToInduction
<1> QED BY <1>3, <1>4, <1>7 DEF T, f, n

\* Two sequences that agree have the same sums as far as they agree.
LEMMA UpToAppend ==
  ASSUME NEW s \in Seq(Datagram), NEW x \in Datagram
  PROVE  \A i \in 0 .. Len(s) : BytesUpTo(Append(s, x))[i] = BytesUpTo(s)[i]
<1> DEFINE t == Append(s, x)
           f == BytesUpTo(s)
           g == BytesUpTo(t)
           n == Len(s)
<1>1. n \in Nat /\ t \in Seq(Datagram) /\ Len(t) = n + 1 /\ \A i \in 1 .. n : t[i] = s[i]
  OBVIOUS
<1> HIDE DEF t
<1>2. /\ f[0] = 0 /\ g[0] = 0
      /\ \A i \in 1 .. n : f[i] = f[i - 1] + s[i].size
      /\ \A i \in 1 .. n + 1 : g[i] = g[i - 1] + t[i].size
  BY <1>1, UpToFacts
<1> HIDE DEF f, g, n
<1> DEFINE T == {i \in 0 .. n : g[i] = f[i]}
<1>3. 0 \in T
  BY <1>1, <1>2
<1>4. ASSUME NEW i \in 0 .. n - 1, i \in T PROVE i + 1 \in T
  <2>1. i + 1 \in 1 .. n /\ i + 1 \in 1 .. n + 1 /\ (i + 1) - 1 = i
    BY <1>1
  <2>2. f[i + 1] = f[i] + s[i + 1].size /\ g[i + 1] = g[i] + t[i + 1].size /\ t[i + 1] = s[i + 1]
    BY <1>1, <1>2, <2>1
  <2> QED BY <1>1, <1>4, <2>1, <2>2
<1> HIDE DEF T
<1>5. \A i \in 0 .. n : i \in T
  BY <1>1, <1>3, <1>4, UpToInduction
<1> QED BY <1>5 DEF T, f, g, n, t

\* The sums without the first datagram.
LEMMA UpToTail ==
  ASSUME NEW s \in Seq(Datagram), s # <<>>
  PROVE  \A i \in 0 .. Len(s) - 1 : BytesUpTo(s)[i + 1] = Head(s).size + BytesUpTo(Tail(s))[i]
<1> DEFINE t == Tail(s)
           f == BytesUpTo(s)
           g == BytesUpTo(t)
           n == Len(s)
           h == Head(s).size
<1>1. /\ n \in Nat \ {0} /\ t \in Seq(Datagram) /\ Len(t) = n - 1
      /\ \A i \in 1 .. n - 1 : t[i] = s[i + 1]
      /\ s[1] = Head(s) /\ Head(s) \in Datagram
  OBVIOUS
<1>2. h \in Nat /\ h = s[1].size /\ \A i \in 1 .. n : s[i].size \in Nat
  BY <1>1, Sizes
<1> HIDE DEF t, h
<1>3. /\ f[0] = 0 /\ g[0] = 0
      /\ \A i \in 1 .. n : f[i] = f[i - 1] + s[i].size
      /\ \A i \in 1 .. n - 1 : g[i] = g[i - 1] + t[i].size
      /\ \A i \in 0 .. n - 1 : g[i] \in Nat
  BY <1>1, UpToFacts
<1> HIDE DEF f, g, n
<1> DEFINE T == {i \in 0 .. n - 1 : f[i + 1] = h + g[i]}
<1>4. 0 \in T
  <2>1. f[1] = f[0] + s[1].size
    BY <1>1, <1>3
  <2> QED BY <1>1, <1>2, <1>3, <2>1
<1>5. ASSUME NEW i \in 0 .. (n - 1) - 1, i \in T PROVE i + 1 \in T
  <2>1. /\ i + 1 \in 1 .. n - 1 /\ (i + 1) - 1 = i
        /\ (i + 1) + 1 \in 1 .. n /\ ((i + 1) + 1) - 1 = i + 1
    BY <1>1
  <2>2. g[i + 1] = g[i] + t[i + 1].size /\ t[i + 1] = s[(i + 1) + 1]
    BY <1>1, <1>3, <2>1
  <2>3. f[(i + 1) + 1] = f[i + 1] + s[(i + 1) + 1].size
    BY <1>3, <2>1
  <2>4. g[i] \in Nat /\ s[(i + 1) + 1].size \in Nat /\ f[i + 1] = h + g[i]
    BY <1>2, <1>3, <1>5, <2>1
  <2>5. f[(i + 1) + 1] = h + g[i + 1]
    BY <1>2, <2>2, <2>3, <2>4
  <2> QED BY <1>1, <2>1, <2>5
<1> HIDE DEF T
<1>6. \A i \in 0 .. n - 1 : i \in T
  <2>1. n - 1 \in Nat
    BY <1>1
  <2> QED BY <1>4, <1>5, <2>1, UpToInduction
<1> QED BY <1>6 DEF T, f, g, n, t, h
-----------------------------------------------------------------------------
\* Handing over the first datagram that waits moves it from one side to the
\* other.
LEMMA Hand ==
  ASSUME NEW S, NEW s \in Seq(S), NEW t \in Seq(S), t # <<>>
  PROVE  Append(s, Head(t)) \o Tail(t) = s \o t
<1> DEFINE a == Append(s, Head(t)) \o Tail(t)
           b == s \o t
<1>1. /\ Len(s) \in Nat /\ Len(t) \in Nat \ {0}
      /\ Head(t) \in S /\ Head(t) = t[1] /\ Tail(t) \in Seq(S)
      /\ Len(Tail(t)) = Len(t) - 1
      /\ \A i \in 1 .. Len(t) - 1 : Tail(t)[i] = t[i + 1]
  OBVIOUS
<1>2. a \in Seq(S) /\ b \in Seq(S) /\ Len(a) = Len(s) + Len(t) /\ Len(b) = Len(s) + Len(t)
  BY <1>1
<1>3. ASSUME NEW i \in 1 .. Len(s) + Len(t) PROVE a[i] = b[i]
  <2>1. CASE i \in 1 .. Len(s)
    BY <1>1, <2>1
  <2>2. CASE i = Len(s) + 1
    BY <1>1, <2>2
  <2>3. CASE i > Len(s) + 1
    <3>1. /\ i - (Len(s) + 1) \in 1 .. Len(t) - 1
          /\ (i - (Len(s) + 1)) + 1 = i - Len(s) /\ ~(i <= Len(s))
      BY <1>1, <2>3
    <3>2. a[i] = Tail(t)[i - (Len(s) + 1)]
      BY <1>1, <2>3, <3>1
    <3>3. b[i] = t[i - Len(s)]
      BY <1>1, <2>3
    <3> QED BY <1>1, <3>1, <3>2, <3>3
  <2> QED BY <1>1, <2>1, <2>2, <2>3
<1> HIDE DEF a, b
<1>4. a = b
  BY <1>1, <1>2, <1>3
<1> QED BY <1>4 DEF a, b

\* A datagram arrives behind those that wait.
LEMMA Receive ==
  ASSUME NEW S, NEW s \in Seq(S), NEW t \in Seq(S), NEW x \in S
  PROVE  s \o Append(t, x) = Append(s \o t, x)
  OBVIOUS

\* One iteration of the loop: when the bytes still to read are those of the
\* first n datagrams, the first one fits, and what is left are the bytes of
\* the first n - 1 of the others.
LEMMA FirstFits ==
  ASSUME NEW s \in Seq(Datagram), NEW n \in 1 .. Len(s), NEW a \in Nat,
         a = BytesUpTo(s)[n]
  PROVE  /\ s # <<>> /\ Head(s) \in Datagram /\ Head(s).size \in Nat
         /\ Head(s).size <= a
         /\ a - Head(s).size \in Nat
         /\ a - Head(s).size = BytesUpTo(Tail(s))[n - 1]
         /\ a - Head(s).size > 0 => n - 1 \in 1 .. Len(Tail(s))
<1>1. /\ s # <<>> /\ Len(s) \in Nat /\ Head(s) \in Datagram /\ Tail(s) \in Seq(Datagram)
      /\ Len(Tail(s)) = Len(s) - 1 /\ Head(s) = s[1]
  OBVIOUS
<1>2. Head(s).size \in Nat
  BY <1>1 DEF Datagram
<1>3. n - 1 \in 0 .. Len(s) - 1 /\ (n - 1) + 1 = n
  BY <1>1
<1>4. a = Head(s).size + BytesUpTo(Tail(s))[n - 1]
  BY <1>1, <1>3, UpToTail
<1>5. BytesUpTo(Tail(s))[n - 1] \in Nat /\ BytesUpTo(Tail(s))[0] = 0
  BY <1>1, <1>3, UpToFacts
<1> QED BY <1>1, <1>2, <1>3, <1>4, <1>5
-----------------------------------------------------------------------------
\* The inductive invariant.  Between two reads sender_ep_ is reset: that is
\* why the error of a read names nobody.
Inv ==
  /\ arrived \in Seq(Datagram) /\ buffer \in Seq(Datagram) /\ handed \in Seq(Datagram)
  /\ available \in Nat
  /\ WholeInOrder
  /\ LoopStaysCounted
  /\ ErrorsNameTheirRemote
  /\ available = 0 /\ runner \in {"running", "stopping"} => sender_ep_ = Unspecified

\* The invariant holds at first.
LEMMA InitInv == Init => Inv
  BY DEF Init, Inv, WholeInOrder, LoopStaysCounted, ErrorsNameTheirRemote

\* The end of the object or of the process keeps it.
LEMMA DestroyedInv ==
  ASSUME NEW how \in {"stopped", "terminated"}, Destroyed(how)
  PROVE  Inv'
  BY DEF Destroyed, Inv, WholeInOrder, LoopStaysCounted, ErrorsNameTheirRemote

\* What does not touch the state of reading keeps it.
LEMMA OtherInv ==
  ASSUME Inv, UNCHANGED <<readVars, arrived, reported>>,
         runner' \in {"running", "stopping"} => runner \in {"running", "stopping"}
  PROVE  Inv'
  BY DEF Inv, readVars, WholeInOrder, LoopStaysCounted, ErrorsNameTheirRemote, Bytes

\* A datagram arrives: the sums of those at the front stay.
LEMMA ArriveInv ==
  ASSUME Inv, NEW from \in Remote, NEW size \in Size, Arrive(from, size)
  PROVE  Inv'
<1> DEFINE x == [from |-> from, size |-> size]
<1>1. x \in Datagram
  BY ConstantsAssumption DEF Datagram
<1> HIDE DEF x
<1>2. /\ arrived' = Append(arrived, x) /\ buffer' = Append(buffer, x)
      /\ UNCHANGED <<sender_ep_, available, handed, runner, reported>>
  BY DEF Arrive, asioVars, x
<1>3. arrived' \in Seq(Datagram) /\ buffer' \in Seq(Datagram) /\ handed' \in Seq(Datagram)
  BY <1>1, <1>2 DEF Inv
<1>4. WholeInOrder'
  BY <1>1, <1>2, Receive DEF Inv, WholeInOrder
<1>5. LoopStaysCounted'
  <2> SUFFICES ASSUME available > 0 PROVE \E n \in DOMAIN buffer' : available = BytesUpTo(buffer')[n]
    BY <1>2 DEF LoopStaysCounted, Bytes
  <2>1. PICK n \in DOMAIN buffer : available = BytesUpTo(buffer)[n]
    BY DEF Inv, LoopStaysCounted, Bytes
  <2>2. buffer \in Seq(Datagram)
    BY DEF Inv
  <2>3. n \in 0 .. Len(buffer) /\ n \in DOMAIN buffer'
    BY <1>1, <1>2, <2>2
  <2>4. BytesUpTo(buffer')[n] = BytesUpTo(buffer)[n]
    BY <1>1, <1>2, <2>2, <2>3, UpToAppend
  <2> QED BY <2>1, <2>3, <2>4
<1> QED BY <1>2, <1>3, <1>4, <1>5 DEF Inv, ErrorsNameTheirRemote

\* What is available are the bytes of datagrams at the front.
LEMMA AvailableCounted ==
  ASSUME Inv
  PROVE  /\ Available \in Nat
         /\ Available > 0 => \E n \in DOMAIN buffer : Available = Bytes(n)
<1> DEFINE k == IF platform = "linux" /\ buffer # <<>> THEN 1 ELSE Len(buffer)
<1>1. buffer \in Seq(Datagram)
  BY DEF Inv
<1>2. k \in 0 .. Len(buffer) /\ (k = 0 \/ k \in DOMAIN buffer)
  BY <1>1
<1>3. Available = Bytes(k)
  BY DEF Available
<1> HIDE DEF k
<1>4. Bytes(0) = 0 /\ Bytes(k) \in Nat
  BY <1>1, <1>2, UpToFacts DEF Bytes
<1> QED BY <1>2, <1>3, <1>4

\* The handlers that the runner calls.
LEMMA RunInv ==
  ASSUME Inv, Run
  PROVE  Inv'
<1> DEFINE op == Head(queue)
<1>1. runner = "running" /\ available = 0 /\ sender_ep_ = Unspecified
  BY DEF Run, Inv
<1>2. CASE op.do = "shutdown" /\ shutdown
  <2>1. CASE Destroyed("terminated")
    BY <2>1, DestroyedInv
  <2>2. CASE UNCHANGED <<readVars, runner, arrived, reported>>
    BY <2>2, OtherInv
  <2> QED BY <1>2, <2>1, <2>2 DEF shutdown
<1>3. CASE /\ op.do = "read" /\ handle_read(op)
           /\ UNCHANGED <<platform, socket_, buffer, handed, runner, arrived, counters>>
  <2>1. /\ available' \in Nat
        /\ available' > 0 => \E n \in DOMAIN buffer : available' = Bytes(n)
    BY <1>1, <1>3, AvailableCounted DEF handle_read
  <2>2. sender_ep_' = Unspecified
    BY <1>1, <1>3 DEF handle_read, do_read
  <2>3. reported' = reported \/ reported' = reported \cup {[of |-> Read, told |-> Unspecified]}
    BY <1>1, <1>3 DEF handle_read
  <2>4. ErrorsNameTheirRemote'
    BY <2>3 DEF Inv, ErrorsNameTheirRemote, Read
  <2> QED BY <1>3, <2>1, <2>2, <2>4 DEF Inv, WholeInOrder, LoopStaysCounted, Bytes
<1>4. CASE /\ op.do = "write" /\ handle_write(op)
           /\ UNCHANGED <<platform, socket_, readVars, inProgress, runner, arrived, counters>>
  <2> HIDE DEF op
  <2>1. reported' = reported \/ reported' = reported \cup {[of |-> op.of, told |-> op.of.to]}
    BY <1>4 DEF handle_write
  <2>2. ErrorsNameTheirRemote'
    BY <2>1 DEF Inv, ErrorsNameTheirRemote
  <2> QED BY <1>4, <2>2 DEF Inv, readVars, WholeInOrder, LoopStaysCounted, Bytes
<1> QED BY <1>2, <1>3, <1>4 DEF Run

\* One iteration of the loop.
LEMMA ReceiveInv ==
  ASSUME Inv, receive_from
  PROVE  Inv'
<1> DEFINE d == Head(buffer)
           read == Taken(d, available)
           left == AvailableAfter(read)
<1>1. CASE Destroyed("terminated")
  BY <1>1, DestroyedInv
<1>2. CASE /\ buffer' = Tail(buffer)
           /\ handed' = Append(handed, [d EXCEPT !.size = read])
           /\ available' = left
           /\ IF left = 0 THEN do_read ELSE sender_ep_' = d.from /\ UNCHANGED inProgress
           /\ UNCHANGED <<platform, socket_, queue, runner, arrived, reported, counters>>
  <2>1. buffer \in Seq(Datagram) /\ handed \in Seq(Datagram) /\ available \in Nat
    BY DEF Inv
  <2>2. PICK n \in 1 .. Len(buffer) : available = BytesUpTo(buffer)[n]
    BY <2>1 DEF receive_from, Inv, LoopStaysCounted, Bytes
  <2>3. /\ buffer # <<>> /\ d \in Datagram /\ d.size \in Nat
        /\ d.size <= available
        /\ available - d.size \in Nat
        /\ available - d.size = BytesUpTo(Tail(buffer))[n - 1]
        /\ available - d.size > 0 => n - 1 \in 1 .. Len(Tail(buffer))
    BY <2>1, <2>2, FirstFits
  <2>4. read = d.size
    BY <2>1, <2>3 DEF Taken
  <2>5. left = available - d.size
    BY <2>4 DEF AvailableAfter
  <2>6. [d EXCEPT !.size = read] = d
    <3> HIDE DEF d, read
    <3> QED BY <2>3, <2>4 DEF Datagram
  <2>7. handed' = Append(handed, d) /\ available' = available - d.size
    BY <1>2, <2>5, <2>6
  <2>8. /\ buffer' \in Seq(Datagram) /\ handed' \in Seq(Datagram) /\ arrived' \in Seq(Datagram)
        /\ available' \in Nat
    BY <1>2, <2>1, <2>3, <2>7 DEF Inv
  <2>9. WholeInOrder'
    <3>1. Append(handed, d) \o Tail(buffer) = handed \o buffer
      BY <2>1, <2>3, Hand
    <3> QED BY <1>2, <2>7, <3>1 DEF Inv, WholeInOrder
  <2>10. LoopStaysCounted'
    <3> SUFFICES ASSUME available' > 0
                 PROVE  \E m \in DOMAIN buffer' : available' = BytesUpTo(buffer')[m]
      BY DEF LoopStaysCounted, Bytes
    <3>1. n - 1 \in 1 .. Len(buffer') /\ available' = BytesUpTo(buffer')[n - 1]
      BY <1>2, <2>3, <2>7
    <3> QED BY <2>8, <3>1
  <2>11. available' = 0 => sender_ep_' = Unspecified
    BY <1>2 DEF do_read
  <2> QED BY <1>2, <2>8, <2>9, <2>10, <2>11 DEF Inv, ErrorsNameTheirRemote
<1> QED BY <1>1, <1>2 DEF receive_from

\* Every step keeps it.
LEMMA NextInv == Inv /\ [Next]_vars => Inv'
<1> SUFFICES ASSUME Inv, [Next]_vars PROVE Inv'
  OBVIOUS
<1>1. CASE UNCHANGED vars
  BY <1>1, OtherInv DEF vars, asioVars
<1>2. CASE write_to \/ broadcast
  BY <1>2, OtherInv DEF write_to, broadcast, async_send_to
<1>3. CASE close
  BY <1>3, OtherInv DEF close
<1>4. CASE stop
  BY <1>4, OtherInv DEF stop
<1>5. CASE join
  BY <1>5, DestroyedInv DEF join
<1>6. CASE Run
  BY <1>6, RunInv
<1>7. CASE receive_from
  BY <1>7, ReceiveInv
<1>8. CASE \E from \in Remote, size \in Size : Arrive(from, size)
  BY <1>8, ArriveInv
<1>9. CASE Readable \/ Sent \/ Fail \/ FailShut
  <2>1. PICK op, ok : Complete(op, ok)
    BY <1>9 DEF Readable, Sent, Fail, FailShut
  <2> QED BY <2>1, OtherInv DEF Complete
<1> QED BY <1>1, <1>2, <1>3, <1>4, <1>5, <1>6, <1>7, <1>8, <1>9 DEF Next

\* Everything that is proved about a socket below.
THEOREM Invariance == Spec => []Inv
  BY InitInv, NextInv, PTL DEF Spec

\* handle_read cuts what has arrived into datagrams without losing, repeating,
\* reordering or truncating one, whatever arrives in the meantime.
THEOREM DatagramsHandedWhole == Spec => []WholeInOrder
<1>1. Inv => WholeInOrder
  BY DEF Inv
<1> QED BY <1>1, Invariance, PTL

\* The loop of handle_read never reads more than was available when it began,
\* and receive_from never blocks in it or truncates a datagram.
THEOREM LoopIsCounted == Spec => []LoopStaysCounted
<1>1. Inv => LoopStaysCounted
  BY DEF Inv
<1> QED BY <1>1, Invariance, PTL

\* The error handler of handle_write and handle_read is told the remote of the
\* operation that failed.
THEOREM ErrorsAreAttributed == Spec => []ErrorsNameTheirRemote
<1>1. Inv => ErrorsNameTheirRemote
  BY DEF Inv
<1> QED BY <1>1, Invariance, PTL
=============================================================================
