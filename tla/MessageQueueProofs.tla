------------------------- MODULE MessageQueueProofs -------------------------
(***************************************************************************)
(* Proofs about the message queue, for every capacity, every set of         *)
(* priorities and every number of threads.                                  *)
(*                                                                          *)
(* Part 1 is about MqIndex: wherever a message is inserted and whichever    *)
(* way insert_at makes room for it, no position is left out and no buffer   *)
(* is lost.                                                                 *)
(*                                                                          *)
(* Part 2 is about its order: what lower_bound finds is the place of the    *)
(* new message, counted from the bottom of the run, making room shifts the  *)
(* places above it by one, and so the run stays sorted.                     *)
(*                                                                          *)
(* Part 3 shows that the index implements PriorityQueue: the messages of    *)
(* one priority are next to each other in the run, the oldest at the top.   *)
(*                                                                          *)
(* Part 4 is about MessageQueue: the counters of blocked threads are right, *)
(* no wake-up is lost, and the operations change the index only as          *)
(* IndexSpec allows, so that what is proved of the index holds of the queue *)
(* that threads share.                                                      *)
(***************************************************************************)
EXTENDS MessageQueue, WellFoundedInduction, FiniteSetTheorems, TLAPS

-----------------------------------------------------------------------------
\* Part 1: the index as a permutation of the buffers.

\* A nonempty set of natural numbers has a least element.
LEMMA LeastNatural ==
  ASSUME NEW T, T \subseteq Nat, T # {}
  PROVE  \E x \in T : \A y \in T : x <= y
<1>1. PICK x \in T : \A y \in T : ~(<<y, x>> \in OpToRel(<, Nat))
  BY WFMin, NatLessThanWellFounded
<1>2. \A y \in T : ~(y < x)
  BY <1>1 DEF OpToRel
<1> QED
  BY <1>2

\* Every position, free or not, points to a header with a priority.
LEMMA PriorityType ==
  ASSUME IndexTypeOK, NEW i \in Position
  PROVE  PriorityAt(i) \in Nat
<1>1. msg[mp_index[i]] \in MsgHdr
  BY DEF IndexTypeOK
<1> QED
  BY <1>1 DEF PriorityAt, MsgHdr

\* std::lower_bound stays within its range.
LEMMA StdLowerBoundType ==
  ASSUME IndexTypeOK, NEW lo \in Nat, NEW hi \in Nat, lo <= hi, hi <= MaxNumMsg, NEW p \in Nat
  PROVE  /\ StdLowerBound(lo, hi, p) \in lo .. hi
         /\ \A i \in lo .. StdLowerBound(lo, hi, p) - 1 : PriorityAt(i) < p
         /\ StdLowerBound(lo, hi, p) < hi => PriorityAt(StdLowerBound(lo, hi, p)) >= p
<1> DEFINE T == {k \in lo .. hi : k = hi \/ PriorityAt(k) >= p}
<1>1. \A i \in lo .. hi - 1 : PriorityAt(i) \in Nat
  <2>1. \A i \in lo .. hi - 1 : i \in Position
    BY ConstantsAssumption DEF Position
  <2> QED
    BY <2>1, PriorityType
<1>2. PICK k \in T : \A y \in T : k <= y
  <2>1. hi \in T /\ T \subseteq Nat
    OBVIOUS
  <2> HIDE DEF T
  <2> QED BY <2>1, LeastNatural
<1>3. \A i \in lo .. k - 1 : PriorityAt(i) < p
  <2> SUFFICES ASSUME NEW i \in lo .. k - 1 PROVE PriorityAt(i) < p
    OBVIOUS
  <2>1. i \notin T /\ i \in lo .. hi - 1
    BY <1>2
  <2> QED
    BY <2>1, <1>1
<1> QED
  BY <1>2, <1>3 DEF StdLowerBound

\* The end of the inserted messages is a position, unless the plain index
\* is full.
LEMMA EndType ==
  ASSUME IndexTypeOK, ~is_full
  PROVE  inserted_ptr_end \in Position /\ inserted_ptr_begin \in Position
         /\ end_pos \in Position
BY ConstantsAssumption
DEF IndexTypeOK, is_full, inserted_ptr_end, inserted_ptr_begin, end_pos, Position

\* A position below the end of a segment is where lower_bound points.
LEMMA LowerBoundType ==
  ASSUME IndexTypeOK, ~is_full, NEW p \in Nat
  PROVE  lower_bound(p) \in Position
<1>0. MaxNumMsg \in Nat \ {0} /\ 0 \in Nat
  BY ConstantsAssumption
<1>1. inserted_ptr_end \in Position /\ inserted_ptr_begin \in Position
  BY EndType
<1>2. CASE ~Wrapped
  <2>1. inserted_ptr_begin <= inserted_ptr_end
    BY <1>0, <1>1, <1>2 DEF Wrapped, Position, inserted_ptr_begin, inserted_ptr_end, IndexTypeOK
  <2>2. StdLowerBound(inserted_ptr_begin, inserted_ptr_end, p)
          \in inserted_ptr_begin .. inserted_ptr_end
    BY <1>0, <1>1, <2>1, StdLowerBoundType DEF Position
  <2> QED
    BY <1>0, <1>1, <1>2, <2>2 DEF lower_bound, Position
<1>3. CASE Wrapped
  <2>1. StdLowerBound(inserted_ptr_begin, MaxNumMsg, p) \in inserted_ptr_begin .. MaxNumMsg
    BY <1>0, <1>1, StdLowerBoundType DEF Position
  <2>2. StdLowerBound(0, inserted_ptr_end, p) \in 0 .. inserted_ptr_end
    BY <1>0, <1>1, StdLowerBoundType DEF Position
  <2> QED
    BY <1>0, <1>1, <1>3, <2>1, <2>2 DEF lower_bound, Position
<1> QED
  BY <1>2, <1>3
-----------------------------------------------------------------------------
\* What insert_at must yield: an index that is again a permutation, and
\* positions for the first message and for the new one.
RoomOK(room) ==
  /\ room.index \in [Position -> Position]
  /\ \A i, j \in Position : i # j => room.index[i] # room.index[j]
  /\ room.first \in Position
  /\ room.at \in Position

\* Extending the run at its front moves no pointer.
LEMMA ExtendFrontOK ==
  ASSUME IndexTypeOK, IndexIsPermutation
  PROVE  RoomOK(ExtendFront)
BY ConstantsAssumption
DEF RoomOK, ExtendFront, FirstMinusOne, IndexTypeOK, IndexIsPermutation, Position

\* Neither does extending it at its back.
LEMMA ExtendBackOK ==
  ASSUME IndexTypeOK, IndexIsPermutation, ~is_full
  PROVE  RoomOK(ExtendBack)
BY EndType DEF RoomOK, ExtendBack, IndexTypeOK, IndexIsPermutation

\* What the copies leave at each position.
LEMMA CopyUpAt ==
  ASSUME NEW f \in [Position -> Position], NEW lo \in Nat, NEW hi \in Position
  PROVE  /\ CopyUp(f, lo, hi) \in [Position -> Position]
         /\ \A i \in Position : CopyUp(f, lo, hi)[i] =
              IF lo + 1 <= i /\ i <= hi THEN f[i - 1] ELSE f[i]
BY ConstantsAssumption DEF CopyUp, Position

\* The same for the copy downwards.
LEMMA CopyDownAt ==
  ASSUME NEW f \in [Position -> Position], NEW lo \in Nat \ {0}, NEW hi \in 0 .. MaxNumMsg
  PROVE  /\ CopyDown(f, lo, hi) \in [Position -> Position]
         /\ \A i \in Position : CopyDown(f, lo, hi)[i] =
              IF lo - 1 <= i /\ i <= hi - 2 THEN f[i + 1] ELSE f[i]
BY ConstantsAssumption DEF CopyDown, Position

\* An index that takes each position from a different one of the old index.
LEMMA Rearranged ==
  ASSUME IndexTypeOK, IndexIsPermutation,
         NEW index \in [Position -> Position], NEW from \in [Position -> Position],
         \A i \in Position : index[i] = mp_index[from[i]],
         \A i, j \in Position : i # j => from[i] # from[j]
  PROVE  \A i, j \in Position : i # j => index[i] # index[j]
BY DEF IndexTypeOK, IndexIsPermutation

\* Moving the positions lo .. hi-1 up and what was at hi down to lo.
RotatedUp(lo, hi) == [CopyUp(mp_index, lo, hi) EXCEPT ![lo] = mp_index[hi]]

\* The rotation stays within the index and keeps it a permutation.
LEMMA RotateUp ==
  ASSUME IndexTypeOK, IndexIsPermutation, NEW lo \in Position, NEW hi \in Position, lo <= hi
  PROVE  /\ RotatedUp(lo, hi) \in [Position -> Position]
         /\ \A i, j \in Position : i # j => RotatedUp(lo, hi)[i] # RotatedUp(lo, hi)[j]
         /\ \A i \in Position : RotatedUp(lo, hi)[i] =
              mp_index[IF i = lo THEN hi ELSE IF lo + 1 <= i /\ i <= hi THEN i - 1 ELSE i]
<1> DEFINE copy == CopyUp(mp_index, lo, hi)
           from == [i \in Position |->
                      IF i = lo THEN hi ELSE IF lo + 1 <= i /\ i <= hi THEN i - 1 ELSE i]
<1>1. MaxNumMsg \in Nat \ {0} /\ mp_index \in [Position -> Position] /\ lo \in Nat
  BY ConstantsAssumption DEF IndexTypeOK, Position
<1>2. from \in [Position -> Position] /\ \A i, j \in Position : i # j => from[i] # from[j]
  BY <1>1 DEF Position
<1>3. \A i \in Position : from[i] =
        IF i = lo THEN hi ELSE IF lo + 1 <= i /\ i <= hi THEN i - 1 ELSE i
  OBVIOUS
<1>4. /\ copy \in [Position -> Position]
      /\ \A i \in Position : copy[i] =
           IF lo + 1 <= i /\ i <= hi THEN mp_index[i - 1] ELSE mp_index[i]
  BY ONLY <1>1, lo \in Position, hi \in Position, CopyUpAt
<1>5. RotatedUp(lo, hi) = [copy EXCEPT ![lo] = mp_index[hi]]
  BY DEF RotatedUp
<1> HIDE DEF from, copy
<1>6. /\ RotatedUp(lo, hi) \in [Position -> Position]
      /\ \A i \in Position : RotatedUp(lo, hi)[i] = mp_index[from[i]]
  BY <1>1, <1>3, <1>4, <1>5
<1> QED
  BY <1>2, <1>3, <1>6, Rearranged

\* The position whose pointer MoveBack leaves at i.
BackFrom(where, i) ==
  IF where < end_pos
  THEN IF i = where THEN end_pos
       ELSE IF where + 1 <= i /\ i <= end_pos THEN i - 1 ELSE i
  ELSE IF i = where THEN end_pos
       ELSE IF where + 1 <= i THEN i - 1
       ELSE IF i = 0 THEN MaxNumMsg - 1
       ELSE IF i <= end_pos THEN i - 1 ELSE i

\* insert_at by moving the messages above the new one, in one segment or
\* across the end of the array.
LEMMA MoveBackAt ==
  ASSUME IndexTypeOK, IndexIsPermutation, ~is_full,
         NEW where \in Position, where # end_pos
  PROVE  /\ RoomOK(MoveBack(where))
         /\ \A i \in Position : MoveBack(where).index[i] = mp_index[BackFrom(where, i)]
<1>1. /\ MaxNumMsg \in Nat \ {0} /\ end_pos \in Position
      /\ 0 \in Position /\ MaxNumMsg - 1 \in Position
      /\ mp_index \in [Position -> Position] /\ m_cur_first_msg \in Position
  <2>1. MaxNumMsg \in Nat \ {0} /\ end_pos \in Position
    BY ConstantsAssumption, EndType
  <2>2. 0 \in Position /\ MaxNumMsg - 1 \in Position
    BY <2>1 DEF Position
  <2> QED
    BY <2>1, <2>2 DEF IndexTypeOK
<1>2. MoveBack(where).first = m_cur_first_msg /\ MoveBack(where).at = where
  BY DEF MoveBack
<1>3. /\ \A i \in Position : i \in Nat /\ i <= MaxNumMsg - 1
      /\ where \in Nat /\ 0 \in Nat
  BY <1>1 DEF Position
<1>4. CASE where < end_pos
  <2>1. MoveBack(where).index = RotatedUp(where, end_pos) /\ where <= end_pos
    BY <1>1, <1>3, <1>4 DEF MoveBack, RotatedUp
  <2>2. \A i \in Position : RotatedUp(where, end_pos)[i] = mp_index[BackFrom(where, i)]
    BY <1>1, <1>4, <2>1, RotateUp DEF BackFrom
  <2> QED
    BY <1>1, <1>2, <2>1, <2>2, RotateUp DEF RoomOK
<1>5. CASE ~(where < end_pos)
  <2> DEFINE copy == CopyUp(mp_index, 0, end_pos)
             second == [copy EXCEPT ![0] = mp_index[MaxNumMsg - 1]]
             first == CopyUp(second, where, MaxNumMsg - 1)
             from == [i \in Position |->
                        IF i = where THEN end_pos
                        ELSE IF where + 1 <= i THEN i - 1
                        ELSE IF i = 0 THEN MaxNumMsg - 1
                        ELSE IF i <= end_pos THEN i - 1 ELSE i]
  <2>1. from \in [Position -> Position] /\ \A i, j \in Position : i # j => from[i] # from[j]
    BY <1>1, <1>5 DEF Position
  <2>2. \A i \in Position : from[i] =
          IF i = where THEN end_pos
          ELSE IF where + 1 <= i THEN i - 1
          ELSE IF i = 0 THEN MaxNumMsg - 1
          ELSE IF i <= end_pos THEN i - 1 ELSE i
    OBVIOUS
  <2>3. MoveBack(where).index = [first EXCEPT ![where] = mp_index[end_pos]]
    BY <1>5 DEF MoveBack
  <2>4. /\ copy \in [Position -> Position]
        /\ \A i \in Position : copy[i] =
             IF 0 + 1 <= i /\ i <= end_pos THEN mp_index[i - 1] ELSE mp_index[i]
    BY ONLY <1>1, <1>3, CopyUpAt
  <2> HIDE DEF from, copy
  <2>5. /\ second \in [Position -> Position]
        /\ \A i \in Position : second[i] =
             IF i = 0 THEN mp_index[MaxNumMsg - 1] ELSE copy[i]
    BY <1>1, <2>4
  <2> HIDE DEF second
  <2>6. /\ first \in [Position -> Position]
        /\ \A i \in Position : first[i] =
             IF where + 1 <= i /\ i <= MaxNumMsg - 1 THEN second[i - 1] ELSE second[i]
    BY <1>1, <1>3, <2>5, CopyUpAt
  <2> HIDE DEF first
  <2>7. MoveBack(where).index \in [Position -> Position]
    BY <1>1, <2>3, <2>6
  <2>8. ASSUME NEW i \in Position PROVE MoveBack(where).index[i] = mp_index[from[i]]
    <3>1. CASE i = where
      BY <2>2, <2>3, <2>6, <3>1
    <3>2. CASE i # where /\ where + 1 <= i
      <4>1. i - 1 \in Position /\ i - 1 # 0
        BY <1>1, <1>3, <1>5, <3>2 DEF Position
      <4>2. i - 1 > end_pos
        BY <1>1, <1>3, <1>5, <3>2
      <4>3. first[i] = second[i - 1] /\ second[i - 1] = copy[i - 1]
        BY <1>3, <2>5, <2>6, <3>2, <4>1
      <4>4. copy[i - 1] = mp_index[i - 1]
        BY <1>1, <1>3, <2>4, <4>1, <4>2
      <4>5. MoveBack(where).index[i] = first[i] /\ from[i] = i - 1
        BY <2>2, <2>3, <2>6, <3>2
      <4> QED
        BY <4>3, <4>4, <4>5
    <3>3. CASE i # where /\ ~(where + 1 <= i)
      BY <1>1, <1>3, <2>2, <2>3, <2>4, <2>5, <2>6, <3>3
    <3> QED
      BY <3>1, <3>2, <3>3
  <2>9. \A i \in Position : from[i] = BackFrom(where, i)
    BY <1>5, <2>2 DEF BackFrom
  <2> QED
    BY <1>1, <1>2, <2>1, <2>7, <2>8, <2>9, Rearranged DEF RoomOK
<1> QED
  BY <1>4, <1>5

\* The position whose pointer MoveFront leaves at i.
FrontFrom(where, i) ==
  LET pos  == IF where = 0 THEN MaxNumMsg ELSE where
      beg2 == IF m_cur_first_msg = 0 THEN MaxNumMsg ELSE m_cur_first_msg
  IN  IF m_cur_first_msg # 0 /\ m_cur_first_msg <= pos
      THEN IF i = pos - 1 THEN m_cur_first_msg - 1
           ELSE IF m_cur_first_msg - 1 <= i /\ i <= pos - 2 THEN i + 1 ELSE i
      ELSE IF i = pos - 1 THEN beg2 - 1
           ELSE IF i <= pos - 2 THEN i + 1
           ELSE IF i = MaxNumMsg - 1 THEN 0
           ELSE IF beg2 - 1 <= i THEN i + 1 ELSE i

\* insert_at by moving the messages below the new one, in one segment or
\* across the start of the array.
LEMMA MoveFrontAt ==
  ASSUME IndexTypeOK, IndexIsPermutation, NEW where \in Position, where # m_cur_first_msg
  PROVE  /\ RoomOK(MoveFront(where))
         /\ \A i \in Position : MoveFront(where).index[i] = mp_index[FrontFrom(where, i)]
<1> DEFINE pos    == IF where = 0 THEN MaxNumMsg ELSE where
           unique == m_cur_first_msg # 0 /\ m_cur_first_msg <= pos
           beg2   == IF m_cur_first_msg = 0 THEN MaxNumMsg ELSE m_cur_first_msg
<1>1. /\ MaxNumMsg \in Nat \ {0} /\ m_cur_first_msg \in Position
      /\ mp_index \in [Position -> Position]
  BY ConstantsAssumption DEF IndexTypeOK
<1>2. /\ pos \in Nat /\ pos \in 0 .. MaxNumMsg /\ pos - 1 \in Position /\ 0 \in Position
      /\ MaxNumMsg - 1 \in Position /\ MaxNumMsg \in 0 .. MaxNumMsg
      /\ FirstMinusOne \in Position /\ pos # 0 /\ 1 \in Nat \ {0}
      /\ beg2 \in Nat \ {0} /\ beg2 - 1 \in Position
      /\ m_cur_first_msg # 0 => m_cur_first_msg \in Nat \ {0} /\ m_cur_first_msg - 1 \in Position
      /\ ~unique => pos < beg2
  BY <1>1 DEF Position, FirstMinusOne
<1>3. MoveFront(where).first = FirstMinusOne /\ MoveFront(where).at = pos - 1
  BY DEF MoveFront
<1>4. \A i \in Position : i \in Nat /\ i <= MaxNumMsg - 1
  BY <1>1 DEF Position
<1>5. CASE unique
  <2> DEFINE f == m_cur_first_msg
             copy == CopyDown(mp_index, f, pos)
             from == [i \in Position |->
                        IF i = pos - 1 THEN f - 1
                        ELSE IF f - 1 <= i /\ i <= pos - 2 THEN i + 1 ELSE i]
  <2>1. from \in [Position -> Position] /\ \A i, j \in Position : i # j => from[i] # from[j]
    BY <1>1, <1>5 DEF Position
  <2>2. \A i \in Position : from[i] =
          IF i = pos - 1 THEN f - 1 ELSE IF f - 1 <= i /\ i <= pos - 2 THEN i + 1 ELSE i
    OBVIOUS
  <2>3. MoveFront(where).index = [copy EXCEPT ![pos - 1] = mp_index[f - 1]]
    BY <1>5 DEF MoveFront
  <2>0. \A i \in Position : from[i] = FrontFrom(where, i)
    BY <1>5 DEF FrontFrom
  <2> HIDE DEF pos
  <2>4. /\ copy \in [Position -> Position]
        /\ \A i \in Position : copy[i] =
             IF f - 1 <= i /\ i <= pos - 2 THEN mp_index[i + 1] ELSE mp_index[i]
    BY <1>1, <1>2, <1>5, CopyDownAt
  <2> HIDE DEF from, copy
  <2>5. /\ MoveFront(where).index \in [Position -> Position]
        /\ \A i \in Position : MoveFront(where).index[i] = mp_index[from[i]]
    BY <1>1, <1>2, <1>5, <2>2, <2>3, <2>4
  <2> QED
    BY <1>2, <1>3, <2>0, <2>1, <2>5, Rearranged DEF RoomOK
<1>6. CASE ~unique
  <2> DEFINE copy == CopyDown(mp_index, beg2, MaxNumMsg)
             second == [copy EXCEPT ![MaxNumMsg - 1] = mp_index[0]]
             first == CopyDown(second, 1, pos)
             from == [i \in Position |->
                        IF i = pos - 1 THEN beg2 - 1
                        ELSE IF i <= pos - 2 THEN i + 1
                        ELSE IF i = MaxNumMsg - 1 THEN 0
                        ELSE IF beg2 - 1 <= i THEN i + 1 ELSE i]
  <2>1. from \in [Position -> Position] /\ \A i, j \in Position : i # j => from[i] # from[j]
    BY <1>1, <1>6 DEF Position
  <2>2. \A i \in Position : from[i] =
          IF i = pos - 1 THEN beg2 - 1
          ELSE IF i <= pos - 2 THEN i + 1
          ELSE IF i = MaxNumMsg - 1 THEN 0
          ELSE IF beg2 - 1 <= i THEN i + 1 ELSE i
    OBVIOUS
  <2>3. MoveFront(where).index = [first EXCEPT ![pos - 1] = mp_index[beg2 - 1]]
    BY <1>6 DEF MoveFront
  <2>4. pos < beg2
    BY <1>2, <1>6
  <2>0. \A i \in Position : from[i] = FrontFrom(where, i)
    BY <1>6 DEF FrontFrom
  <2> HIDE DEF pos, beg2
  <2>5. /\ copy \in [Position -> Position]
        /\ \A i \in Position : copy[i] =
             IF beg2 - 1 <= i /\ i <= MaxNumMsg - 2 THEN mp_index[i + 1] ELSE mp_index[i]
    BY <1>1, <1>2, CopyDownAt
  <2> HIDE DEF from, copy
  <2>6. /\ second \in [Position -> Position]
        /\ \A i \in Position : second[i] =
             IF i = MaxNumMsg - 1 THEN mp_index[0] ELSE copy[i]
    BY <1>1, <1>2, <2>5
  <2> HIDE DEF second
  <2>7. /\ first \in [Position -> Position]
        /\ \A i \in Position : first[i] =
             IF 1 - 1 <= i /\ i <= pos - 2 THEN second[i + 1] ELSE second[i]
    BY <1>1, <1>2, <2>6, CopyDownAt
  <2> HIDE DEF first
  <2>8. MoveFront(where).index \in [Position -> Position]
    BY <1>1, <1>2, <2>3, <2>7
  <2>9. ASSUME NEW i \in Position PROVE MoveFront(where).index[i] = mp_index[from[i]]
    <3>1. CASE i = pos - 1
      BY <2>2, <2>3, <2>7, <3>1
    <3>2. CASE i # pos - 1 /\ i <= pos - 2
      <4>1. i + 1 \in Position /\ i + 1 # MaxNumMsg - 1 /\ ~(beg2 - 1 <= i + 1)
        BY <1>1, <1>2, <1>4, <2>4, <3>2 DEF Position
      <4>2. first[i] = second[i + 1] /\ second[i + 1] = copy[i + 1]
        BY <1>4, <2>6, <2>7, <3>2, <4>1
      <4>3. copy[i + 1] = mp_index[i + 1]
        BY <2>5, <4>1
      <4>4. MoveFront(where).index[i] = first[i] /\ from[i] = i + 1
        BY <2>2, <2>3, <2>7, <3>2
      <4> QED
        BY <4>2, <4>3, <4>4
    <3>3. CASE i # pos - 1 /\ ~(i <= pos - 2)
      <4>1. MoveFront(where).index[i] = first[i] /\ first[i] = second[i]
        BY <2>3, <2>7, <3>3
      <4>2. second[i] = mp_index[from[i]]
        BY <1>1, <1>2, <1>4, <2>2, <2>5, <2>6, <3>3
      <4> QED
        BY <4>1, <4>2
    <3> QED
      BY <3>1, <3>2, <3>3
  <2> QED
    BY <1>2, <1>3, <2>0, <2>1, <2>8, <2>9, Rearranged DEF RoomOK
<1> QED
  BY <1>5, <1>6

\* insert_at of the plain index.
LEMMA LinearInsertOK ==
  ASSUME IndexTypeOK, IndexIsPermutation, ~is_full,
         NEW pos \in Position, pos <= m_cur_num_msg
  PROVE  RoomOK(LinearInsertAt(pos))
<1>1. m_cur_num_msg \in Position /\ m_cur_first_msg \in Position
  BY ConstantsAssumption DEF IndexTypeOK, is_full, Position
<1>2. /\ LinearInsertAt(pos).index = RotatedUp(pos, m_cur_num_msg)
      /\ LinearInsertAt(pos).first = m_cur_first_msg
      /\ LinearInsertAt(pos).at = pos
  BY DEF LinearInsertAt, RotatedUp
<1>3. /\ LinearInsertAt(pos).index \in [Position -> Position]
      /\ \A i, j \in Position :
           i # j => LinearInsertAt(pos).index[i] # LinearInsertAt(pos).index[j]
  BY <1>1, <1>2, RotateUp
<1> QED
  BY <1>1, <1>2, <1>3 DEF RoomOK

\* Wherever queue_free_msg decides to put a message, there is room for it.
LEMMA QueueFreeMsgOK ==
  ASSUME IndexTypeOK, IndexIsPermutation, ~is_full, NEW p \in Nat
  PROVE  RoomOK(queue_free_msg(p))
<1>1. /\ inserted_ptr_end \in Position /\ inserted_ptr_begin \in Position
      /\ lower_bound(p) \in Position
  BY EndType, LowerBoundType
<1>2. PICK where \in {inserted_ptr_begin, inserted_ptr_end, lower_bound(p)} :
        queue_free_msg(p) = insert_at(where)
  BY DEF queue_free_msg
<1>3. where \in Position
  BY <1>1, <1>2
<1>4. CASE CircularIndex
  <2>1. inserted_ptr_begin = m_cur_first_msg /\ inserted_ptr_end = end_pos
    BY <1>4 DEF inserted_ptr_begin, inserted_ptr_end
  <2>2. \/ CircularInsertAt(where) = ExtendFront
        \/ CircularInsertAt(where) = ExtendBack
        \/ /\ where # m_cur_first_msg /\ where # end_pos
           /\ CircularInsertAt(where) \in {MoveFront(where), MoveBack(where)}
    BY <2>1 DEF CircularInsertAt
  <2>3. RoomOK(CircularInsertAt(where))
    BY <1>3, <2>2, ExtendFrontOK, ExtendBackOK, MoveFrontAt, MoveBackAt
  <2> QED
    BY <1>2, <1>4, <2>3 DEF insert_at
<1>5. CASE ~CircularIndex
  <2>1. inserted_ptr_begin = 0 /\ inserted_ptr_end = m_cur_num_msg /\ ~Wrapped
    BY <1>5 DEF inserted_ptr_begin, inserted_ptr_end, Wrapped
  <2>2. m_cur_num_msg \in Nat /\ MaxNumMsg \in Nat /\ m_cur_num_msg <= MaxNumMsg
    BY ConstantsAssumption DEF IndexTypeOK
  <2>3. lower_bound(p) \in 0 .. m_cur_num_msg
    BY <2>1, <2>2, StdLowerBoundType DEF lower_bound
  <2>4. where <= m_cur_num_msg
    BY <1>2, <2>1, <2>2, <2>3
  <2>5. RoomOK(LinearInsertAt(where))
    BY <1>3, <2>4, LinearInsertOK
  <2> QED
    BY <1>2, <1>5, <2>5 DEF insert_at
<1> QED
  BY <1>4, <1>5
-----------------------------------------------------------------------------
TypeAndPermutation == IndexTypeOK /\ IndexIsPermutation

\* do_send's insertion keeps the types and the permutation.
LEMMA StorePreserves ==
  ASSUME TypeAndPermutation, NEW p \in Priority, NEW b \in Buffer, StoreMsg(p, b)
  PROVE  TypeAndPermutation'
<1> DEFINE room == queue_free_msg(p)
           new == [len |-> Size[b], priority |-> p, data |-> Content(b)]
<1>1. p \in Nat /\ ~is_full
  BY ConstantsAssumption DEF StoreMsg
<1>2. RoomOK(room)
  BY <1>1, QueueFreeMsgOK DEF TypeAndPermutation
<1>3. /\ mp_index' = room.index
      /\ m_cur_first_msg' = room.first
      /\ msg' = [msg EXCEPT ![room.index[room.at]] = new]
      /\ m_cur_num_msg' = m_cur_num_msg + 1
  BY DEF StoreMsg
<1>4. new \in MsgHdr
  BY <1>1, ConstantsAssumption DEF MsgHdr, Content
<1> HIDE DEF room, new
<1>5. msg' \in [Position -> MsgHdr]
  BY <1>2, <1>3, <1>4 DEF RoomOK, TypeAndPermutation, IndexTypeOK
<1>6. m_cur_num_msg' \in 0 .. MaxNumMsg
  BY <1>1, <1>3, ConstantsAssumption DEF is_full, TypeAndPermutation, IndexTypeOK
<1> QED
  BY <1>2, <1>3, <1>5, <1>6 DEF RoomOK, TypeAndPermutation, IndexTypeOK, IndexIsPermutation

\* do_receive's removal keeps them too.
LEMMA TakePreserves ==
  ASSUME TypeAndPermutation, TakeTopMsg
  PROVE  TypeAndPermutation'
<1>1. CleanMsg \in MsgHdr
  BY DEF CleanMsg, MsgHdr
<1>2. msg' \in [Position -> MsgHdr]
  BY <1>1 DEF TakeTopMsg, TypeAndPermutation, IndexTypeOK
<1>3. m_cur_num_msg' \in 0 .. MaxNumMsg
  BY ConstantsAssumption DEF TakeTopMsg, is_empty, TypeAndPermutation, IndexTypeOK
<1> QED
  BY <1>2, <1>3 DEF TakeTopMsg, TypeAndPermutation, IndexTypeOK, IndexIsPermutation

\* For every capacity and both kinds of index, the control block stays well
\* formed and no message buffer is ever lost or pointed to twice.
THEOREM IndexInvariant == IndexSpec => []TypeAndPermutation
<1>1. IndexInit => TypeAndPermutation
  <2>1. CleanMsg \in MsgHdr
    BY DEF CleanMsg, MsgHdr
  <2> QED
    BY <2>1, ConstantsAssumption
    DEF IndexInit, TypeAndPermutation, IndexTypeOK, IndexIsPermutation, Position
<1>2. TypeAndPermutation /\ [IndexNext]_indexVars => TypeAndPermutation'
  <2> SUFFICES ASSUME TypeAndPermutation, [IndexNext]_indexVars PROVE TypeAndPermutation'
    OBVIOUS
  <2>1. CASE IndexNext
    BY <2>1, StorePreserves, TakePreserves DEF IndexNext
  <2>2. CASE UNCHANGED indexVars
    BY <2>2 DEF indexVars, TypeAndPermutation, IndexTypeOK, IndexIsPermutation
  <2> QED
    BY <2>1, <2>2
<1> QED
  BY <1>1, <1>2, PTL DEF IndexSpec

\* The type invariant of the control block.
THEOREM IndexTypeCorrect == IndexSpec => []IndexTypeOK
BY IndexInvariant, PTL DEF TypeAndPermutation

\* No message buffer is lost or pointed to twice.
THEOREM NoBufferLost == IndexSpec => []IndexIsPermutation
BY IndexInvariant, PTL DEF TypeAndPermutation

-----------------------------------------------------------------------------
\* Part 2: the order of the index.

\* The plain index has no first message but the one at position 0.
FirstOK == ~CircularIndex => m_cur_first_msg = 0

\* The k-th position counted from first, across the end of the array.
At(first, k) == IF first + k < MaxNumMsg THEN first + k ELSE first + k - MaxNumMsg

\* room is made at place c, counted from the bottom: the messages below c
\* keep their places, those above move up one, and what is at c or above the
\* last message was free.
Shifted(room, c) ==
  /\ c \in 0 .. m_cur_num_msg
  /\ room.at = At(room.first, c)
  /\ \A k \in 0 .. c - 1 : room.index[At(room.first, k)] = mp_index[Phys(k)]
  /\ \A k \in c + 1 .. m_cur_num_msg : room.index[At(room.first, k)] = mp_index[Phys(k - 1)]
  /\ \A k \in {c} \cup (m_cur_num_msg + 1 .. MaxNumMsg - 1) :
       \E e \in m_cur_num_msg .. MaxNumMsg - 1 : room.index[At(room.first, k)] = mp_index[Phys(e)]

\* The numbers all of this is about.
LEMMA Numbers ==
  ASSUME IndexTypeOK, ~is_full
  PROVE  /\ MaxNumMsg \in Nat \ {0}
         /\ m_cur_num_msg \in Nat /\ m_cur_num_msg < MaxNumMsg
         /\ m_cur_first_msg \in Nat /\ m_cur_first_msg < MaxNumMsg
BY ConstantsAssumption DEF IndexTypeOK, is_full, Position

\* Places are positions, and different places different positions.
LEMMA PhysFact ==
  ASSUME IndexTypeOK
  PROVE  /\ \A k \in Position : Phys(k) \in Position /\ Phys(k) = At(m_cur_first_msg, k)
         /\ \A j, k \in Position : Phys(j) = Phys(k) => j = k
<1>1. MaxNumMsg \in Nat /\ m_cur_first_msg \in 0 .. MaxNumMsg - 1
  BY ConstantsAssumption DEF IndexTypeOK, Position
<1>2. ASSUME NEW k \in 0 .. MaxNumMsg - 1
      PROVE  Phys(k) \in 0 .. MaxNumMsg - 1 /\ Phys(k) = At(m_cur_first_msg, k)
  BY <1>1 DEF Phys, At
<1>3. ASSUME NEW j \in 0 .. MaxNumMsg - 1, NEW k \in 0 .. MaxNumMsg - 1, Phys(j) = Phys(k)
      PROVE  j = k
  BY <1>1, <1>3 DEF Phys
<1> QED BY <1>2, <1>3 DEF Position

\* The end of the run is the place above the last message.
LEMMA EndIsPlace ==
  ASSUME IndexTypeOK, ~is_full, FirstOK
  PROVE  /\ end_pos = Phys(m_cur_num_msg)
         /\ inserted_ptr_end = Phys(m_cur_num_msg)
         /\ inserted_ptr_begin = Phys(0)
         /\ m_cur_first_msg = Phys(0)
BY Numbers DEF end_pos, Phys, inserted_ptr_end, inserted_ptr_begin, FirstOK

\* The top message is at the last place.
LEMMA TopIsPlace ==
  ASSUME IndexTypeOK, ~is_full, FirstOK, m_cur_num_msg # 0
  PROVE  top_msg = mp_index[Phys(m_cur_num_msg - 1)]
<1>1. /\ end_pos = Phys(m_cur_num_msg)
      /\ m_cur_num_msg \in 1 .. MaxNumMsg - 1
      /\ m_cur_first_msg \in 0 .. MaxNumMsg - 1 /\ MaxNumMsg \in Nat
  BY Numbers, EndIsPlace
<1>2. (IF end_pos # 0 THEN end_pos - 1 ELSE MaxNumMsg - 1) = Phys(m_cur_num_msg - 1)
  BY <1>1 DEF Phys
<1>3. CASE CircularIndex
  BY <1>2, <1>3 DEF top_msg
<1>4. CASE ~CircularIndex
  <2>1. Phys(m_cur_num_msg - 1) = m_cur_num_msg - 1
    BY <1>1, <1>4 DEF Phys, FirstOK
  <2> QED BY <2>1, <1>4 DEF top_msg
<1> QED BY <1>3, <1>4

\* A new bottom message, put before the first one.
LEMMA ExtendFrontShift ==
  ASSUME IndexTypeOK, ~is_full
  PROVE  Shifted(ExtendFront, 0)
<1>1. /\ ExtendFront.index = mp_index /\ ExtendFront.at = ExtendFront.first
      /\ ExtendFront.first = FirstMinusOne
  BY DEF ExtendFront
<1>2. /\ At(FirstMinusOne, 0) = FirstMinusOne
      /\ FirstMinusOne = Phys(MaxNumMsg - 1)
      /\ \A k \in 1 .. MaxNumMsg - 1 : At(FirstMinusOne, k) = Phys(k - 1)
  BY Numbers DEF FirstMinusOne, At, Phys
<1>3. \A k \in {0} \cup (m_cur_num_msg + 1 .. MaxNumMsg - 1) :
        \E e \in m_cur_num_msg .. MaxNumMsg - 1 : mp_index[At(FirstMinusOne, k)] = mp_index[Phys(e)]
  <2> SUFFICES ASSUME NEW k \in {0} \cup (m_cur_num_msg + 1 .. MaxNumMsg - 1)
               PROVE  \E e \in m_cur_num_msg .. MaxNumMsg - 1 : At(FirstMinusOne, k) = Phys(e)
    OBVIOUS
  <2>1. CASE k = 0
    BY <1>2, <2>1, Numbers
  <2>2. CASE k # 0
    <3>1. k - 1 \in m_cur_num_msg .. MaxNumMsg - 1 /\ k \in 1 .. MaxNumMsg - 1
      BY <2>2, Numbers
    <3> QED BY <3>1, <1>2
  <2> QED BY <2>1, <2>2
<1>4. \A k \in 1 .. m_cur_num_msg : At(FirstMinusOne, k) = Phys(k - 1)
  BY <1>2, Numbers
<1> QED BY <1>1, <1>2, <1>3, <1>4, Numbers DEF Shifted

\* A new top message, put behind the last one.
LEMMA ExtendBackShift ==
  ASSUME IndexTypeOK, ~is_full, FirstOK
  PROVE  Shifted(ExtendBack, m_cur_num_msg)
<1>1. /\ ExtendBack.index = mp_index /\ ExtendBack.at = Phys(m_cur_num_msg)
      /\ ExtendBack.first = m_cur_first_msg
  BY EndIsPlace DEF ExtendBack
<1>2. \A k : At(m_cur_first_msg, k) = Phys(k)
  BY DEF At, Phys
<1>3. \A k \in {m_cur_num_msg} \cup (m_cur_num_msg + 1 .. MaxNumMsg - 1) :
        k \in m_cur_num_msg .. MaxNumMsg - 1
  BY Numbers
<1>4. m_cur_num_msg + 1 .. m_cur_num_msg = {}
  BY Numbers
<1> QED BY <1>1, <1>2, <1>3, <1>4, Numbers DEF Shifted

\* Moving the pointers lo .. hi - 1 up, where hi is the place behind the last.
LEMMA BackShift ==
  ASSUME IndexTypeOK, ~is_full, NEW room, NEW c \in 0 .. m_cur_num_msg,
         room.first = m_cur_first_msg, room.at = Phys(c),
         \A k \in 0 .. c - 1 : room.index[Phys(k)] = mp_index[Phys(k)],
         \A k \in c + 1 .. m_cur_num_msg : room.index[Phys(k)] = mp_index[Phys(k - 1)],
         room.index[Phys(c)] = mp_index[Phys(m_cur_num_msg)],
         \A k \in m_cur_num_msg + 1 .. MaxNumMsg - 1 : room.index[Phys(k)] = mp_index[Phys(k)]
  PROVE  Shifted(room, c)
<1>1. \A k : At(m_cur_first_msg, k) = Phys(k)
  BY DEF At, Phys
<1>2. /\ m_cur_num_msg \in m_cur_num_msg .. MaxNumMsg - 1
      /\ \A k \in m_cur_num_msg + 1 .. MaxNumMsg - 1 : k \in m_cur_num_msg .. MaxNumMsg - 1
  BY Numbers
<1>3. \A k \in {c} \cup (m_cur_num_msg + 1 .. MaxNumMsg - 1) :
        \E e \in m_cur_num_msg .. MaxNumMsg - 1 : room.index[Phys(k)] = mp_index[Phys(e)]
  BY <1>2
<1> QED BY <1>1, <1>3 DEF Shifted

\* insert_at that moves the back of the circular run up makes room at place c.
LEMMA MoveBackShift ==
  ASSUME IndexTypeOK, IndexIsPermutation, ~is_full, FirstOK,
         NEW c \in 1 .. m_cur_num_msg - 1
  PROVE  Shifted(MoveBack(Phys(c)), c)
<1> DEFINE where == Phys(c)
<1>1. /\ where \in Position /\ where # end_pos
      /\ end_pos = Phys(m_cur_num_msg)
  <2>1. c \in Position /\ m_cur_num_msg \in Position /\ c # m_cur_num_msg
    BY Numbers DEF Position
  <2> QED BY <2>1, PhysFact, EndIsPlace
<1>2. /\ MoveBack(where).first = m_cur_first_msg /\ MoveBack(where).at = where
  BY DEF MoveBack
<1>3. /\ \A k \in 0 .. c - 1 : BackFrom(where, Phys(k)) = Phys(k)
      /\ \A k \in c + 1 .. m_cur_num_msg : BackFrom(where, Phys(k)) = Phys(k - 1)
      /\ BackFrom(where, Phys(c)) = Phys(m_cur_num_msg)
      /\ \A k \in m_cur_num_msg + 1 .. MaxNumMsg - 1 : BackFrom(where, Phys(k)) = Phys(k)
  BY <1>1, Numbers DEF BackFrom, Phys
<1>4. \A k \in 0 .. MaxNumMsg - 1 : MoveBack(where).index[Phys(k)] = mp_index[BackFrom(where, Phys(k))]
  BY <1>1, PhysFact, MoveBackAt DEF Position
<1>5. /\ \A k \in 0 .. c - 1 : k \in 0 .. MaxNumMsg - 1
      /\ \A k \in c .. m_cur_num_msg : k \in 0 .. MaxNumMsg - 1
      /\ \A k \in c + 1 .. m_cur_num_msg : k \in 0 .. MaxNumMsg - 1
      /\ \A k \in m_cur_num_msg + 1 .. MaxNumMsg - 1 : k \in 0 .. MaxNumMsg - 1
      /\ c \in 0 .. m_cur_num_msg /\ c \in 0 .. MaxNumMsg - 1
  BY Numbers
<1> HIDE DEF where
<1>6. where = Phys(c)
  BY DEF where
<1> QED BY <1>2, <1>3, <1>4, <1>5, <1>6, BackShift

\* insert_at of the plain index makes room at place c.
LEMMA LinearShift ==
  ASSUME IndexTypeOK, IndexIsPermutation, ~is_full, FirstOK, ~CircularIndex,
         NEW c \in 0 .. m_cur_num_msg
  PROVE  Shifted(LinearInsertAt(c), c)
<1>1. /\ LinearInsertAt(c).index = RotatedUp(c, m_cur_num_msg)
      /\ LinearInsertAt(c).first = m_cur_first_msg
      /\ LinearInsertAt(c).at = c
  BY DEF LinearInsertAt, RotatedUp
<1>2. \A k \in 0 .. MaxNumMsg - 1 : Phys(k) = k
  BY Numbers DEF Phys, FirstOK
<1>3. c \in Position /\ m_cur_num_msg \in Position /\ c <= m_cur_num_msg
  BY Numbers DEF Position
<1>4. \A i \in 0 .. MaxNumMsg - 1 : RotatedUp(c, m_cur_num_msg)[i] =
        mp_index[IF i = c THEN m_cur_num_msg
                 ELSE IF c + 1 <= i /\ i <= m_cur_num_msg THEN i - 1 ELSE i]
  BY <1>3, RotateUp DEF Position
<1>5. /\ \A k \in 0 .. c - 1 : RotatedUp(c, m_cur_num_msg)[k] = mp_index[k]
      /\ \A k \in c + 1 .. m_cur_num_msg : RotatedUp(c, m_cur_num_msg)[k] = mp_index[k - 1]
      /\ RotatedUp(c, m_cur_num_msg)[c] = mp_index[m_cur_num_msg]
      /\ \A k \in m_cur_num_msg + 1 .. MaxNumMsg - 1 : RotatedUp(c, m_cur_num_msg)[k] = mp_index[k]
  BY <1>4, Numbers
<1>6. /\ \A k \in 0 .. c - 1 : Phys(k) = k
      /\ \A k \in c + 1 .. m_cur_num_msg : Phys(k) = k /\ Phys(k - 1) = k - 1
      /\ \A k \in m_cur_num_msg + 1 .. MaxNumMsg - 1 : Phys(k) = k
      /\ Phys(c) = c /\ Phys(m_cur_num_msg) = m_cur_num_msg
  BY <1>2, Numbers
<1> QED BY <1>1, <1>5, <1>6, BackShift

\* insert_at that moves the front of the circular run down makes room at place c.
LEMMA MoveFrontShift ==
  ASSUME IndexTypeOK, IndexIsPermutation, ~is_full, FirstOK,
         NEW c \in 1 .. m_cur_num_msg - 1
  PROVE  Shifted(MoveFront(Phys(c)), c)
<1> DEFINE where == Phys(c)
           room == MoveFront(where)
<1>1. where \in Position /\ where # m_cur_first_msg
  <2>1. c \in Position /\ 0 \in Position /\ c # 0
    BY Numbers DEF Position
  <2> QED BY <2>1, PhysFact, EndIsPlace
<1>2. /\ room.first = FirstMinusOne
      /\ room.at = (IF where = 0 THEN MaxNumMsg ELSE where) - 1
  BY DEF MoveFront
<1>3. /\ \A k \in 1 .. MaxNumMsg - 1 : At(FirstMinusOne, k) = Phys(k - 1)
      /\ At(FirstMinusOne, 0) = Phys(MaxNumMsg - 1)
      /\ (IF where = 0 THEN MaxNumMsg ELSE where) - 1 = Phys(c - 1)
  BY Numbers DEF FirstMinusOne, At, Phys
<1>4. /\ FrontFrom(where, Phys(MaxNumMsg - 1)) = Phys(0)
      /\ \A k \in 1 .. c - 1 : FrontFrom(where, Phys(k - 1)) = Phys(k)
      /\ \A k \in c + 1 .. MaxNumMsg - 1 : FrontFrom(where, Phys(k - 1)) = Phys(k - 1)
      /\ FrontFrom(where, Phys(c - 1)) = Phys(MaxNumMsg - 1)
  BY Numbers DEF FrontFrom, Phys
<1>5. \A k \in 0 .. MaxNumMsg - 1 : room.index[Phys(k)] = mp_index[FrontFrom(where, Phys(k))]
  BY <1>1, PhysFact, MoveFrontAt DEF Position
<1> HIDE DEF where, room
<1>6. \A k \in 1 .. MaxNumMsg - 1 :
        room.index[At(FirstMinusOne, k)] = mp_index[FrontFrom(where, Phys(k - 1))]
  <2>1. \A k \in 1 .. MaxNumMsg - 1 : k - 1 \in 0 .. MaxNumMsg - 1
    BY Numbers
  <2> QED BY <1>3, <1>5, <2>1
<1>7. \A k \in 0 .. c - 1 : room.index[At(FirstMinusOne, k)] = mp_index[Phys(k)]
  <2> TAKE k \in 0 .. c - 1
  <2>1. CASE k = 0
    <3>1. MaxNumMsg - 1 \in 0 .. MaxNumMsg - 1
      BY Numbers
    <3> QED BY <1>3, <1>4, <1>5, <2>1, <3>1
  <2>2. CASE k # 0
    <3>1. k \in 1 .. c - 1 /\ k \in 1 .. MaxNumMsg - 1
      BY <2>2, Numbers
    <3> QED BY <1>4, <1>6, <3>1
  <2> QED BY <2>1, <2>2
<1>8. \A k \in c + 1 .. MaxNumMsg - 1 : room.index[At(FirstMinusOne, k)] = mp_index[Phys(k - 1)]
  <2> TAKE k \in c + 1 .. MaxNumMsg - 1
  <2>1. k \in 1 .. MaxNumMsg - 1
    BY Numbers
  <2> QED BY <1>4, <1>6, <2>1
<1>9. room.index[At(FirstMinusOne, c)] = mp_index[Phys(MaxNumMsg - 1)]
  <2>1. c \in 1 .. MaxNumMsg - 1
    BY Numbers
  <2> QED BY <1>4, <1>6, <2>1
<1>10. \A k \in {c} \cup (m_cur_num_msg + 1 .. MaxNumMsg - 1) :
         \E e \in m_cur_num_msg .. MaxNumMsg - 1 :
           room.index[At(FirstMinusOne, k)] = mp_index[Phys(e)]
  <2> TAKE k \in {c} \cup (m_cur_num_msg + 1 .. MaxNumMsg - 1)
  <2>1. CASE k = c
    <3>1. MaxNumMsg - 1 \in m_cur_num_msg .. MaxNumMsg - 1
      BY Numbers
    <3> QED BY <1>9, <2>1, <3>1
  <2>2. CASE k # c
    <3>1. k - 1 \in m_cur_num_msg .. MaxNumMsg - 1 /\ k \in c + 1 .. MaxNumMsg - 1
      BY <2>2, Numbers
    <3> QED BY <1>8, <3>1
  <2> QED BY <2>1, <2>2
<1>11. /\ c \in 1 .. MaxNumMsg - 1 /\ c \in 0 .. m_cur_num_msg
       /\ \A k \in c + 1 .. m_cur_num_msg : k \in c + 1 .. MaxNumMsg - 1
  BY Numbers
<1> QED BY <1>2, <1>3, <1>7, <1>8, <1>10, <1>11 DEF Shifted, room, where

\* Where lower_bound points: above everything less urgent than p and below
\* everything else, and neither at the bottom nor at the end.
LEMMA LowerBoundPlace ==
  ASSUME IndexTypeOK, ~is_full, FirstOK, StoredSorted, NEW p \in Nat, UsesLowerBound(p)
  PROVE  \E c \in 1 .. m_cur_num_msg - 1 :
           /\ lower_bound(p) = Phys(c)
           /\ \A k \in 0 .. c - 1 : PriorityAt(Phys(k)) < p
           /\ PriorityAt(Phys(c)) >= p
<1>1. /\ m_cur_num_msg # 0
      /\ bottom_msg = mp_index[Phys(0)] /\ top_msg = mp_index[Phys(m_cur_num_msg - 1)]
  <2>1. m_cur_num_msg # 0
    BY DEF UsesLowerBound, is_empty
  <2>2. bottom_msg = mp_index[Phys(0)]
    BY EndIsPlace DEF bottom_msg
  <2> QED BY <2>1, <2>2, TopIsPlace
<1>2. PriorityAt(Phys(0)) < p /\ PriorityAt(Phys(m_cur_num_msg - 1)) >= p
  <2>1. Phys(0) \in Position /\ Phys(m_cur_num_msg - 1) \in Position
    <3>1. 0 \in Position /\ m_cur_num_msg - 1 \in Position
      BY <1>1, Numbers DEF Position
    <3> QED BY <3>1, PhysFact
  <2>2. PriorityAt(Phys(0)) \in Nat /\ PriorityAt(Phys(m_cur_num_msg - 1)) \in Nat
    BY <2>1, PriorityType
  <2>3. p > PriorityAt(Phys(0)) /\ p <= PriorityAt(Phys(m_cur_num_msg - 1))
    BY <1>1 DEF UsesLowerBound, PriorityAt
  <2> QED BY <2>2, <2>3
<1> DEFINE f == m_cur_first_msg
           num == m_cur_num_msg
           b == inserted_ptr_begin
           e == inserted_ptr_end
<1>3. /\ b \in 0 .. MaxNumMsg - 1 /\ b = f
      /\ e \in 0 .. MaxNumMsg - 1 /\ e = Phys(num)
      /\ num \in 1 .. MaxNumMsg - 1 /\ MaxNumMsg \in Nat
      /\ 0 \in Nat /\ e \in Nat /\ b \in Nat
  BY <1>1, Numbers, EndIsPlace, EndType DEF Position
<1>4. CASE ~Wrapped
  <2>1. b <= e
    BY <1>3, <1>4, Numbers DEF Wrapped, FirstOK, Phys
  <2>2. e = f + num /\ \A k \in 0 .. num - 1 : Phys(k) = f + k
    BY <2>1, <1>3 DEF Phys
  <2> DEFINE k0 == StdLowerBound(b, e, p)
  <2>3. /\ k0 \in b .. e
        /\ \A i \in b .. k0 - 1 : PriorityAt(i) < p
        /\ k0 < e => PriorityAt(k0) >= p
        /\ lower_bound(p) = k0
    BY <1>3, <1>4, <2>1, StdLowerBoundType DEF lower_bound
  <2> HIDE DEF b, e, f, num, k0
  <2>4. k0 # e
    <3> SUFFICES ASSUME k0 = e PROVE FALSE
      OBVIOUS
    <3>1. f + (num - 1) \in b .. k0 - 1 /\ num - 1 \in 0 .. num - 1
      BY <1>3, <2>2
    <3>2. PriorityAt(Phys(num - 1)) < p /\ PriorityAt(Phys(num - 1)) >= p
      BY <1>2, <2>2, <2>3, <3>1 DEF num
    <3>3. PriorityAt(Phys(num - 1)) \in Nat
      BY <3>1, <1>3, PhysFact, PriorityType DEF Position
    <3> QED BY <3>2, <3>3
  <2>5. k0 # b
    <3> SUFFICES ASSUME k0 = b PROVE FALSE
      OBVIOUS
    <3>1. PriorityAt(k0) >= p /\ k0 = Phys(0)
      BY <1>3, <2>2, <2>3, <2>4
    <3>2. PriorityAt(Phys(0)) \in Nat
      BY <1>3, PhysFact, PriorityType DEF Position
    <3> QED BY <3>1, <3>2, <1>2
  <2>6. /\ k0 - f \in 1 .. num - 1
        /\ \A k \in 0 .. (k0 - f) - 1 : k \in 0 .. num - 1 /\ f + k \in b .. k0 - 1
        /\ k0 < e /\ f + (k0 - f) = k0
    BY <1>3, <2>2, <2>3, <2>4, <2>5
  <2>7. /\ k0 = Phys(k0 - f)
        /\ \A k \in 0 .. (k0 - f) - 1 : PriorityAt(Phys(k)) < p
        /\ PriorityAt(Phys(k0 - f)) >= p
    <3>1. k0 - f \in 0 .. num - 1
      BY <1>3, <2>6
    <3> QED BY <2>2, <2>3, <2>6, <3>1
  <2> QED BY <2>3, <2>6, <2>7 DEF num
<1>5. CASE Wrapped
  <2>1. e < b
    BY <1>5 DEF Wrapped
  <2> DEFINE n1 == MaxNumMsg - f
  <2>2. /\ e = num - n1 /\ n1 \in 1 .. num
        /\ \A k \in 0 .. n1 - 1 : Phys(k) = f + k
        /\ \A k \in n1 .. num - 1 : Phys(k) = k - n1
    BY <2>1, <1>3 DEF Phys
  <2> DEFINE upper == StdLowerBound(b, MaxNumMsg, p)
             lower == StdLowerBound(0, e, p)
  <2>3. /\ upper \in b .. MaxNumMsg
        /\ \A i \in b .. upper - 1 : PriorityAt(i) < p
        /\ upper < MaxNumMsg => PriorityAt(upper) >= p
    <3>1. b <= MaxNumMsg /\ MaxNumMsg <= MaxNumMsg
      BY <1>3
    <3> QED BY <1>3, <3>1, StdLowerBoundType
  <2>4. /\ lower \in 0 .. e
        /\ \A i \in 0 .. lower - 1 : PriorityAt(i) < p
        /\ lower < e => PriorityAt(lower) >= p
    BY <1>3, StdLowerBoundType
  <2>5. lower_bound(p) = IF upper = MaxNumMsg THEN lower ELSE upper
    BY <1>5 DEF lower_bound
  <2>t. \A k \in 0 .. num - 1 : PriorityAt(Phys(k)) \in Nat
    <3>1. \A k \in 0 .. num - 1 : k \in Position
      BY <1>3 DEF Position
    <3> QED BY <3>1, PhysFact, PriorityType
  <2>0. PriorityAt(Phys(0)) < p /\ PriorityAt(Phys(num - 1)) >= p
    BY <1>2
  <2> HIDE DEF b, e, f, num, upper, lower, n1
  <2>m. n1 = MaxNumMsg - f
    BY DEF n1
  <2>6. CASE upper # MaxNumMsg
    <3> DEFINE c == upper - f
    <3>1. /\ c \in 0 .. n1 - 1 /\ c \in 0 .. num - 1 /\ upper = f + c
          /\ \A k \in 0 .. c - 1 : f + k \in b .. upper - 1 /\ k \in 0 .. n1 - 1
          /\ upper < MaxNumMsg
      BY <1>3, <2>2, <2>3, <2>6, <2>m
    <3> HIDE DEF c
    <3>2. /\ upper = Phys(c)
          /\ \A k \in 0 .. c - 1 : PriorityAt(Phys(k)) < p
          /\ PriorityAt(Phys(c)) >= p
      BY <2>2, <2>3, <3>1
    <3>3. c # 0
      BY <3>2, <2>0, <2>t, <1>3
    <3>4. c \in 1 .. num - 1
      BY <3>1, <3>3, <1>3
    <3> QED BY <2>5, <2>6, <3>2, <3>4 DEF num
  <2>7. CASE upper = MaxNumMsg
    <3>1. \A k \in 0 .. n1 - 1 : PriorityAt(Phys(k)) < p
      <4>1. \A k \in 0 .. n1 - 1 : f + k \in b .. upper - 1
        BY <1>3, <2>2, <2>7, <2>m
      <4> QED BY <4>1, <2>2, <2>3
    <3>2. n1 # num
      <4> SUFFICES ASSUME n1 = num PROVE FALSE
        OBVIOUS
      <4>1. num - 1 \in 0 .. n1 - 1 /\ num - 1 \in 0 .. num - 1
        BY <1>3
      <4> QED BY <4>1, <3>1, <2>0, <2>t
    <3>3. e > 0
      BY <3>2, <2>2, <1>3
    <3> DEFINE c == lower + n1
    <3>4. /\ c \in n1 .. num /\ lower = c - n1
          /\ \A k \in n1 .. c - 1 : k - n1 \in 0 .. lower - 1 /\ k \in n1 .. num - 1
      BY <2>2, <2>4, <1>3
    <3> HIDE DEF c
    <3>5. \A k \in n1 .. c - 1 : PriorityAt(Phys(k)) < p
      BY <3>4, <2>2, <2>4
    <3>6. c # num
      <4> SUFFICES ASSUME c = num PROVE FALSE
        OBVIOUS
      <4>1. num - 1 \in n1 .. c - 1 /\ num - 1 \in 0 .. num - 1
        BY <1>3, <3>2, <2>2
      <4> QED BY <4>1, <3>5, <2>0, <2>t
    <3>7. c \in n1 .. num - 1 /\ lower < e /\ c \in 1 .. num - 1
      BY <3>4, <3>6, <2>2, <1>3
    <3>8. PriorityAt(Phys(c)) >= p /\ lower = Phys(c)
      BY <3>4, <3>7, <2>2, <2>4
    <3>9. \A k \in 0 .. c - 1 : k \in 0 .. n1 - 1 \/ k \in n1 .. c - 1
      BY <3>4, <2>2, <1>3
    <3>10. \A k \in 0 .. c - 1 : PriorityAt(Phys(k)) < p
      BY <3>1, <3>5, <3>9
    <3> QED BY <2>5, <2>7, <3>7, <3>8, <3>10 DEF num
  <2> QED BY <2>6, <2>7
<1> QED BY <1>4, <1>5

\* Wherever queue_free_msg puts a message, everything below is at most as
\* urgent and everything above at least as urgent.
LEMMA QueuePlace ==
  ASSUME IndexTypeOK, IndexIsPermutation, ~is_full, FirstOK, StoredSorted, NEW p \in Nat
  PROVE  \E c \in 0 .. m_cur_num_msg :
           /\ Shifted(queue_free_msg(p), c)
           /\ \A k \in 0 .. c - 1 : PriorityAt(Phys(k)) < p
           /\ \A k \in c .. m_cur_num_msg - 1 : PriorityAt(Phys(k)) >= p
<1>1. /\ inserted_ptr_begin = Phys(0) /\ inserted_ptr_end = Phys(m_cur_num_msg)
      /\ m_cur_first_msg = Phys(0)
      /\ m_cur_num_msg \in 0 .. MaxNumMsg - 1 /\ MaxNumMsg \in Nat
      /\ \A j, k \in 0 .. MaxNumMsg - 1 : Phys(j) = Phys(k) => j = k
      /\ \A k \in 0 .. MaxNumMsg - 1 : ~CircularIndex => Phys(k) = k
  <2>1. m_cur_num_msg \in 0 .. MaxNumMsg - 1 /\ MaxNumMsg \in Nat
    BY Numbers
  <2>2. \A k \in 0 .. MaxNumMsg - 1 : ~CircularIndex => Phys(k) = k
    BY <2>1 DEF Phys, FirstOK
  <2> QED BY <2>1, <2>2, EndIsPlace, PhysFact DEF Position
<1>2. ASSUME NEW c \in 0 .. m_cur_num_msg
      PROVE  Shifted(insert_at(Phys(c)), c)
  <2>0. c \in 0 .. MaxNumMsg - 1 /\ 0 \in 0 .. MaxNumMsg - 1
    BY <1>1
  <2>1. CASE ~CircularIndex
    BY <2>0, <2>1, <1>1, LinearShift DEF insert_at
  <2>2. CASE CircularIndex
    <3>1. CASE c = 0
      BY <2>2, <3>1, <1>1, ExtendFrontShift DEF insert_at, CircularInsertAt
    <3>2. CASE c # 0 /\ c = m_cur_num_msg
      <4>1. Phys(c) # Phys(0)
        BY <2>0, <3>2, <1>1
      <4>2. insert_at(Phys(c)) = ExtendBack
        BY <4>1, <2>2, <3>2, <1>1 DEF insert_at, CircularInsertAt
      <4> QED BY <4>2, <3>2, ExtendBackShift
    <3>3. CASE c # 0 /\ c # m_cur_num_msg
      <4>1. Phys(c) # Phys(0) /\ Phys(c) # Phys(m_cur_num_msg) /\ c \in 1 .. m_cur_num_msg - 1
        BY <2>0, <3>3, <1>1
      <4>2. insert_at(Phys(c)) = MoveFront(Phys(c)) \/ insert_at(Phys(c)) = MoveBack(Phys(c))
        BY <4>1, <2>2, <1>1 DEF insert_at, CircularInsertAt
      <4> QED BY <4>1, <4>2, MoveFrontShift, MoveBackShift
    <3> QED BY <3>1, <3>2, <3>3
  <2> QED BY <2>1, <2>2
<1>3. /\ \A k \in 0 .. m_cur_num_msg - 1 : PriorityAt(Phys(k)) \in Nat
      /\ m_cur_num_msg # 0 => /\ msg[bottom_msg].priority = PriorityAt(Phys(0))
                              /\ msg[top_msg].priority = PriorityAt(Phys(m_cur_num_msg - 1))
  <2>1. \A k \in 0 .. m_cur_num_msg - 1 : k \in Position
    BY <1>1 DEF Position
  <2>2. \A k \in 0 .. m_cur_num_msg - 1 : PriorityAt(Phys(k)) \in Nat
    BY <2>1, PhysFact, PriorityType
  <2>3. msg[bottom_msg].priority = PriorityAt(Phys(0))
    BY <1>1 DEF bottom_msg, PriorityAt
  <2>4. ASSUME m_cur_num_msg # 0
        PROVE  msg[top_msg].priority = PriorityAt(Phys(m_cur_num_msg - 1))
    BY <2>4, TopIsPlace DEF PriorityAt
  <2> QED BY <2>2, <2>3, <2>4
<1>4. CASE UsesLowerBound(p)
  <2>1. PICK c \in 1 .. m_cur_num_msg - 1 :
          /\ lower_bound(p) = Phys(c)
          /\ \A k \in 0 .. c - 1 : PriorityAt(Phys(k)) < p
          /\ PriorityAt(Phys(c)) >= p
    BY <1>4, LowerBoundPlace
  <2>2. queue_free_msg(p) = insert_at(Phys(c)) /\ c \in 0 .. m_cur_num_msg
    <3>0. ~(p > msg[top_msg].priority)
      <4>1. m_cur_num_msg # 0 /\ m_cur_num_msg - 1 \in 0 .. m_cur_num_msg - 1
        BY <1>1, <1>4 DEF UsesLowerBound, is_empty
      <4> QED BY <1>3, <1>4, <4>1 DEF UsesLowerBound
    <3>1. queue_free_msg(p) = insert_at(lower_bound(p))
      BY <1>4, <3>0 DEF queue_free_msg
    <3> QED BY <1>1, <2>1, <3>1
  <2>3. \A k \in c .. m_cur_num_msg - 1 : PriorityAt(Phys(k)) >= p
    <3> TAKE k \in c .. m_cur_num_msg - 1
    <3>1. c \in 0 .. m_cur_num_msg - 1 /\ k \in 0 .. m_cur_num_msg - 1 /\ (k = c \/ c < k)
      BY <1>1
    <3>2. c < k => PriorityAt(Phys(c)) <= PriorityAt(Phys(k))
      BY <3>1 DEF StoredSorted
    <3> QED BY <1>3, <2>1, <3>1, <3>2
  <2> QED BY <1>2, <2>1, <2>2, <2>3
<1>5. CASE ~UsesLowerBound(p) /\ ~is_empty /\ p > msg[bottom_msg].priority
  <2>1. m_cur_num_msg # 0 /\ m_cur_num_msg - 1 \in 0 .. m_cur_num_msg - 1
    BY <1>1, <1>5 DEF is_empty
  <2>2. ~(p <= msg[top_msg].priority)
    BY <1>5 DEF UsesLowerBound
  <2>3. p > msg[top_msg].priority
    BY <1>3, <2>1, <2>2
  <2>4. queue_free_msg(p) = insert_at(Phys(m_cur_num_msg))
    BY <1>1, <1>5, <2>3 DEF queue_free_msg
  <2>5. \A k \in 0 .. m_cur_num_msg - 1 : PriorityAt(Phys(k)) < p
    <3> TAKE k \in 0 .. m_cur_num_msg - 1
    <3>1. k = m_cur_num_msg - 1 \/ k < m_cur_num_msg - 1
      BY <1>1
    <3>2. k < m_cur_num_msg - 1 => PriorityAt(Phys(k)) <= PriorityAt(Phys(m_cur_num_msg - 1))
      BY <2>1 DEF StoredSorted
    <3> QED BY <1>3, <2>1, <2>3, <3>1, <3>2
  <2>6. m_cur_num_msg .. m_cur_num_msg - 1 = {} /\ m_cur_num_msg \in 0 .. m_cur_num_msg
    BY <1>1
  <2> QED BY <1>2, <2>4, <2>5, <2>6
<1>6. CASE ~UsesLowerBound(p) /\ ~(~is_empty /\ p > msg[bottom_msg].priority)
  <2>1. queue_free_msg(p) = insert_at(Phys(0))
    BY <1>1, <1>6 DEF queue_free_msg
  <2>2. \A k \in 0 .. m_cur_num_msg - 1 : PriorityAt(Phys(k)) >= p
    <3> TAKE k \in 0 .. m_cur_num_msg - 1
    <3>1. m_cur_num_msg # 0 /\ 0 \in 0 .. m_cur_num_msg - 1 /\ (k = 0 \/ 0 < k)
      BY <1>1
    <3>2. ~(p > PriorityAt(Phys(0)))
      BY <1>3, <1>6, <3>1 DEF is_empty
    <3>3. 0 < k => PriorityAt(Phys(0)) <= PriorityAt(Phys(k))
      BY <3>1 DEF StoredSorted
    <3> QED BY <1>3, <3>1, <3>2, <3>3
  <2>3. 0 .. 0 - 1 = {} /\ 0 \in 0 .. m_cur_num_msg
    BY <1>1
  <2> QED BY <1>2, <2>1, <2>2, <2>3
<1> QED BY <1>4, <1>5, <1>6

OrderInv == TypeAndPermutation /\ FirstOK /\ StoredSorted /\ FreeMsgsClean

\* The message at the k-th place.
Hdr(k) == msg[mp_index[Phys(k)]]

\* do_send's insertion puts the new message at one place c, above all less
\* urgent messages and below all others, moves what was above up one place,
\* and leaves the free messages free.
LEMMA StoreShape ==
  ASSUME OrderInv, NEW p \in Priority, NEW b \in Buffer, StoreMsg(p, b)
  PROVE  \E c \in 0 .. m_cur_num_msg :
           /\ \A k \in 0 .. c - 1 : Hdr(k).priority < p
           /\ \A k \in c .. m_cur_num_msg - 1 : Hdr(k).priority >= p
           /\ \A k \in 0 .. m_cur_num_msg :
                Hdr(k)' = IF k < c THEN Hdr(k)
                          ELSE IF k = c
                               THEN [len |-> Size[b], priority |-> p, data |-> Content(b)]
                               ELSE Hdr(k - 1)
           /\ \A k \in m_cur_num_msg + 1 .. MaxNumMsg - 1 :
                \E e \in m_cur_num_msg .. MaxNumMsg - 1 : Hdr(k)' = Hdr(e)
<1> DEFINE room == queue_free_msg(p)
           num == m_cur_num_msg
           N == MaxNumMsg
           new == [len |-> Size[b], priority |-> p, data |-> Content(b)]
           nb == room.index[room.at]
           Q(k) == At(room.first, k)
<1>1. /\ p \in Nat /\ ~is_full
      /\ IndexTypeOK /\ IndexIsPermutation /\ FirstOK /\ StoredSorted
  BY ConstantsAssumption DEF StoreMsg, OrderInv, TypeAndPermutation
<1>2. RoomOK(room)
  BY <1>1, QueueFreeMsgOK
<1>3. /\ mp_index' = room.index
      /\ m_cur_first_msg' = room.first
      /\ msg' = [msg EXCEPT ![nb] = new]
  BY DEF StoreMsg
<1>4. PICK c \in 0 .. num :
        /\ Shifted(room, c)
        /\ \A k \in 0 .. c - 1 : PriorityAt(Phys(k)) < p
        /\ \A k \in c .. num - 1 : PriorityAt(Phys(k)) >= p
  BY <1>1, QueuePlace
<1>5. /\ N \in Nat /\ num \in 0 .. N - 1 /\ c \in 0 .. N - 1
      /\ room.first \in 0 .. N - 1 /\ Position = 0 .. N - 1
      /\ m_cur_first_msg \in 0 .. N - 1
  BY <1>1, <1>2, Numbers DEF RoomOK, Position
<1>6. \A k \in 0 .. N - 1 : Phys(k)' = Q(k) /\ Q(k) \in Position
  BY <1>3, <1>5 DEF Phys, At
<1>7. \A j, k \in 0 .. N - 1 : Q(j) = Q(k) => j = k
  BY <1>5 DEF At
<1>8. \A k \in 0 .. N - 1 : room.index[Q(k)] = nb => k = c
  <2> TAKE k \in 0 .. N - 1
  <2>1. room.at = Q(c) /\ Q(c) \in Position /\ Q(k) \in Position
    BY <1>4, <1>5, <1>6 DEF Shifted
  <2> QED BY <2>1, <1>2, <1>5, <1>7 DEF RoomOK
<1>9. \A k \in 0 .. N - 1 : msg'[room.index[Q(k)]] = IF k = c THEN new ELSE msg[room.index[Q(k)]]
  <2> TAKE k \in 0 .. N - 1
  <2>1. room.index[Q(k)] \in Position /\ msg \in [Position -> MsgHdr]
    BY <1>1, <1>2, <1>6 DEF RoomOK, IndexTypeOK
  <2>2. k = c => room.index[Q(k)] = nb
    BY <1>4 DEF Shifted
  <2> HIDE DEF nb, new
  <2> QED BY <1>3, <1>8, <2>1, <2>2
<1> HIDE DEF Q, nb, room
<1>10. ASSUME NEW k \in 0 .. N - 1
       PROVE  Hdr(k)' = IF k = c THEN new ELSE msg[room.index[Q(k)]]
  <2>1. Hdr(k)' = msg'[room.index[Q(k)]]
    BY <1>3, <1>6 DEF Hdr
  <2> HIDE DEF new
  <2> QED BY <1>9, <2>1
<1>11. ASSUME NEW k \in 0 .. num
       PROVE  Hdr(k)' = IF k < c THEN Hdr(k) ELSE IF k = c THEN new ELSE Hdr(k - 1)
  <2> HIDE DEF new
  <2>1. k \in 0 .. N - 1
    BY <1>5
  <2>2. CASE k = c
    BY <1>5, <1>10, <2>1, <2>2
  <2>3. CASE k < c
    <3>1. k \in 0 .. c - 1
      BY <1>5, <2>3
    <3>2. room.index[Q(k)] = mp_index[Phys(k)]
      BY <1>4, <3>1 DEF Shifted, Q
    <3> QED BY <1>5, <1>10, <2>1, <2>3, <3>2 DEF Hdr
  <2>4. CASE k > c
    <3>1. k \in c + 1 .. num
      BY <1>5, <2>4
    <3>2. room.index[Q(k)] = mp_index[Phys(k - 1)]
      BY <1>4, <3>1 DEF Shifted, Q
    <3> QED BY <1>5, <1>10, <2>1, <2>4, <3>2 DEF Hdr
  <2> QED BY <1>5, <2>2, <2>3, <2>4
<1>12. ASSUME NEW k \in num + 1 .. N - 1
       PROVE  \E e \in num .. N - 1 : Hdr(k)' = Hdr(e)
  <2>1. k \in 0 .. N - 1 /\ k # c
    BY <1>5
  <2>2. PICK e \in num .. N - 1 : room.index[Q(k)] = mp_index[Phys(e)]
    BY <1>4 DEF Shifted, Q
  <2>3. Hdr(k)' = msg[room.index[Q(k)]]
    BY <1>10, <2>1
  <2> QED BY <2>2, <2>3 DEF Hdr
<1>13. /\ \A k \in 0 .. c - 1 : Hdr(k).priority < p
       /\ \A k \in c .. num - 1 : Hdr(k).priority >= p
  BY <1>4 DEF PriorityAt, Hdr
<1> QED BY <1>11, <1>12, <1>13

\* do_send's insertion keeps the order, and takes a clean buffer.
LEMMA StoreKeepsOrder ==
  ASSUME OrderInv, NEW p \in Priority, NEW b \in Buffer, StoreMsg(p, b)
  PROVE  OrderInv'
<1> DEFINE num == m_cur_num_msg
           N == MaxNumMsg
           new == [len |-> Size[b], priority |-> p, data |-> Content(b)]
           Old(k) == Hdr(k).priority
<1>1. PICK c \in 0 .. num :
        /\ \A k \in 0 .. c - 1 : Hdr(k).priority < p
        /\ \A k \in c .. num - 1 : Hdr(k).priority >= p
        /\ \A k \in 0 .. num :
             Hdr(k)' = IF k < c THEN Hdr(k) ELSE IF k = c THEN new ELSE Hdr(k - 1)
        /\ \A k \in num + 1 .. N - 1 : \E e \in num .. N - 1 : Hdr(k)' = Hdr(e)
  BY StoreShape
<1>2. /\ p \in Nat /\ N \in Nat /\ num \in 0 .. N - 1 /\ m_cur_num_msg' = num + 1
      /\ IndexTypeOK
  BY ConstantsAssumption, Numbers DEF StoreMsg, OrderInv, TypeAndPermutation
<1>3. TypeAndPermutation'
  BY StorePreserves DEF OrderInv
<1>4. FirstOK'
  <2>1. CASE CircularIndex
    BY <2>1 DEF FirstOK
  <2>2. CASE ~CircularIndex
    BY <2>2 DEF StoreMsg, queue_free_msg, insert_at, LinearInsertAt, OrderInv, FirstOK
  <2> QED BY <2>1, <2>2
<1>5. /\ \A k \in 0 .. num - 1 : Old(k) \in Nat
      /\ \A i, j \in 0 .. num - 1 : i < j => Old(i) <= Old(j)
      /\ \A k \in 0 .. c - 1 : Old(k) < p
      /\ \A k \in c .. num - 1 : Old(k) >= p
  <2>1. \A k \in 0 .. num - 1 : k \in Position
    BY <1>2 DEF Position
  <2>2. \A k \in 0 .. num - 1 : PriorityAt(Phys(k)) \in Nat
    BY <1>2, <2>1, PhysFact, PriorityType
  <2> QED BY <1>1, <2>2 DEF PriorityAt, Hdr, OrderInv, StoredSorted
<1>6. ASSUME NEW k \in 0 .. num
      PROVE  Hdr(k).priority' = IF k < c THEN Old(k) ELSE IF k = c THEN p ELSE Old(k - 1)
  <2>1. new.priority = p
    OBVIOUS
  <2> HIDE DEF new
  <2> QED BY <1>1, <2>1
<1>7. StoredSorted'
  <2> SUFFICES ASSUME NEW i \in 0 .. num, NEW j \in 0 .. num, i < j
               PROVE  Hdr(i).priority' <= Hdr(j).priority'
    BY <1>2 DEF StoredSorted, PriorityAt, Hdr
  <2>1. /\ Hdr(i).priority' = IF i < c THEN Old(i) ELSE IF i = c THEN p ELSE Old(i - 1)
        /\ Hdr(j).priority' = IF j < c THEN Old(j) ELSE IF j = c THEN p ELSE Old(j - 1)
    BY <1>6
  <2> HIDE DEF Old
  <2>2. CASE j < c
    <3>1. i \in 0 .. num - 1 /\ j \in 0 .. num - 1
      BY <1>2, <2>2
    <3> QED BY <1>2, <1>5, <2>1, <2>2, <3>1
  <2>3. CASE j = c
    <3>1. i \in 0 .. c - 1 /\ i \in 0 .. num - 1
      BY <1>2, <2>3
    <3> QED BY <1>2, <1>5, <2>1, <2>3, <3>1
  <2>4. CASE j > c
    <3>1. j - 1 \in 0 .. num - 1 /\ j - 1 \in c .. num - 1
      BY <1>2, <2>4
    <3>2. Hdr(j).priority' = Old(j - 1)
      BY <1>2, <2>1, <2>4
    <3>3. CASE i < c
      <4>1. i \in 0 .. c - 1 /\ i \in 0 .. num - 1 /\ i < j - 1
        BY <1>2, <2>4, <3>3
      <4> QED BY <1>5, <2>1, <3>1, <3>2, <3>3, <4>1
    <3>4. CASE i = c
      BY <1>2, <1>5, <2>1, <3>1, <3>2, <3>4
    <3>5. CASE i > c
      <4>1. i - 1 \in 0 .. num - 1 /\ i - 1 < j - 1
        BY <1>2, <3>5
      <4> QED BY <1>2, <1>5, <2>1, <3>1, <3>2, <3>5, <4>1
    <3> QED BY <1>2, <3>3, <3>4, <3>5
  <2> QED BY <1>2, <2>2, <2>3, <2>4
<1>8. FreeMsgsClean'
  <2> SUFFICES ASSUME NEW k \in num + 1 .. N - 1
               PROVE  Hdr(k).priority' = 0 /\ Hdr(k).len' = 0
    BY <1>2 DEF FreeMsgsClean, Hdr
  <2>1. PICK e \in num .. N - 1 : Hdr(k)' = Hdr(e)
    BY <1>1
  <2>2. Hdr(e).priority = 0 /\ Hdr(e).len = 0
    BY DEF OrderInv, FreeMsgsClean, Hdr
  <2> QED BY <2>1, <2>2
<1> QED BY <1>3, <1>4, <1>7, <1>8 DEF OrderInv

\* do_receive's removal takes the message at the top place and cleans it, and
\* no other.
LEMMA TakeShape ==
  ASSUME OrderInv, TakeTopMsg
  PROVE  /\ m_cur_num_msg \in 1 .. MaxNumMsg
         /\ msg[top_msg] = Hdr(m_cur_num_msg - 1)
         /\ \A k \in 0 .. MaxNumMsg - 1 :
              Hdr(k)' = IF k = m_cur_num_msg - 1 THEN CleanMsg ELSE Hdr(k)
<1> DEFINE num == m_cur_num_msg
           N == MaxNumMsg
<1>1. /\ num \in 1 .. N /\ N \in Nat /\ Position = 0 .. N - 1
      /\ m_cur_first_msg \in 0 .. N - 1
      /\ mp_index' = mp_index /\ m_cur_first_msg' = m_cur_first_msg
      /\ msg' = [msg EXCEPT ![top_msg] = CleanMsg]
      /\ msg \in [Position -> MsgHdr] /\ mp_index \in [Position -> Position]
  BY ConstantsAssumption
  DEF OrderInv, TypeAndPermutation, IndexTypeOK, TakeTopMsg, is_empty, Position
<1>2. top_msg = mp_index[Phys(num - 1)]
  <2>1. (IF end_pos # 0 THEN end_pos - 1 ELSE N - 1) = Phys(num - 1)
    BY <1>1 DEF end_pos, Phys
  <2>2. ~CircularIndex => num - 1 = Phys(num - 1)
    BY <1>1 DEF Phys, OrderInv, FirstOK
  <2> QED BY <2>1, <2>2 DEF top_msg
<1>3. /\ \A k \in 0 .. N - 1 : Phys(k)' = Phys(k) /\ Phys(k) \in Position
      /\ \A j, k \in 0 .. N - 1 : Phys(j) = Phys(k) => j = k
  BY <1>1, PhysFact DEF OrderInv, TypeAndPermutation, Phys
<1>4. ASSUME NEW k \in 0 .. N - 1
      PROVE  Hdr(k)' = IF k = num - 1 THEN CleanMsg ELSE Hdr(k)
  <2>1. num - 1 \in 0 .. N - 1
    BY <1>1
  <2>2. mp_index[Phys(k)] = mp_index[Phys(num - 1)] => k = num - 1
    BY <1>3, <2>1 DEF OrderInv, TypeAndPermutation, IndexIsPermutation
  <2>3. mp_index[Phys(k)] \in Position
    BY <1>1, <1>3
  <2>4. Hdr(k)' = msg'[mp_index[Phys(k)]]
    BY <1>1, <1>3 DEF Hdr
  <2> QED BY <1>1, <1>2, <2>2, <2>3, <2>4 DEF Hdr
<1> QED BY <1>1, <1>2, <1>4 DEF Hdr

\* do_receive's removal keeps the order, and frees a clean buffer.
LEMMA TakeKeepsOrder ==
  ASSUME OrderInv, TakeTopMsg
  PROVE  OrderInv'
<1> DEFINE num == m_cur_num_msg
           N == MaxNumMsg
<1>1. /\ num \in 1 .. N /\ N \in Nat /\ num' = num - 1 /\ m_cur_first_msg' = m_cur_first_msg
      /\ \A k \in 0 .. N - 1 : Hdr(k)' = IF k = num - 1 THEN CleanMsg ELSE Hdr(k)
  BY TakeShape, ConstantsAssumption DEF TakeTopMsg
<1>2. TypeAndPermutation'
  BY TakePreserves DEF OrderInv
<1>3. FirstOK'
  BY <1>1 DEF OrderInv, FirstOK
<1>4. StoredSorted'
  <2> SUFFICES ASSUME NEW i \in 0 .. num - 2, NEW j \in 0 .. num - 2, i < j
               PROVE  Hdr(i).priority' <= Hdr(j).priority'
    BY <1>1 DEF StoredSorted, PriorityAt, Hdr
  <2>1. /\ i \in 0 .. N - 1 /\ i # num - 1 /\ i \in 0 .. num - 1
        /\ j \in 0 .. N - 1 /\ j # num - 1 /\ j \in 0 .. num - 1
    BY <1>1
  <2>2. Hdr(i)' = Hdr(i) /\ Hdr(j)' = Hdr(j)
    BY <1>1, <2>1
  <2>3. Hdr(i).priority <= Hdr(j).priority
    BY <2>1 DEF OrderInv, StoredSorted, PriorityAt, Hdr
  <2> QED BY <2>2, <2>3
<1>5. FreeMsgsClean'
  <2> SUFFICES ASSUME NEW k \in num - 1 .. N - 1
               PROVE  Hdr(k).priority' = 0 /\ Hdr(k).len' = 0
    BY <1>1 DEF FreeMsgsClean, Hdr
  <2>1. k \in 0 .. N - 1 /\ (k = num - 1 \/ k \in num .. N - 1)
    BY <1>1
  <2>2. Hdr(k)' = IF k = num - 1 THEN CleanMsg ELSE Hdr(k)
    BY <1>1, <2>1
  <2>3. k \in num .. N - 1 => Hdr(k).priority = 0 /\ Hdr(k).len = 0
    BY DEF OrderInv, FreeMsgsClean, Hdr
  <2>4. CleanMsg.priority = 0 /\ CleanMsg.len = 0
    BY DEF CleanMsg
  <2> QED BY <2>1, <2>2, <2>3, <2>4
<1> QED BY <1>2, <1>3, <1>4, <1>5 DEF OrderInv

\* For every capacity and both kinds of index.
LEMMA OrderInvariant == IndexSpec => []OrderInv
<1>1. IndexInit => OrderInv
  <2> SUFFICES ASSUME IndexInit PROVE OrderInv
    OBVIOUS
  <2>1. TypeAndPermutation
    <3>1. CleanMsg \in MsgHdr
      BY DEF CleanMsg, MsgHdr
    <3> QED
      BY <3>1, ConstantsAssumption
      DEF IndexInit, TypeAndPermutation, IndexTypeOK, IndexIsPermutation, Position
  <2>2. FirstOK /\ StoredSorted
    BY DEF IndexInit, FirstOK, StoredSorted
  <2>3. FreeMsgsClean
    <3>1. \A i \in 0 .. MaxNumMsg - 1 : mp_index[Phys(i)] \in Position
      BY ConstantsAssumption DEF IndexInit, Phys, Position
    <3> QED BY <3>1 DEF IndexInit, FreeMsgsClean, CleanMsg
  <2> QED BY <2>1, <2>2, <2>3 DEF OrderInv
<1>2. OrderInv /\ [IndexNext]_indexVars => OrderInv'
  <2> SUFFICES ASSUME OrderInv, [IndexNext]_indexVars PROVE OrderInv'
    OBVIOUS
  <2>1. CASE IndexNext
    BY <2>1, StoreKeepsOrder, TakeKeepsOrder DEF IndexNext
  <2>2. CASE UNCHANGED indexVars
    BY <2>2 DEF indexVars, OrderInv, TypeAndPermutation, IndexTypeOK, IndexIsPermutation,
                FirstOK, StoredSorted, PriorityAt, Phys, FreeMsgsClean
  <2> QED
    BY <2>1, <2>2
<1> QED
  BY <1>1, <1>2, PTL DEF IndexSpec

\* The inserted messages stay ordered by priority across the wrap, whichever
\* segments insert_at moves.
THEOREM AlwaysSorted == IndexSpec => []StoredSorted
BY OrderInvariant, PTL DEF OrderInv

\* do_send's sanity check: the free message it is given was cleaned.
THEOREM FreeMsgsAreClean == IndexSpec => []FreeMsgsClean
BY OrderInvariant, PTL DEF OrderInv

\* The assertions inside lower_bound never fail.
THEOREM LowerBoundIsRight == IndexSpec => []LowerBoundAssertions
<1>1. OrderInv => LowerBoundAssertions
  <2> SUFFICES ASSUME OrderInv, NEW p \in Priority, ~is_full, UsesLowerBound(p)
               PROVE  lower_bound(p) # inserted_ptr_end /\ lower_bound(p) # inserted_ptr_begin
    BY DEF LowerBoundAssertions
  <2>1. IndexTypeOK /\ FirstOK /\ StoredSorted /\ p \in Nat
    BY ConstantsAssumption DEF OrderInv, TypeAndPermutation
  <2>2. PICK c \in 1 .. m_cur_num_msg - 1 : lower_bound(p) = Phys(c)
    BY <2>1, LowerBoundPlace
  <2>3. /\ c \in Position /\ 0 \in Position /\ m_cur_num_msg \in Position
        /\ c # 0 /\ c # m_cur_num_msg
    BY <2>1, Numbers DEF Position
  <2> QED BY <2>1, <2>2, <2>3, PhysFact, EndIsPlace
<1> QED BY <1>1, OrderInvariant, PTL

-----------------------------------------------------------------------------
\* Part 3: the index as a priority queue.

\* The messages of priority p are those at the places lo .. hi - 1 of the n
\* messages H, which are sorted.
Segment(H, n, p, lo, hi) ==
  /\ lo \in 0 .. n /\ hi \in 0 .. n /\ lo <= hi
  /\ \A i \in 0 .. n - 1 :
       /\ H[i].priority \in Nat
       /\ i < lo <=> H[i].priority < p
       /\ hi <= i <=> H[i].priority > p

\* These messages, from the top one down.
Downwards(H, lo, hi) == [k \in 1 .. hi - lo |-> Payload(H[hi - k])]

\* Sorted messages have such places.
LEMMA SegmentExists ==
  ASSUME NEW n \in Nat, NEW H, NEW p \in Nat,
         \A i \in 0 .. n - 1 : H[i].priority \in Nat,
         \A i, j \in 0 .. n - 1 : i < j => H[i].priority <= H[j].priority
  PROVE  \E lo, hi : Segment(H, n, p, lo, hi)
<1> DEFINE L == {i \in 0 .. n : i = n \/ H[i].priority >= p}
           U == {i \in 0 .. n : i = n \/ H[i].priority > p}
<1>1. L \subseteq Nat /\ U \subseteq Nat /\ n \in L /\ n \in U
  OBVIOUS
<1>2. PICK lo \in L : \A y \in L : lo <= y
  <2> HIDE DEF L
  <2> QED BY <1>1, LeastNatural
<1>3. PICK hi \in U : \A y \in U : hi <= y
  <2> HIDE DEF U
  <2> QED BY <1>1, LeastNatural
<1>4. lo \in 0 .. n /\ hi \in 0 .. n
  OBVIOUS
<1>5. lo <= hi
  <2>1. hi = n \/ (hi \in 0 .. n - 1 /\ H[hi].priority > p)
    BY <1>4
  <2>2. hi \in L
    BY <1>4, <2>1
  <2> QED BY <1>2, <2>2
<1>6. ASSUME NEW i \in 0 .. n - 1 PROVE i < lo <=> H[i].priority < p
  <2>1. ASSUME i < lo PROVE H[i].priority < p
    <3>1. i \notin L /\ i \in 0 .. n
      BY <1>1, <1>2, <2>1
    <3> QED BY <3>1
  <2>2. ASSUME ~(i < lo) PROVE ~(H[i].priority < p)
    <3>1. lo \in 0 .. n - 1 /\ H[lo].priority >= p /\ (lo = i \/ lo < i)
      BY <1>4, <2>2
    <3>2. lo < i => H[lo].priority <= H[i].priority
      BY <3>1
    <3>3. H[lo].priority \in Nat /\ H[i].priority \in Nat
      BY <3>1
    <3> QED BY <3>1, <3>2, <3>3
  <2> QED BY <2>1, <2>2
<1>7. ASSUME NEW i \in 0 .. n - 1 PROVE hi <= i <=> H[i].priority > p
  <2>1. ASSUME ~(hi <= i) PROVE ~(H[i].priority > p)
    <3>1. i \notin U /\ i \in 0 .. n
      BY <1>1, <1>3, <2>1
    <3> QED BY <3>1
  <2>2. ASSUME hi <= i PROVE H[i].priority > p
    <3>1. hi \in 0 .. n - 1 /\ H[hi].priority > p /\ (hi = i \/ hi < i)
      BY <1>4, <2>2
    <3>2. hi < i => H[hi].priority <= H[i].priority
      BY <3>1
    <3>3. H[hi].priority \in Nat /\ H[i].priority \in Nat
      BY <3>1
    <3> QED BY <3>1, <3>2, <3>3
  <2> QED BY <2>1, <2>2
<1> QED BY <1>4, <1>5, <1>6, <1>7 DEF Segment

\* All n messages have priorities that senders use.
Known(H, n) == \A i \in 0 .. n - 1 : H[i].priority \in Priority

\* How many of n messages have a priority in a set.
NumIn(H, n, P) == Cardinality({i \in 0 .. n - 1 : H[i].priority \in P})

\* How many messages there are of priority p, and above it.
LEMMA SegmentCounts ==
  ASSUME NEW n \in Nat, NEW H, NEW p \in Priority, NEW lo, NEW hi, Segment(H, n, p, lo, hi),
         Known(H, n)
  PROVE  /\ NumIn(H, n, {p}) = hi - lo
         /\ NumIn(H, n, {q \in Priority : q > p}) = n - hi
<1>1. /\ p \in Nat /\ lo \in 0 .. n /\ hi \in 0 .. n /\ lo <= hi
      /\ \A i \in 0 .. n - 1 : /\ H[i].priority \in Nat
                               /\ i < lo <=> H[i].priority < p
                               /\ hi <= i <=> H[i].priority > p
  BY ConstantsAssumption DEF Segment
<1>2. {i \in 0 .. n - 1 : H[i].priority \in {p}} = lo .. hi - 1
  <2>1. ASSUME NEW i \in 0 .. n - 1 PROVE H[i].priority \in {p} <=> i \in lo .. hi - 1
    BY <1>1
  <2>2. \A i \in lo .. hi - 1 : i \in 0 .. n - 1
    BY <1>1
  <2> QED BY <2>1, <2>2
<1>3. {i \in 0 .. n - 1 : H[i].priority \in {q \in Priority : q > p}} = hi .. n - 1
  <2>1. ASSUME NEW i \in 0 .. n - 1
        PROVE  H[i].priority \in {q \in Priority : q > p} <=> i \in hi .. n - 1
    BY <1>1 DEF Known
  <2>2. \A i \in hi .. n - 1 : i \in 0 .. n - 1
    BY <1>1
  <2> QED BY <2>1, <2>2
<1>4. Cardinality(lo .. hi - 1) = hi - lo /\ Cardinality(hi .. n - 1) = n - hi
  <2>1. lo \in Int /\ hi \in Int /\ hi - 1 \in Int /\ n - 1 \in Int
    BY <1>1
  <2>2. /\ Cardinality(lo .. hi - 1) = IF lo > hi - 1 THEN 0 ELSE (hi - 1) - lo + 1
        /\ Cardinality(hi .. n - 1) = IF hi > n - 1 THEN 0 ELSE (n - 1) - hi + 1
    BY <2>1, FS_Interval
  <2> QED BY <1>1, <2>2
<1> QED BY <1>2, <1>3, <1>4 DEF NumIn

\* G are the n messages H with one of priority p put at place c.
Insertion(H, G, n, c, new, p) ==
  /\ c \in 0 .. n /\ new.priority = p
  /\ \A k \in 0 .. c - 1 : H[k].priority < p
  /\ \A k \in c .. n - 1 : H[k].priority >= p
  /\ \A k \in 0 .. n : G[k] = IF k < c THEN H[k] ELSE IF k = c THEN new ELSE H[k - 1]

\* A sequence s that gets an element x, or not.
Grown(s, x, yes) == IF yes THEN Append(s, x) ELSE s

\* What an insertion makes of the messages of priority q.
LEMMA Inserted ==
  ASSUME NEW n \in Nat, NEW H, NEW G, NEW new, NEW p \in Nat, NEW q \in Nat,
         NEW lo, NEW hi, Segment(H, n, q, lo, hi), NEW c, Insertion(H, G, n, c, new, p)
  PROVE  \E lo2, hi2 :
           /\ Segment(G, n + 1, q, lo2, hi2)
           /\ Downwards(G, lo2, hi2) = Grown(Downwards(H, lo, hi), Payload(new), q = p)
<1> DEFINE P(i) == H[i].priority
           R(i) == G[i].priority
<1> c \in 0 .. n
  BY DEF Insertion
<1>1. /\ lo \in 0 .. n /\ hi \in 0 .. n /\ lo <= hi
      /\ \A i \in 0 .. n - 1 : P(i) \in Nat /\ (i < lo <=> P(i) < q) /\ (hi <= i <=> P(i) > q)
  BY DEF Segment
<1>2. /\ \A k \in 0 .. c - 1 : P(k) < p
      /\ \A k \in c .. n - 1 : P(k) >= p
  BY DEF Insertion
<1>3. /\ \A k \in 0 .. c - 1 : G[k] = H[k] /\ R(k) = P(k)
      /\ G[c] = new /\ R(c) = p
      /\ \A k \in c + 1 .. n : G[k] = H[k - 1] /\ R(k) = P(k - 1)
  BY DEF Insertion
<1>4. ASSUME NEW lo2 \in 0 .. n + 1, NEW hi2 \in 0 .. n + 1, lo2 <= hi2,
             \A i \in 0 .. c - 1 : (i < lo2 <=> P(i) < q) /\ (hi2 <= i <=> P(i) > q),
             (c < lo2 <=> p < q) /\ (hi2 <= c <=> p > q),
             \A i \in c .. n - 1 : (i + 1 < lo2 <=> P(i) < q) /\ (hi2 <= i + 1 <=> P(i) > q)
      PROVE  Segment(G, n + 1, q, lo2, hi2)
  <2>1. ASSUME NEW i \in 0 .. n
        PROVE  R(i) \in Nat /\ (i < lo2 <=> R(i) < q) /\ (hi2 <= i <=> R(i) > q)
    <3> HIDE DEF P, R
    <3>1. CASE i < c
      <4>1. i \in 0 .. c - 1 /\ i \in 0 .. n - 1
        BY <3>1
      <4> QED BY <1>1, <1>3, <1>4, <4>1
    <3>2. CASE i = c
      BY <1>3, <1>4, <3>2
    <3>3. CASE i > c
      <4>1. i \in c + 1 .. n /\ i - 1 \in c .. n - 1 /\ i - 1 \in 0 .. n - 1 /\ (i - 1) + 1 = i
        BY <3>3
      <4>2. (i < lo2 <=> P(i - 1) < q) /\ (hi2 <= i <=> P(i - 1) > q)
        BY <1>4, <4>1
      <4> QED BY <1>1, <1>3, <4>1, <4>2
    <3> QED BY <3>1, <3>2, <3>3
  <2>2. 0 .. (n + 1) - 1 = 0 .. n
    OBVIOUS
  <2> QED BY <1>4, <2>1, <2>2 DEF Segment
<1>5. CASE q < p
  <2>1. hi <= c
    <3> HIDE DEF P
    <3>1. ASSUME hi > c PROVE FALSE
      <4>1. c \in 0 .. n - 1 /\ c \in c .. n - 1
        BY <1>1, <3>1
      <4>2. P(c) \in Nat /\ P(c) >= p /\ ~(hi <= c)
        BY <1>1, <1>2, <3>1, <4>1
      <4>3. ~(P(c) > q)
        BY <1>1, <4>1, <4>2
      <4> QED BY <1>5, <4>2, <4>3
    <3> QED BY <1>1, <3>1
  <2>2. Segment(G, n + 1, q, lo, hi)
    <3> HIDE DEF P, R
    <3>1. lo \in 0 .. n + 1 /\ hi \in 0 .. n + 1
      BY <1>1
    <3>2. ASSUME NEW i \in 0 .. c - 1 PROVE (i < lo <=> P(i) < q) /\ (hi <= i <=> P(i) > q)
      BY <1>1
    <3>3. (c < lo <=> p < q) /\ (hi <= c <=> p > q)
      BY <1>1, <1>5, <2>1
    <3>4. ASSUME NEW i \in c .. n - 1
          PROVE  (i + 1 < lo <=> P(i) < q) /\ (hi <= i + 1 <=> P(i) > q)
      <4>1. P(i) \in Nat /\ P(i) >= p
        BY <1>1, <1>2
      <4> QED BY <1>1, <1>5, <2>1, <4>1
    <3> QED BY <1>1, <1>4, <3>1, <3>2, <3>3, <3>4
  <2>3. Downwards(G, lo, hi) = Downwards(H, lo, hi)
    <3>1. \A k \in 1 .. hi - lo : hi - k \in 0 .. c - 1
      BY <1>1, <2>1
    <3>2. \A k \in 1 .. hi - lo : G[hi - k] = H[hi - k]
      BY <1>3, <3>1
    <3> QED BY <3>2 DEF Downwards
  <2>4. q # p
    BY <1>5
  <2> QED BY <2>2, <2>3, <2>4 DEF Grown
<1>6. CASE q > p
  <2>1. c <= lo
    <3> HIDE DEF P
    <3>1. ASSUME lo < c PROVE FALSE
      <4>1. lo \in 0 .. n - 1 /\ lo \in 0 .. c - 1
        BY <1>1, <3>1
      <4>2. P(lo) \in Nat /\ P(lo) < p
        BY <1>1, <1>2, <4>1
      <4>3. ~(P(lo) < q)
        BY <1>1, <4>1
      <4> QED BY <1>6, <4>2, <4>3
    <3> QED BY <1>1, <3>1
  <2>2. Segment(G, n + 1, q, lo + 1, hi + 1)
    <3> HIDE DEF P, R
    <3>1. lo + 1 \in 0 .. n + 1 /\ hi + 1 \in 0 .. n + 1 /\ lo + 1 <= hi + 1
      BY <1>1
    <3>2. ASSUME NEW i \in 0 .. c - 1
          PROVE  (i < lo + 1 <=> P(i) < q) /\ (hi + 1 <= i <=> P(i) > q)
      <4>1. i \in 0 .. n - 1
        OBVIOUS
      <4>2. P(i) \in Nat /\ P(i) < p
        BY <1>1, <1>2, <4>1
      <4> QED BY <1>1, <1>6, <2>1, <4>2
    <3>3. (c < lo + 1 <=> p < q) /\ (hi + 1 <= c <=> p > q)
      BY <1>1, <1>6, <2>1
    <3>4. ASSUME NEW i \in c .. n - 1
          PROVE  (i + 1 < lo + 1 <=> P(i) < q) /\ (hi + 1 <= i + 1 <=> P(i) > q)
      <4>1. (i < lo <=> P(i) < q) /\ (hi <= i <=> P(i) > q)
        BY <1>1
      <4>2. (i + 1 < lo + 1 <=> i < lo) /\ (hi + 1 <= i + 1 <=> hi <= i)
        BY <1>1
      <4> QED BY <4>1, <4>2
    <3> QED BY <1>4, <3>1, <3>2, <3>3, <3>4
  <2>3. Downwards(G, lo + 1, hi + 1) = Downwards(H, lo, hi)
    <3>1. ASSUME NEW k \in 1 .. hi - lo PROVE G[(hi + 1) - k] = H[hi - k]
      <4>1. (hi + 1) - k \in c + 1 .. n /\ ((hi + 1) - k) - 1 = hi - k
        BY <1>1, <2>1
      <4> QED BY <1>3, <4>1
    <3>2. (hi + 1) - (lo + 1) = hi - lo
      BY <1>1
    <3> QED BY <3>1, <3>2 DEF Downwards
  <2>4. q # p
    BY <1>6
  <2> QED BY <2>2, <2>3, <2>4 DEF Grown
<1>7. CASE q = p
  <2>1. lo = c
    <3> HIDE DEF P
    <3>1. ASSUME lo < c PROVE FALSE
      <4>1. lo \in 0 .. n - 1 /\ lo \in 0 .. c - 1
        BY <1>1, <3>1
      <4> QED BY <1>1, <1>2, <1>7, <4>1
    <3>2. ASSUME c < lo PROVE FALSE
      <4>1. c \in 0 .. n - 1 /\ c \in c .. n - 1
        BY <1>1, <3>2
      <4>2. P(c) \in Nat /\ P(c) < q /\ P(c) >= p
        BY <1>1, <1>2, <3>2, <4>1
      <4> QED BY <1>7, <4>2
    <3> QED BY <1>1, <3>1, <3>2
  <2>2. Segment(G, n + 1, q, lo, hi + 1)
    <3> HIDE DEF P, R
    <3>1. lo \in 0 .. n + 1 /\ hi + 1 \in 0 .. n + 1 /\ lo <= hi + 1
      BY <1>1
    <3>2. ASSUME NEW i \in 0 .. c - 1
          PROVE  (i < lo <=> P(i) < q) /\ (hi + 1 <= i <=> P(i) > q)
      BY <1>1, <2>1
    <3>3. (c < lo <=> p < q) /\ (hi + 1 <= c <=> p > q)
      BY <1>1, <1>7, <2>1
    <3>4. ASSUME NEW i \in c .. n - 1
          PROVE  (i + 1 < lo <=> P(i) < q) /\ (hi + 1 <= i + 1 <=> P(i) > q)
      <4>1. (i < lo <=> P(i) < q) /\ (hi <= i <=> P(i) > q)
        BY <1>1
      <4>2. ~(i < lo) /\ ~(i + 1 < lo) /\ (hi + 1 <= i + 1 <=> hi <= i)
        BY <1>1, <2>1
      <4> QED BY <4>1, <4>2
    <3> QED BY <1>4, <3>1, <3>2, <3>3, <3>4
  <2>3. Downwards(G, lo, hi + 1) = Append(Downwards(H, lo, hi), Payload(new))
    <3> DEFINE s == Downwards(H, lo, hi)
               x == Payload(new)
               m == hi - lo
               S == {s[k] : k \in 1 .. m} \cup {x}
    <3>1. m \in Nat /\ (hi + 1) - lo = m + 1
      BY <1>1
    <3>2. s = [k \in 1 .. m |-> Payload(H[hi - k])]
      BY DEF Downwards
    <3>3. s \in Seq(S) /\ x \in S /\ Len(s) = m
      <4> HIDE DEF m, x
      <4>1. s \in [1 .. m -> S]
        BY <3>2
      <4> QED BY <3>1, <4>1
    <3>4. Append(s, x) = [k \in 1 .. m + 1 |-> IF k = m + 1 THEN x ELSE s[k]]
      <4> DEFINE a == Append(s, x)
      <4> HIDE DEF m, x, s, S
      <4>1. a \in Seq(S) /\ Len(a) = m + 1 /\ \A k \in 1 .. m + 1 : a[k] = IF k = m + 1 THEN x ELSE s[k]
        BY <3>1, <3>3
      <4>2. a = [k \in 1 .. m + 1 |-> a[k]]
        <5> HIDE DEF a
        <5> QED BY <4>1
      <4> HIDE DEF a
      <4>3. a = [k \in 1 .. m + 1 |-> IF k = m + 1 THEN x ELSE s[k]]
        BY <4>1, <4>2
      <4> QED BY <4>3 DEF a
    <3>5. ASSUME NEW k \in 1 .. m + 1
          PROVE  Payload(G[(hi + 1) - k]) = IF k = m + 1 THEN x ELSE s[k]
      <4>1. CASE k = m + 1
        <5>1. (hi + 1) - k = c
          BY <1>1, <2>1, <4>1
        <5> QED BY <1>3, <4>1, <5>1
      <4>2. CASE k # m + 1
        <5>1. k \in 1 .. m /\ (hi + 1) - k \in c + 1 .. n /\ ((hi + 1) - k) - 1 = hi - k
          BY <1>1, <2>1, <3>1, <4>2
        <5>2. G[(hi + 1) - k] = H[hi - k]
          BY <1>3, <5>1
        <5>3. s[k] = Payload(H[hi - k])
          BY <3>2, <5>1
        <5> QED BY <4>2, <5>2, <5>3
      <4> QED BY <4>1, <4>2
    <3>6. Downwards(G, lo, hi + 1) = [k \in 1 .. m + 1 |-> Payload(G[(hi + 1) - k])]
      BY <3>1 DEF Downwards
    <3> HIDE DEF s, x, m
    <3> QED BY <3>4, <3>5, <3>6 DEF s, x
  <2> QED BY <1>7, <2>2, <2>3 DEF Grown
<1> QED BY <1>5, <1>6, <1>7

\* G are the n messages H without the top one, which has priority p.
Removal(H, G, n, p) ==
  /\ H[n - 1].priority = p
  /\ \A k \in 0 .. n - 2 : H[k].priority <= p /\ G[k] = H[k]

\* The messages of one priority, handed out from the oldest: the top one goes.
LEMMA Removed ==
  ASSUME NEW n \in Nat \ {0}, NEW H, NEW G, NEW p \in Nat, NEW q \in Nat,
         NEW lo, NEW hi, Segment(H, n, q, lo, hi), Removal(H, G, n, p)
  PROVE  /\ q = p => /\ hi = n /\ lo < hi
                     /\ Segment(G, n - 1, q, lo, n - 1)
                     /\ Downwards(H, lo, hi) # <<>>
                     /\ Head(Downwards(H, lo, hi)) = Payload(H[n - 1])
                     /\ Downwards(G, lo, n - 1) = Tail(Downwards(H, lo, hi))
         /\ q # p => \E lo2, hi2 : /\ Segment(G, n - 1, q, lo2, hi2)
                                   /\ Downwards(G, lo2, hi2) = Downwards(H, lo, hi)
         /\ lo < hi => q <= p
<1> DEFINE P(i) == H[i].priority
<1>1. /\ lo \in 0 .. n /\ hi \in 0 .. n /\ lo <= hi
      /\ \A i \in 0 .. n - 1 : P(i) \in Nat /\ (i < lo <=> P(i) < q) /\ (hi <= i <=> P(i) > q)
  BY DEF Segment
<1>2. /\ n - 1 \in 0 .. n - 1 /\ P(n - 1) = p
      /\ \A k \in 0 .. n - 2 : P(k) <= p /\ G[k] = H[k] /\ G[k].priority = P(k)
  BY DEF Removal
<1>3. ASSUME q = p
      PROVE  /\ hi = n /\ lo < hi
             /\ Segment(G, n - 1, q, lo, n - 1)
             /\ Downwards(H, lo, hi) # <<>>
             /\ Head(Downwards(H, lo, hi)) = Payload(H[n - 1])
             /\ Downwards(G, lo, n - 1) = Tail(Downwards(H, lo, hi))
  <2>1. hi = n /\ lo <= n - 1
    <3> HIDE DEF P
    <3>1. ~(hi <= n - 1) /\ ~(n - 1 < lo)
      BY <1>1, <1>2, <1>3
    <3> QED BY <1>1, <3>1
  <2>2. Segment(G, n - 1, q, lo, n - 1)
    <3>1. lo \in 0 .. n - 1 /\ n - 1 \in 0 .. n - 1 /\ lo <= n - 1 /\ (n - 1) - 1 = n - 2
      BY <1>1, <2>1
    <3>2. ASSUME NEW i \in 0 .. n - 2
          PROVE  /\ G[i].priority \in Nat
                 /\ i < lo <=> G[i].priority < q
                 /\ n - 1 <= i <=> G[i].priority > q
      <4> HIDE DEF P
      <4>1. i \in 0 .. n - 1 /\ ~(n - 1 <= i)
        OBVIOUS
      <4>2. P(i) \in Nat /\ P(i) <= p
        BY <1>1, <1>2, <4>1
      <4>3. ~(P(i) > q)
        BY <1>3, <4>2
      <4> QED BY <1>1, <1>2, <4>1, <4>2, <4>3
    <3> QED BY <3>1, <3>2 DEF Segment
  <2> DEFINE s == Downwards(H, lo, hi)
             m == hi - lo
             S == {s[k] : k \in 1 .. m}
  <2>3. m \in Nat \ {0}
    BY <1>1, <2>1
  <2>4. s = [k \in 1 .. m |-> Payload(H[hi - k])]
    BY DEF Downwards
  <2>5. s \in Seq(S) /\ Len(s) = m
    <3> HIDE DEF m
    <3>1. s \in [1 .. m -> S]
      BY <2>4
    <3> HIDE DEF s, S
    <3> QED BY <2>3, <3>1
  <2>6. s # <<>> /\ Head(s) = s[1] /\ Tail(s) = [k \in 1 .. m - 1 |-> s[k + 1]]
    <3> DEFINE t == Tail(s)
    <3> HIDE DEF s, m, S
    <3>1. s # <<>> /\ Head(s) = s[1]
      BY <2>3, <2>5
    <3>2. t \in Seq(S) /\ Len(t) = m - 1 /\ \A k \in 1 .. m - 1 : t[k] = s[k + 1]
      BY <2>3, <2>5, <3>1
    <3>3. t = [k \in 1 .. m - 1 |-> t[k]]
      <4> HIDE DEF t
      <4> QED BY <3>2
    <3> HIDE DEF t
    <3>4. t = [k \in 1 .. m - 1 |-> s[k + 1]]
      BY <3>2, <3>3
    <3> QED BY <3>1, <3>4 DEF t
  <2>7. s[1] = Payload(H[n - 1])
    BY <2>1, <2>3, <2>4
  <2>8. Downwards(G, lo, n - 1) = Tail(s)
    <3>1. (n - 1) - lo = m - 1
      BY <1>1, <2>1
    <3>2. ASSUME NEW k \in 1 .. m - 1 PROVE Payload(G[(n - 1) - k]) = s[k + 1]
      <4>1. /\ k + 1 \in 1 .. m /\ hi - (k + 1) = (n - 1) - k
            /\ (n - 1) - k \in 0 .. n - 2
        BY <1>1, <2>1, <2>3
      <4>2. s[k + 1] = Payload(H[(n - 1) - k])
        BY <2>4, <4>1
      <4> QED BY <1>2, <4>1, <4>2
    <3>3. Downwards(G, lo, n - 1) = [k \in 1 .. m - 1 |-> Payload(G[(n - 1) - k])]
      BY <3>1 DEF Downwards
    <3> HIDE DEF s, m
    <3> QED BY <2>6, <3>2, <3>3
  <2> QED BY <2>1, <2>2, <2>6, <2>7, <2>8, <1>1
<1>4. ASSUME q # p
      PROVE  \E lo2, hi2 : /\ Segment(G, n - 1, q, lo2, hi2)
                           /\ Downwards(G, lo2, hi2) = Downwards(H, lo, hi)
  <2>1. ASSUME q < p
        PROVE  Segment(G, n - 1, q, lo, hi) /\ hi <= n - 1
    <3> HIDE DEF P
    <3>1. hi <= n - 1
      BY <1>1, <1>2, <2>1
    <3>2. lo \in 0 .. n - 1 /\ hi \in 0 .. n - 1 /\ lo <= hi /\ (n - 1) - 1 = n - 2
      BY <1>1, <3>1
    <3>3. ASSUME NEW i \in 0 .. n - 2
          PROVE  /\ G[i].priority \in Nat
                 /\ i < lo <=> G[i].priority < q
                 /\ hi <= i <=> G[i].priority > q
      <4>1. i \in 0 .. n - 1
        OBVIOUS
      <4> QED BY <1>1, <1>2, <4>1
    <3> QED BY <3>1, <3>2, <3>3 DEF Segment
  <2>2. ASSUME q > p
        PROVE  Segment(G, n - 1, q, n - 1, n - 1) /\ lo = n /\ hi = n
    <3> HIDE DEF P
    <3>1. lo = n /\ hi = n
      <4>1. n - 1 < lo
        BY <1>1, <1>2, <2>2
      <4> QED BY <1>1, <4>1
    <3>2. n - 1 \in 0 .. n - 1 /\ n - 1 <= n - 1 /\ (n - 1) - 1 = n - 2
      OBVIOUS
    <3>3. ASSUME NEW i \in 0 .. n - 2
          PROVE  /\ G[i].priority \in Nat
                 /\ i < n - 1 <=> G[i].priority < q
                 /\ n - 1 <= i <=> G[i].priority > q
      <4>1. i \in 0 .. n - 1 /\ i < n - 1 /\ ~(n - 1 <= i)
        OBVIOUS
      <4>2. P(i) \in Nat /\ P(i) <= p
        BY <1>1, <1>2, <4>1
      <4> QED BY <1>2, <2>2, <4>1, <4>2
    <3> QED BY <3>1, <3>2, <3>3 DEF Segment
  <2>3. CASE q < p
    <3>1. Segment(G, n - 1, q, lo, hi) /\ hi <= n - 1
      BY <2>1, <2>3
    <3>2. Downwards(G, lo, hi) = Downwards(H, lo, hi)
      <4>1. \A k \in 1 .. hi - lo : hi - k \in 0 .. n - 2
        BY <1>1, <3>1
      <4>2. \A k \in 1 .. hi - lo : G[hi - k] = H[hi - k]
        BY <1>2, <4>1
      <4> QED BY <4>2 DEF Downwards
    <3> QED BY <3>1, <3>2
  <2>4. CASE q > p
    <3>1. Segment(G, n - 1, q, n - 1, n - 1) /\ lo = n /\ hi = n
      BY <2>2, <2>4
    <3>2. (n - 1) - (n - 1) = 0 /\ n - n = 0 /\ 1 .. 0 = {}
      OBVIOUS
    <3>3. Downwards(G, n - 1, n - 1) = Downwards(H, n, n)
      BY <3>2 DEF Downwards
    <3> QED BY <3>1, <3>3
  <2> QED BY <1>4, <2>3, <2>4
<1>5. ASSUME lo < hi PROVE q <= p
  <2> HIDE DEF P
  <2>1. lo \in 0 .. n - 1 /\ (lo = n - 1 \/ lo \in 0 .. n - 2)
    BY <1>1, <1>5
  <2>2. P(lo) \in Nat /\ ~(P(lo) < q) /\ P(lo) <= p
    BY <1>1, <1>2, <2>1
  <2> QED BY <2>2
<1> QED BY <1>3, <1>4, <1>5

\* A segment has one end.
LEMMA SegmentEnd ==
  ASSUME NEW n \in Nat, NEW H, NEW p \in Nat, NEW lo, NEW hi, NEW lo2, NEW hi2,
         Segment(H, n, p, lo, hi), Segment(H, n, p, lo2, hi2)
  PROVE  hi = hi2
<1> DEFINE P(i) == H[i].priority
<1>1. /\ hi \in 0 .. n /\ hi2 \in 0 .. n
      /\ \A i \in 0 .. n - 1 : (hi <= i <=> P(i) > p) /\ (hi2 <= i <=> P(i) > p)
  BY DEF Segment
<1> HIDE DEF P
<1>2. ASSUME hi < hi2 PROVE FALSE
  <2>1. hi \in 0 .. n - 1
    BY <1>1, <1>2
  <2> QED BY <1>1, <1>2, <2>1
<1>3. ASSUME hi2 < hi PROVE FALSE
  <2>1. hi2 \in 0 .. n - 1
    BY <1>1, <1>3
  <2> QED BY <1>1, <1>3, <2>1
<1> QED BY <1>1, <1>2, <1>3

\* The messages of all priorities together are no more than there are places.
LEMMA StoredBound ==
  ASSUME NEW n \in Nat, NEW H, NEW F,
         \A p \in Priority : \E lo, hi : Segment(H, n, p, lo, hi) /\ F[p] = Downwards(H, lo, hi)
  PROVE  /\ Cardinality(UNION {{p} \X DOMAIN F[p] : p \in Priority}) \in Nat
         /\ Cardinality(UNION {{p} \X DOMAIN F[p] : p \in Priority}) <= n
<1> DEFINE T == UNION {{p} \X DOMAIN F[p] : p \in Priority}
           Of(x, i) == \E lo, hi : Segment(H, n, x[1], lo, hi) /\ lo <= i /\ i < hi /\ i = hi - x[2]
           g == [x \in T |-> CHOOSE i \in 0 .. n - 1 : Of(x, i)]
<1>1. ASSUME NEW x \in T
      PROVE  /\ x[1] \in Priority /\ x[2] \in Nat /\ x = <<x[1], x[2]>>
             /\ \E i \in 0 .. n - 1 : Of(x, i)
  <2>1. PICK p \in Priority : x \in {p} \X DOMAIN F[p]
    OBVIOUS
  <2>2. PICK lo, hi : Segment(H, n, p, lo, hi) /\ F[p] = Downwards(H, lo, hi)
    OBVIOUS
  <2>3. lo \in 0 .. n /\ hi \in 0 .. n /\ lo <= hi
    BY <2>2 DEF Segment
  <2>4. x[1] = p /\ x[2] \in 1 .. hi - lo /\ x = <<x[1], x[2]>>
    BY <2>1, <2>2 DEF Downwards
  <2>5. hi - x[2] \in 0 .. n - 1 /\ lo <= hi - x[2] /\ hi - x[2] < hi
    BY <2>3, <2>4
  <2> QED BY <2>2, <2>3, <2>4, <2>5
<1>2. ASSUME NEW x \in T PROVE g[x] \in 0 .. n - 1 /\ Of(x, g[x])
  <2> HIDE DEF T, Of
  <2> QED BY <1>1
<1>3. ASSUME NEW x \in T, NEW y \in T, g[x] = g[y] PROVE x = y
  <2> DEFINE i == g[x]
  <2>1. i \in 0 .. n - 1 /\ Of(x, i) /\ Of(y, i)
    BY <1>2, <1>3
  <2> HIDE DEF i, g
  <2>2. PICK lo, hi : Segment(H, n, x[1], lo, hi) /\ lo <= i /\ i < hi /\ i = hi - x[2]
    BY <2>1
  <2>3. PICK lo2, hi2 : Segment(H, n, y[1], lo2, hi2) /\ lo2 <= i /\ i < hi2 /\ i = hi2 - y[2]
    BY <2>1
  <2>4. x[1] \in Nat /\ y[1] \in Nat /\ x[2] \in Nat /\ y[2] \in Nat
    BY <1>1, ConstantsAssumption
  <2>5. H[i].priority = x[1]
    <3>1. /\ H[i].priority \in Nat /\ lo \in Nat /\ hi \in Nat
          /\ ~(H[i].priority < x[1]) /\ ~(H[i].priority > x[1])
      BY <2>1, <2>2 DEF Segment
    <3> QED BY <2>4, <3>1
  <2>6. H[i].priority = y[1]
    <3>1. /\ H[i].priority \in Nat /\ lo2 \in Nat /\ hi2 \in Nat
          /\ ~(H[i].priority < y[1]) /\ ~(H[i].priority > y[1])
      BY <2>1, <2>3 DEF Segment
    <3> QED BY <2>4, <3>1
  <2>7. x[1] = y[1]
    BY <2>5, <2>6
  <2>8. hi = hi2
    BY <2>2, <2>3, <2>4, <2>7, SegmentEnd
  <2>9. hi \in Nat
    BY <2>2 DEF Segment
  <2>10. x[2] = y[2]
    BY <2>1, <2>2, <2>3, <2>4, <2>8, <2>9
  <2>11. x = <<x[1], x[2]>> /\ y = <<y[1], y[2]>>
    BY <1>1
  <2> QED BY <2>7, <2>10, <2>11
<1>4. g \in Injection(T, 0 .. n - 1)
  <2>1. g \in [T -> 0 .. n - 1]
    <3>1. \A x \in T : g[x] \in 0 .. n - 1
      BY <1>2
    <3> HIDE DEF T, Of
    <3> QED BY <3>1
  <2> HIDE DEF T, g
  <2> QED BY <1>3, <2>1 DEF Injection, IsInjective
<1>5. IsFiniteSet(0 .. n - 1) /\ Cardinality(0 .. n - 1) = n
  <2>1. 0 \in Int /\ n - 1 \in Int
    OBVIOUS
  <2>2. Cardinality(0 .. n - 1) = IF 0 > n - 1 THEN 0 ELSE (n - 1) - 0 + 1
    BY <2>1, FS_Interval
  <2> QED BY <2>1, <2>2, FS_Interval
<1> HIDE DEF T, g
<1>6. IsFiniteSet(T) /\ Cardinality(T) <= Cardinality(0 .. n - 1)
  BY <1>4, <1>5, FS_Injection
<1>7. Cardinality(T) \in Nat
  BY <1>6, FS_CardinalityType
<1> QED BY <1>5, <1>6, <1>7 DEF T

-----------------------------------------------------------------------------
\* H are the messages at the places 0 .. n - 1, before or after a step.
AreStored(H, n) == n = m_cur_num_msg /\ \A i \in 0 .. n - 1 : H[i] = Hdr(i)

WillBeStored(H, n) == n = m_cur_num_msg' /\ \A i \in 0 .. n - 1 : H[i] = Hdr(i)'

FifoAfter(p) == StoredFifo(p)'

\* StoredFifo in terms of these messages, before and after a step.
LEMMA FifoIsDownwards ==
  ASSUME NEW n \in Nat, NEW H, NEW p \in Priority, NEW lo, NEW hi, Segment(H, n, p, lo, hi),
         Known(H, n)
  PROVE  /\ AreStored(H, n) => StoredFifo(p) = Downwards(H, lo, hi)
         /\ WillBeStored(H, n) => FifoAfter(p) = Downwards(H, lo, hi)
<1> DEFINE A == {q \in Priority : q > p}
<1>1. NumIn(H, n, {p}) = hi - lo /\ NumIn(H, n, A) = n - hi
  BY SegmentCounts
<1>2. lo \in 0 .. n /\ hi \in 0 .. n /\ lo <= hi
  BY DEF Segment
<1>3. n - (n - hi) = hi
  BY <1>2
<1>4. \A k \in 1 .. hi - lo : hi - k \in 0 .. n - 1
  BY <1>2
<1>5. ASSUME n = m_cur_num_msg, \A i \in 0 .. n - 1 : H[i] = Hdr(i)
      PROVE  StoredFifo(p) = Downwards(H, lo, hi)
  <2>1. ASSUME NEW P PROVE NumOf(P) = NumIn(H, n, P)
    <3>1. {i \in 0 .. n - 1 : PriorityAt(Phys(i)) \in P} = {i \in 0 .. n - 1 : H[i].priority \in P}
      BY <1>5 DEF PriorityAt, Hdr
    <3> QED BY <1>5, <3>1 DEF NumOf, NumIn
  <2>2. NumOf({p}) = hi - lo /\ m_cur_num_msg - NumOf(A) = hi
    BY <1>1, <1>3, <1>5, <2>1
  <2>3. StoredFifo(p) = [k \in 1 .. hi - lo |-> Payload(Hdr(hi - k))]
    BY <2>2 DEF StoredFifo, Hdr
  <2> QED BY <1>4, <1>5, <2>3 DEF Downwards
<1>6. ASSUME n = m_cur_num_msg', \A i \in 0 .. n - 1 : H[i] = Hdr(i)'
      PROVE  StoredFifo(p)' = Downwards(H, lo, hi)
  <2>1. ASSUME NEW P PROVE NumOf(P)' = NumIn(H, n, P)
    <3>1. {i \in 0 .. n - 1 : PriorityAt(Phys(i))' \in P} = {i \in 0 .. n - 1 : H[i].priority \in P}
      BY <1>6 DEF PriorityAt, Hdr
    <3> QED BY <1>6, <3>1 DEF NumOf, NumIn
  <2>2. NumOf({p})' = hi - lo /\ m_cur_num_msg' - NumOf(A)' = hi
    BY <1>1, <1>3, <1>6, <2>1
  <2>3. StoredFifo(p)' = [k \in 1 .. hi - lo |-> Payload(Hdr(hi - k)')]
    BY <2>2 DEF StoredFifo, Hdr
  <2> QED BY <1>4, <1>6, <2>3 DEF Downwards
<1> QED BY <1>5, <1>6 DEF AreStored, WillBeStored, FifoAfter

\* Stored messages have priorities that senders use.
StoredKnown == \A i \in 0 .. m_cur_num_msg - 1 : Hdr(i).priority \in Priority

\* The messages before a step, named for the lemmas above, and the segment of
\* each priority.
LEMMA StoredMessages ==
  ASSUME OrderInv, StoredKnown
  PROVE  \E H : /\ m_cur_num_msg \in Nat
                /\ AreStored(H, m_cur_num_msg) /\ Known(H, m_cur_num_msg)
                /\ \A p \in Priority : \E lo, hi :
                     /\ Segment(H, m_cur_num_msg, p, lo, hi)
                     /\ StoredFifo(p) = Downwards(H, lo, hi)
<1> DEFINE H == [i \in 0 .. m_cur_num_msg - 1 |-> Hdr(i)]
<1>1. m_cur_num_msg \in Nat /\ Priority \subseteq Nat
  BY ConstantsAssumption DEF OrderInv, TypeAndPermutation, IndexTypeOK
<1>2. \A i \in 0 .. m_cur_num_msg - 1 : H[i] = Hdr(i) /\ H[i].priority \in Priority
  BY DEF StoredKnown
<1>3. \A i, j \in 0 .. m_cur_num_msg - 1 : i < j => H[i].priority <= H[j].priority
  BY DEF OrderInv, StoredSorted, PriorityAt, Hdr
<1> HIDE DEF H
<1>4. AreStored(H, m_cur_num_msg) /\ Known(H, m_cur_num_msg)
  BY <1>2 DEF AreStored, Known
<1>5. ASSUME NEW p \in Priority
      PROVE  \E lo, hi : /\ Segment(H, m_cur_num_msg, p, lo, hi)
                         /\ StoredFifo(p) = Downwards(H, lo, hi)
  <2>1. p \in Nat /\ \A i \in 0 .. m_cur_num_msg - 1 : H[i].priority \in Nat
    BY <1>1, <1>2
  <2>2. PICK lo, hi : Segment(H, m_cur_num_msg, p, lo, hi)
    BY <1>1, <1>3, <2>1, SegmentExists
  <2>3. StoredFifo(p) = Downwards(H, lo, hi)
    BY <1>1, <1>4, <2>2, FifoIsDownwards
  <2> QED BY <2>2, <2>3
<1> QED BY <1>1, <1>5, <1>4

\* The queue holds no more messages than there are.
LEMMA StoredNoMore ==
  ASSUME OrderInv, StoredKnown
  PROVE  Cardinality(PQ!Stored) \in Nat /\ Cardinality(PQ!Stored) <= m_cur_num_msg
<1> DEFINE F == [p \in Priority |-> StoredFifo(p)]
<1>1. PICK H : /\ m_cur_num_msg \in Nat
               /\ \A p \in Priority : \E lo, hi :
                    /\ Segment(H, m_cur_num_msg, p, lo, hi)
                    /\ StoredFifo(p) = Downwards(H, lo, hi)
  BY StoredMessages
<1>2. \A p \in Priority : \E lo, hi : /\ Segment(H, m_cur_num_msg, p, lo, hi)
                                      /\ F[p] = Downwards(H, lo, hi)
  BY <1>1
<1>3. PQ!Stored = UNION {{p} \X DOMAIN F[p] : p \in Priority}
  BY DEF PQ!Stored
<1> HIDE DEF F
<1>4. /\ Cardinality(UNION {{p} \X DOMAIN F[p] : p \in Priority}) \in Nat
      /\ Cardinality(UNION {{p} \X DOMAIN F[p] : p \in Priority}) <= m_cur_num_msg
  BY <1>1, <1>2, StoredBound
<1> QED BY <1>3, <1>4

\* do_send appends to the queue of its priority, and to no other.
LEMMA StoreAppends ==
  ASSUME OrderInv, StoredKnown, NEW p \in Priority, NEW b \in Buffer, StoreMsg(p, b)
  PROVE  /\ StoredKnown'
         /\ \A q \in Priority :
              StoredFifo(q)' = IF q = p
                               THEN Append(StoredFifo(q), [len |-> Size[b], data |-> Content(b)])
                               ELSE StoredFifo(q)
<1> DEFINE num == m_cur_num_msg
           hdr == [len |-> Size[b], priority |-> p, data |-> Content(b)]
<1>1. PICK n : n = m_cur_num_msg
  OBVIOUS
<1>2. PICK H : /\ n \in Nat
               /\ AreStored(H, n) /\ Known(H, n)
               /\ \A q \in Priority : \E lo, hi :
                    Segment(H, n, q, lo, hi) /\ StoredFifo(q) = Downwards(H, lo, hi)
  BY <1>1, StoredMessages
<1>3. PICK new : new = hdr
  OBVIOUS
<1>4. new.priority = p /\ Payload(new) = [len |-> Size[b], data |-> Content(b)]
  BY <1>3 DEF Payload
<1>5. PICK c \in 0 .. n :
        /\ \A k \in 0 .. c - 1 : Hdr(k).priority < p
        /\ \A k \in c .. n - 1 : Hdr(k).priority >= p
        /\ \A k \in 0 .. n :
             Hdr(k)' = IF k < c THEN Hdr(k) ELSE IF k = c THEN new ELSE Hdr(k - 1)
  BY <1>1, <1>3, StoreShape
<1> HIDE DEF hdr
<1> USE DEF AreStored, Known
<1>6. PICK G : G = [k \in 0 .. n |-> Hdr(k)']
  OBVIOUS
<1>7. /\ \A k \in 0 .. c - 1 : k \in 0 .. n - 1
      /\ \A k \in c .. n - 1 : k \in 0 .. n - 1
      /\ \A k \in 0 .. n : (k < c => k \in 0 .. n - 1) /\ (~(k < c) /\ k # c => k - 1 \in 0 .. n - 1)
  BY <1>2
<1>8. /\ \A k \in 0 .. c - 1 : H[k].priority < p
      /\ \A k \in c .. n - 1 : H[k].priority >= p
      /\ \A k \in 0 .. n : G[k] = IF k < c THEN H[k] ELSE IF k = c THEN new ELSE H[k - 1]
  BY <1>2, <1>5, <1>6, <1>7
<1>9. m_cur_num_msg' = n + 1 /\ n + 1 \in Nat /\ 0 .. (n + 1) - 1 = 0 .. n
  BY <1>1, <1>2 DEF StoreMsg
<1>10. \A k \in 0 .. n : G[k] = Hdr(k)' /\ G[k].priority \in Priority
  BY <1>2, <1>4, <1>6, <1>7, <1>8
<1>11. StoredKnown' /\ WillBeStored(G, n + 1) /\ Known(G, n + 1)
  BY <1>9, <1>10 DEF StoredKnown, WillBeStored
<1>12. Insertion(H, G, n, c, new, p)
  BY <1>4, <1>8 DEF Insertion
<1> HIDE DEF AreStored, Known
<1>13. ASSUME NEW q \in Priority
       PROVE  StoredFifo(q)' = IF q = p THEN Append(StoredFifo(q), Payload(new))
                               ELSE StoredFifo(q)
  <2>1. PICK lo, hi : Segment(H, n, q, lo, hi) /\ StoredFifo(q) = Downwards(H, lo, hi)
    BY <1>2
  <2>2. p \in Nat /\ q \in Nat
    BY ConstantsAssumption
  <2>3. n \in Nat /\ Segment(H, n, q, lo, hi)
    BY <1>2, <2>1
  <2>4. PICK lo2, hi2 :
          /\ Segment(G, n + 1, q, lo2, hi2)
          /\ Downwards(G, lo2, hi2) = Grown(Downwards(H, lo, hi), Payload(new), q = p)
    BY <1>12, <2>2, <2>3, Inserted
  <2>5. Segment(G, n + 1, q, lo2, hi2)
    BY <2>4
  <2>6. FifoAfter(q) = Downwards(G, lo2, hi2)
    <3>1. PICK m \in Nat : m = n + 1
      BY <1>9
    <3>2. Known(G, m) /\ WillBeStored(G, m) /\ Segment(G, m, q, lo2, hi2)
      BY <1>11, <2>5, <3>1
    <3> QED BY <3>2, FifoIsDownwards
  <2> QED BY <2>1, <2>4, <2>6 DEF Grown, FifoAfter
<1> QED BY <1>4, <1>11, <1>13

\* do_receive takes the oldest message of the highest priority.
LEMMA TakeTakesOldest ==
  ASSUME OrderInv, StoredKnown, TakeTopMsg
  PROVE  /\ StoredKnown'
         /\ \E p \in Priority :
              /\ StoredFifo(p) # <<>>
              /\ \A q \in Priority : StoredFifo(q) # <<>> => q <= p
              /\ rcvd' = <<p, Head(StoredFifo(p))>>
              /\ \A q \in Priority :
                   StoredFifo(q)' = IF q = p THEN Tail(StoredFifo(q)) ELSE StoredFifo(q)
<1>1. PICK n : n = m_cur_num_msg
  OBVIOUS
<1>2. PICK H : /\ n \in Nat
               /\ AreStored(H, n) /\ Known(H, n)
               /\ \A q \in Priority : \E lo, hi :
                    Segment(H, n, q, lo, hi) /\ StoredFifo(q) = Downwards(H, lo, hi)
  BY <1>1, StoredMessages
<1>3. /\ n \in 1 .. MaxNumMsg /\ MaxNumMsg \in Nat
      /\ msg[top_msg] = Hdr(n - 1)
      /\ \A k \in 0 .. MaxNumMsg - 1 : Hdr(k)' = IF k = n - 1 THEN CleanMsg ELSE Hdr(k)
      /\ m_cur_num_msg' = n - 1
  BY <1>1, TakeShape, ConstantsAssumption DEF TakeTopMsg
<1> USE DEF AreStored, Known
<1>4. PICK G : G = [k \in 0 .. n - 2 |-> Hdr(k)']
  OBVIOUS
<1>5. PICK p \in Priority : p = H[n - 1].priority
  <2>1. n - 1 \in 0 .. n - 1
    BY <1>3
  <2> QED BY <1>2, <2>1
<1>6. /\ n \in Nat \ {0} /\ n - 1 \in 0 .. n - 1 /\ n - 1 \in Nat /\ (n - 1) - 1 = n - 2
      /\ \A k \in 0 .. n - 2 : k \in 0 .. n - 1 /\ k \in 0 .. MaxNumMsg - 1 /\ k # n - 1 /\ k < n - 1
  BY <1>3
<1>7. \A k \in 0 .. n - 2 : H[k].priority <= p
  <2> TAKE k \in 0 .. n - 2
  <2>1. Hdr(k).priority <= Hdr(n - 1).priority
    BY <1>1, <1>6 DEF OrderInv, StoredSorted, PriorityAt, Hdr
  <2> QED BY <1>2, <1>5, <1>6, <2>1
<1>8. \A k \in 0 .. n - 2 : G[k] = H[k] /\ G[k] = Hdr(k)' /\ G[k].priority \in Priority
  <2> TAKE k \in 0 .. n - 2
  <2>1. G[k] = Hdr(k)'
    BY <1>4
  <2>2. Hdr(k)' = Hdr(k) /\ H[k] = Hdr(k) /\ H[k].priority \in Priority
    BY <1>2, <1>3, <1>6
  <2> QED BY <2>1, <2>2
<1>9. StoredKnown' /\ WillBeStored(G, n - 1) /\ Known(G, n - 1)
  BY <1>3, <1>6, <1>8 DEF StoredKnown, WillBeStored
<1>10. p \in Nat /\ Removal(H, G, n, p)
  BY <1>5, <1>7, <1>8, ConstantsAssumption DEF Removal
<1> HIDE DEF AreStored, Known
<1>11. PICK lo, hi : Segment(H, n, p, lo, hi) /\ StoredFifo(p) = Downwards(H, lo, hi)
  BY <1>2
<1>12. /\ Segment(G, n - 1, p, lo, n - 1)
       /\ Downwards(H, lo, hi) # <<>>
       /\ Head(Downwards(H, lo, hi)) = Payload(H[n - 1])
       /\ Downwards(G, lo, n - 1) = Tail(Downwards(H, lo, hi))
  BY <1>6, <1>10, <1>11, Removed
<1>13. StoredFifo(p)' = Tail(StoredFifo(p))
  <2>1. FifoAfter(p) = Downwards(G, lo, n - 1)
    <3>1. PICK m \in Nat : m = n - 1
      BY <1>6
    <3>2. Known(G, m) /\ WillBeStored(G, m) /\ Segment(G, m, p, lo, m)
      BY <1>9, <1>12, <3>1
    <3>3. FifoAfter(p) = Downwards(G, lo, m)
      BY <3>2, FifoIsDownwards
    <3> QED BY <3>1, <3>3
  <2> QED BY <1>11, <1>12, <2>1 DEF FifoAfter
<1>14. ASSUME NEW q \in Priority
       PROVE  /\ StoredFifo(q) # <<>> => q <= p
              /\ q # p => StoredFifo(q)' = StoredFifo(q)
  <2>1. PICK l, h : Segment(H, n, q, l, h) /\ StoredFifo(q) = Downwards(H, l, h)
    BY <1>2
  <2>3. q \in Nat
    BY ConstantsAssumption
  <2>4. /\ q # p => \E lo2, hi2 : /\ Segment(G, n - 1, q, lo2, hi2)
                                  /\ Downwards(G, lo2, hi2) = Downwards(H, l, h)
        /\ l < h => q <= p
    BY <1>6, <1>10, <2>1, <2>3, Removed
  <2>5. l \in Nat /\ h \in Nat /\ l <= h
    BY <2>1 DEF Segment
  <2>6. ASSUME ~(l < h) PROVE Downwards(H, l, h) = <<>>
    <3>1. h - l = 0
      BY <2>5, <2>6
    <3> QED BY <3>1 DEF Downwards
  <2>7. StoredFifo(q) # <<>> => q <= p
    BY <2>1, <2>4, <2>6
  <2>8. ASSUME q # p PROVE StoredFifo(q)' = StoredFifo(q)
    <3>1. PICK lo2, hi2 : /\ Segment(G, n - 1, q, lo2, hi2)
                          /\ Downwards(G, lo2, hi2) = Downwards(H, l, h)
      BY <2>4, <2>8
    <3>2. FifoAfter(q) = Downwards(G, lo2, hi2)
      <4>1. PICK m \in Nat : m = n - 1
        BY <1>6
      <4>2. Known(G, m) /\ WillBeStored(G, m) /\ Segment(G, m, q, lo2, hi2)
        BY <1>9, <3>1, <4>1
      <4> QED BY <4>2, FifoIsDownwards
    <3> QED BY <2>1, <3>1, <3>2 DEF FifoAfter
  <2> QED BY <2>7, <2>8
<1>15. rcvd' = <<p, Head(StoredFifo(p))>>
  <2>1. rcvd' = <<msg[top_msg].priority, Payload(msg[top_msg])>>
    BY DEF TakeTopMsg, Payload
  <2>2. msg[top_msg] = H[n - 1]
    BY <1>2, <1>3, <1>6 DEF AreStored
  <2> QED BY <1>5, <1>11, <1>12, <2>1, <2>2
<1>16. /\ StoredFifo(p) # <<>>
       /\ \A q \in Priority : StoredFifo(q) # <<>> => q <= p
       /\ \A q \in Priority :
            StoredFifo(q)' = IF q = p THEN Tail(StoredFifo(q)) ELSE StoredFifo(q)
  BY <1>11, <1>12, <1>13, <1>14
<1> QED BY <1>9, <1>15, <1>16

\* The index is a bounded store with one FIFO queue per priority, for every
\* capacity, with both kinds of index: do_receive hands out the oldest message
\* of the highest priority, with the size and content do_send was given.
THEOREM StoresPriorityQueue == IndexSpec => ImplementsPriorityQueue
<1> DEFINE F == [q \in Priority |-> StoredFifo(q)]
<1>1. IndexInit => StoredKnown /\ PQ!Init
  <2> SUFFICES ASSUME IndexInit PROVE StoredKnown /\ PQ!Init
    OBVIOUS
  <2>1. m_cur_num_msg = 0 /\ 0 .. m_cur_num_msg - 1 = {}
    BY DEF IndexInit
  <2>2. StoredKnown
    BY <2>1 DEF StoredKnown
  <2>3. \A P : NumOf(P) = 0
    <3>1. \A P : {i \in 0 .. m_cur_num_msg - 1 : PriorityAt(Phys(i)) \in P} = {}
      BY <2>1
    <3> QED BY <3>1, FS_EmptySet DEF NumOf
  <2>4. \A q \in Priority : StoredFifo(q) = <<>>
    BY <2>3 DEF StoredFifo
  <2> QED BY <2>2, <2>4 DEF IndexInit, PQ!Init
<1>2. ASSUME OrderInv, StoredKnown, [IndexNext]_indexVars
      PROVE  StoredKnown' /\ [PQ!Next]_PQ!vars
  <2>1. ASSUME NEW p \in Priority, NEW b \in Buffer, Fits(b), StoreMsg(p, b)
        PROVE  StoredKnown' /\ PQ!Next
    <3> DEFINE m == [len |-> Size[b], data |-> Content(b)]
    <3>1. /\ StoredKnown'
          /\ \A q \in Priority : StoredFifo(q)' = IF q = p THEN Append(StoredFifo(q), m)
                                                  ELSE StoredFifo(q)
      BY <1>2, <2>1, StoreAppends
    <3>2. m \in {[len |-> Size[c], data |-> Content(c)] : c \in {d \in Buffer : Fits(d)}}
      BY <2>1
    <3> HIDE DEF m
    <3>3. F' = [F EXCEPT ![p] = Append(@, m)]
      BY <3>1
    <3>4. Cardinality(PQ!Stored) < MaxNumMsg
      <4>1. m_cur_num_msg \in 0 .. MaxNumMsg /\ m_cur_num_msg # MaxNumMsg /\ MaxNumMsg \in Nat
        BY <1>2, <2>1, ConstantsAssumption
        DEF OrderInv, TypeAndPermutation, IndexTypeOK, StoreMsg, is_full
      <4>2. Cardinality(PQ!Stored) \in Nat /\ Cardinality(PQ!Stored) <= m_cur_num_msg
        BY <1>2, StoredNoMore
      <4> QED BY <4>1, <4>2
    <3>5. rcvd' = rcvd
      BY <2>1 DEF StoreMsg
    <3>6. PQ!Send(p, m)
      BY <3>3, <3>4, <3>5 DEF PQ!Send, PQ!Cardinality, Cardinality
    <3> QED BY <3>1, <3>2, <3>6 DEF PQ!Next
  <2>2. ASSUME TakeTopMsg
        PROVE  StoredKnown' /\ PQ!Next
    <3>1. StoredKnown'
      BY <1>2, <2>2, TakeTakesOldest
    <3>2. PICK p \in Priority :
            /\ StoredFifo(p) # <<>>
            /\ \A q \in Priority : StoredFifo(q) # <<>> => q <= p
            /\ rcvd' = <<p, Head(StoredFifo(p))>>
            /\ \A q \in Priority :
                 StoredFifo(q)' = IF q = p THEN Tail(StoredFifo(q)) ELSE StoredFifo(q)
      BY <1>2, <2>2, TakeTakesOldest
    <3>3. F' = [F EXCEPT ![p] = Tail(@)]
      BY <3>2
    <3>4. PQ!Highest(p)
      BY <3>2 DEF PQ!Highest
    <3>5. PQ!Receive
      BY <3>2, <3>3, <3>4 DEF PQ!Receive
    <3> QED BY <3>1, <3>5 DEF PQ!Next
  <2>3. ASSUME UNCHANGED indexVars
        PROVE  StoredKnown' /\ UNCHANGED PQ!vars
    BY <1>2, <2>3
    DEF indexVars, StoredKnown, Hdr, Phys, PQ!vars, StoredFifo, NumOf, PriorityAt
  <2> QED BY <1>2, <2>1, <2>2, <2>3 DEF IndexNext
<1> QED BY <1>1, <1>2, OrderInvariant, PTL DEF IndexSpec, ImplementsPriorityQueue, PQ!Spec

-----------------------------------------------------------------------------
\* Part 4: the operations of threads.

Ops == {"send", "receive"}

Blocked(op) == In(op, {"waiting", "woken", "timed_out"})

\* What the argument needs to know of the types.
QueueTypeOK ==
  /\ m_cur_num_msg \in 0 .. MaxNumMsg
  /\ m_blocked_senders \in Nat
  /\ m_blocked_receivers \in Nat
  /\ pc \in [Threads -> PC]
  /\ call \in [Threads -> AnyCall]

CountsOK ==
  CircularIndex =>
    /\ m_blocked_senders = Cardinality(Blocked("send"))
    /\ m_blocked_receivers = Cardinality(Blocked("receive"))

\* The two properties about wake-ups, in numbers.
ReceiversCovered ==
  Cardinality(Waiting("receive")) # 0 =>
    m_cur_num_msg <= Cardinality(Notifying("send")) + Cardinality(Resuming("receive"))

SendersCovered ==
  Cardinality(Waiting("send")) # 0 =>
    MaxNumMsg - m_cur_num_msg <=
      Cardinality(Notifying("receive")) + Cardinality(Resuming("send"))

\* The inductive invariant.
WakeupInv == QueueTypeOK /\ CountsOK /\ ReceiversCovered /\ SendersCovered

\* The number one more or one less element makes.
One(b) == IF b THEN 1 ELSE 0

-----------------------------------------------------------------------------
\* Sets of threads are finite and can be counted.
LEMMA ThreadsCount ==
  ASSUME NEW S \in SUBSET Threads
  PROVE  /\ IsFiniteSet(S)
         /\ Cardinality(S) \in Nat
         /\ S = {} <=> Cardinality(S) = 0
BY FS_Subset, ThreadsAssumption, FS_CardinalityType, FS_EmptySet

\* So the threads at some places in some kind of call can be counted, in
\* this state and in the next.
LEMMA InCount ==
  ASSUME NEW op, NEW where
  PROVE  /\ Cardinality(In(op, where)) \in Nat
         /\ In(op, where) = {} <=> Cardinality(In(op, where)) = 0
         /\ Cardinality(In(op, where)') \in Nat
         /\ In(op, where)' = {} <=> Cardinality(In(op, where)') = 0
<1>1. In(op, where) \subseteq Threads /\ In(op, where)' \subseteq Threads
  BY DEF In
<1> QED
  BY <1>1, ThreadsCount

\* The number of threads at a place changes by the one thread that moves.
LEMMA MoveCounts ==
  ASSUME QueueTypeOK, NEW t \in Threads, NEW to, NEW c, GoTo(t, to, c),
         NEW op, NEW where
  PROVE  Cardinality(In(op, where)') =
           Cardinality(In(op, where))
             - One(t \in In(op, where)) + One(to \in where /\ c.op = op)
<1> DEFINE S == In(op, where)
           R == S \ {t}
<1>1. S' = IF to \in where /\ c.op = op THEN R \cup {t} ELSE R
  BY DEF GoTo, QueueTypeOK, In
<1>2. IsFiniteSet(S) /\ Cardinality(S) \in Nat
  BY ThreadsCount DEF In
<1>3. IsFiniteSet(R) /\ Cardinality(R) \in Nat
      /\ Cardinality(R) = Cardinality(S) - One(t \in S)
  <2>1. CASE t \in S
    BY <1>2, <2>1, FS_RemoveElement, FS_CardinalityType DEF One
  <2>2. CASE t \notin S
    <3>1. R = S
      BY <2>2
    <3> HIDE DEF S, R
    <3> QED BY <1>2, <2>2, <3>1 DEF One
  <2> QED BY <2>1, <2>2
<1>4. Cardinality(R \cup {t}) = Cardinality(R) + 1
  BY <1>3, FS_AddElement
<1>5. Cardinality(S') = Cardinality(R) + One(to \in where /\ c.op = op)
  <2> HIDE DEF S, R
  <2> QED BY <1>1, <1>3, <1>4 DEF One
<1> QED
  <2> HIDE DEF R
  <2> QED BY <1>2, <1>3, <1>5 DEF One
-----------------------------------------------------------------------------
\* The changes of the four numbers of a side: the threads that wait, resume,
\* notify, and are in the blocking logic.
Change(op, w, r, n, b) ==
  /\ Cardinality(Waiting(op)') = Cardinality(Waiting(op)) + w
  /\ Cardinality(Resuming(op)') = Cardinality(Resuming(op)) + r
  /\ Cardinality(Notifying(op)') = Cardinality(Notifying(op)) + n
  /\ Cardinality(Blocked(op)') = Cardinality(Blocked(op)) + b

\* What a move of one thread does to the numbers of a side.
LEMMA Moved ==
  ASSUME QueueTypeOK, NEW t \in Threads, NEW to, NEW c, GoTo(t, to, c), NEW op,
         call[t].op = op \/ pc[t] = "idle", c.op = op \/ to = "idle"
  PROVE  /\ Change(op, One(to = "waiting") - One(pc[t] = "waiting"),
                    One(to \in {"woken", "timed_out"}) - One(pc[t] \in {"woken", "timed_out"}),
                    One(to = "notifying") - One(pc[t] = "notifying"),
                    One(to \in {"waiting", "woken", "timed_out"})
                      - One(pc[t] \in {"waiting", "woken", "timed_out"}))
         /\ \A other : other # op => Change(other, 0, 0, 0, 0)
<1>1. ASSUME NEW o, NEW where, "idle" \notin where
      PROVE  Cardinality(In(o, where)') = Cardinality(In(o, where))
               - One(pc[t] \in where /\ o = op) + One(to \in where /\ o = op)
  <2>1. /\ t \in In(o, where) <=> pc[t] \in where /\ o = op
        /\ to \in where /\ c.op = o <=> to \in where /\ o = op
    BY <1>1 DEF In
  <2> QED
    BY <2>1, MoveCounts DEF One
<1>2. ASSUME NEW o, NEW where
      PROVE  Cardinality(In(o, where)) \in Nat
  BY InCount
<1> QED
  BY <1>1, <1>2 DEF Waiting, Resuming, Notifying, Blocked, Change, One

\* A thread that moves keeps the types.
LEMMA MovedTypes ==
  ASSUME QueueTypeOK, NEW t \in Threads, NEW to \in PC, NEW c \in AnyCall, GoTo(t, to, c),
         m_cur_num_msg' \in 0 .. MaxNumMsg,
         m_blocked_senders' \in Nat, m_blocked_receivers' \in Nat
  PROVE  QueueTypeOK'
BY DEF QueueTypeOK, GoTo

\* A side's numbers are natural numbers, and its blocking logic holds
\* those who wait and those who resume.
LEMMA CountsAreNumbers ==
  ASSUME NEW op
  PROVE  /\ Cardinality(Waiting(op)) \in Nat /\ Cardinality(Waiting(op)') \in Nat
         /\ Cardinality(Resuming(op)) \in Nat /\ Cardinality(Resuming(op)') \in Nat
         /\ Cardinality(Notifying(op)) \in Nat /\ Cardinality(Notifying(op)') \in Nat
         /\ Cardinality(Blocked(op)) \in Nat /\ Cardinality(Blocked(op)') \in Nat
         /\ Cardinality(Blocked(op)) = 0 => Cardinality(Waiting(op)) = 0
<1>1. Blocked(op) = {} => Waiting(op) = {}
  BY DEF Blocked, Waiting, In
<1> QED
  BY <1>1, InCount DEF Waiting, Resuming, Notifying, Blocked

-----------------------------------------------------------------------------
\* The arithmetic of a step: the changes on both sides and of the message
\* count keep the invariant.
LEMMA Arithmetic ==
  ASSUME WakeupInv, QueueTypeOK', CountsOK',
         NEW ws \in Int, NEW rs \in Int, NEW ns \in Int, NEW bs \in Int,
         NEW wr \in Int, NEW rr \in Int, NEW nr \in Int, NEW br \in Int, NEW d \in Int,
         Change("send", ws, rs, ns, bs), Change("receive", wr, rr, nr, br),
         m_cur_num_msg' = m_cur_num_msg + d,
         \* each side is covered as before, or has nothing to be covered
         \/ d <= ns + rr /\ wr <= 0
         \/ Cardinality(Waiting("receive")') = 0
         \/ m_cur_num_msg' = 0,
         \/ -d <= nr + rs /\ ws <= 0
         \/ Cardinality(Waiting("send")') = 0
         \/ m_cur_num_msg' = MaxNumMsg
  PROVE  WakeupInv'
<1>0. MaxNumMsg \in Nat
  BY ConstantsAssumption
<1>1. ReceiversCovered'
  BY <1>0, CountsAreNumbers DEF WakeupInv, ReceiversCovered, Change, QueueTypeOK
<1>2. SendersCovered'
  BY <1>0, CountsAreNumbers DEF WakeupInv, SendersCovered, Change, QueueTypeOK
<1> QED
  BY <1>1, <1>2 DEF WakeupInv

\* The end of do_send, reached without waiting or after it.
LEMMA FinishSendPreserves ==
  ASSUME WakeupInv, NEW t \in Threads, NEW c \in AnyCall, FinishSend(t, c), c.op = "send",
         \/ pc[t] = "idle" /\ UNCHANGED m_blocked_senders
         \/ t \in Resuming("send") /\ m_blocked_senders' = Decr(m_blocked_senders)
  PROVE  WakeupInv'
<1> DEFINE k == One(pc[t] # "idle")
           j == One(CircularIndex => m_blocked_receivers # 0)
<1>0. QueueTypeOK
  BY DEF WakeupInv
<1>1. k \in Int /\ j \in Int
  BY DEF One
<1>2. /\ m_cur_num_msg' = m_cur_num_msg + 1 /\ m_cur_num_msg # MaxNumMsg
      /\ m_blocked_receivers' = m_blocked_receivers
      /\ m_blocked_senders' = IF CircularIndex THEN m_blocked_senders - k ELSE m_blocked_senders
  BY DEF FinishSend, StoreMsg, is_full, WakeupInv, QueueTypeOK, Decr, Resuming, In, One
<1>3. Change("send", 0, -k, j, -k) /\ Change("receive", 0, 0, 0, 0)
  <2>1. pc[t] = "idle" \/ (pc[t] \in {"woken", "timed_out"} /\ call[t].op = "send")
    BY DEF Resuming, In
  <2>2. CASE CircularIndex => m_blocked_receivers # 0
    <3>1. GoTo(t, "notifying", c)
      BY <2>2 DEF FinishSend
    <3>2. j = 1
      BY <2>2 DEF One
    <3>3. Change("send", 0, -k, 1, -k) /\ Change("receive", 0, 0, 0, 0)
      BY <1>0, <2>1, <3>1, Moved DEF One
    <3> QED
      BY <3>2, <3>3
  <2>3. CASE ~(CircularIndex => m_blocked_receivers # 0)
    <3>1. GoTo(t, "idle", NoCall)
      BY <2>3 DEF FinishSend, Return
    <3>2. j = 0
      BY <2>3 DEF One
    <3>3. Change("send", 0, -k, 0, -k) /\ Change("receive", 0, 0, 0, 0)
      BY <1>0, <2>1, <3>1, Moved DEF One
    <3> QED
      BY <3>2, <3>3
  <2> QED
    BY <2>2, <2>3
<1>4. CountsOK' /\ m_blocked_senders' \in Nat
  <2> HIDE DEF k, j
  <2> QED
    BY <1>1, <1>2, <1>3, CountsAreNumbers DEF WakeupInv, CountsOK, Change, QueueTypeOK
<1>5. QueueTypeOK'
  <2>1. PICK to \in PC, d \in AnyCall : GoTo(t, to, d)
    BY DEF FinishSend, Return, PC, AnyCall
  <2> QED
    BY <1>0, <1>2, <1>4, <2>1, MovedTypes, ConstantsAssumption DEF QueueTypeOK
<1>6. j = 0 => Cardinality(Waiting("receive")') = 0
  BY <1>3, CountsAreNumbers DEF WakeupInv, CountsOK, Change, One
<1>7. j \in {0, 1} /\ k \in {0, 1} /\ -k \in Int
  BY DEF One
<1> QED
  <2> HIDE DEF k, j
  <2> QED
    BY <1>1, <1>2, <1>3, <1>4, <1>5, <1>6, <1>7, Arithmetic

\* The end of do_receive, reached without waiting or after it.
LEMMA FinishReceivePreserves ==
  ASSUME WakeupInv, NEW t \in Threads, NEW c \in AnyCall, FinishReceive(t, c), c.op = "receive",
         \/ pc[t] = "idle" /\ UNCHANGED m_blocked_receivers
         \/ t \in Resuming("receive") /\ m_blocked_receivers' = Decr(m_blocked_receivers)
  PROVE  WakeupInv'
<1> DEFINE k == One(pc[t] # "idle")
           j == One(CircularIndex => m_blocked_senders # 0)
<1>0. QueueTypeOK
  BY DEF WakeupInv
<1>1. k \in Int /\ j \in Int
  BY DEF One
<1>2. /\ m_cur_num_msg' = m_cur_num_msg + (-1) /\ m_cur_num_msg # 0
      /\ m_blocked_senders' = m_blocked_senders
      /\ m_blocked_receivers' = IF CircularIndex THEN m_blocked_receivers - k ELSE m_blocked_receivers
  BY DEF FinishReceive, TakeTopMsg, is_empty, WakeupInv, QueueTypeOK, Decr, Resuming, In, One
<1>3. Change("send", 0, 0, 0, 0) /\ Change("receive", 0, -k, j, -k)
  <2>1. pc[t] = "idle" \/ (pc[t] \in {"woken", "timed_out"} /\ call[t].op = "receive")
    BY DEF Resuming, In
  <2>2. CASE CircularIndex => m_blocked_senders # 0
    <3>1. GoTo(t, "notifying", c)
      BY <2>2 DEF FinishReceive
    <3>2. j = 1
      BY <2>2 DEF One
    <3>3. Change("send", 0, 0, 0, 0) /\ Change("receive", 0, -k, 1, -k)
      BY <1>0, <2>1, <3>1, Moved DEF One
    <3> QED
      BY <3>2, <3>3
  <2>3. CASE ~(CircularIndex => m_blocked_senders # 0)
    <3>1. GoTo(t, "idle", NoCall)
      BY <2>3 DEF FinishReceive, Return
    <3>2. j = 0
      BY <2>3 DEF One
    <3>3. Change("send", 0, 0, 0, 0) /\ Change("receive", 0, -k, 0, -k)
      BY <1>0, <2>1, <3>1, Moved DEF One
    <3> QED
      BY <3>2, <3>3
  <2> QED
    BY <2>2, <2>3
<1>4. CountsOK' /\ m_blocked_receivers' \in Nat
  <2> HIDE DEF k, j
  <2> QED
    BY <1>1, <1>2, <1>3, CountsAreNumbers DEF WakeupInv, CountsOK, Change, QueueTypeOK
<1>5. QueueTypeOK'
  <2>1. PICK to \in PC, d \in AnyCall : GoTo(t, to, d)
    BY DEF FinishReceive, Return, PC, AnyCall
  <2> QED
    BY <1>0, <1>2, <1>4, <2>1, MovedTypes, ConstantsAssumption DEF QueueTypeOK
<1>6. j = 0 => Cardinality(Waiting("send")') = 0
  BY <1>3, CountsAreNumbers DEF WakeupInv, CountsOK, Change, One
<1>7. j \in {0, 1} /\ k \in {0, 1} /\ -k \in Int
  BY DEF One
<1> QED
  <2> HIDE DEF k, j
  <2> QED
    BY <1>1, <1>2, <1>3, <1>4, <1>5, <1>6, <1>7, Arithmetic

\* Calls that fail without waiting change nothing.
LEMMA StutterPreserves ==
  ASSUME WakeupInv, UNCHANGED vars
  PROVE  WakeupInv'
BY DEF WakeupInv, QueueTypeOK, CountsOK, ReceiversCovered, SendersCovered, vars,
       indexVars, queueVars, Waiting, Resuming, Notifying, Blocked, In

\* A thread that blocks in do_send, wakes for nothing or gives up does so
\* while the queue is full: no free place needs a wake-up.
LEMMA BlocksSend ==
  ASSUME WakeupInv, NEW t \in Threads, NEW to \in {"idle", "waiting"}, NEW c \in AnyCall, GoTo(t, to, c),
         c.op = "send" \/ to = "idle", is_full, UNCHANGED <<indexVars, m_blocked_receivers>>,
         \/ /\ pc[t] = "idle" /\ to = "waiting"
            /\ m_blocked_senders' = Incr(m_blocked_senders)
         \/ /\ t \in Resuming("send") /\ to = "waiting"
            /\ UNCHANGED m_blocked_senders
         \/ /\ t \in Resuming("send") /\ to = "idle"
            /\ m_blocked_senders' = Decr(m_blocked_senders)
  PROVE  WakeupInv'
<1> DEFINE w == One(to = "waiting")
           k == One(pc[t] # "idle")
<1>0. QueueTypeOK
  BY DEF WakeupInv
<1>1. w \in {0, 1} /\ k \in {0, 1} /\ -k \in Int /\ w - k \in Int
  BY DEF One
<1>2. /\ m_cur_num_msg' = m_cur_num_msg + 0 /\ m_cur_num_msg' = MaxNumMsg
      /\ m_blocked_receivers' = m_blocked_receivers
      /\ m_blocked_senders' = IF CircularIndex THEN m_blocked_senders + (w - k) ELSE m_blocked_senders
  BY DEF indexVars, is_full, WakeupInv, QueueTypeOK, Incr, Decr, Resuming, In, One
<1>3. Change("send", w, -k, 0, w - k) /\ Change("receive", 0, 0, 0, 0)
  <2>1. pc[t] = "idle" \/ (pc[t] \in {"woken", "timed_out"} /\ call[t].op = "send")
    BY DEF Resuming, In
  <2>2. CASE to = "waiting" /\ pc[t] = "idle"
    BY <1>0, <2>2, Moved DEF One
  <2>3. CASE to = "waiting" /\ pc[t] # "idle"
    BY <1>0, <2>1, <2>3, Moved DEF One
  <2>4. CASE to = "idle"
    BY <1>0, <2>1, <2>4, Moved DEF One
  <2> QED
    BY <2>2, <2>3, <2>4
<1>4. CountsOK' /\ m_blocked_senders' \in Nat
  <2> HIDE DEF w, k
  <2> QED
    BY <1>1, <1>2, <1>3, CountsAreNumbers DEF WakeupInv, CountsOK, Change, QueueTypeOK
<1>5. QueueTypeOK'
  BY <1>0, <1>2, <1>4, MovedTypes DEF QueueTypeOK, PC
<1> QED
  <2> HIDE DEF w, k
  <2> QED
    BY <1>1, <1>2, <1>3, <1>4, <1>5, Arithmetic

\* do_send keeps the invariant up to its first wait.
LEMMA SendPreserves ==
  ASSUME WakeupInv, NEW t \in Threads, NEW c \in SendCall, do_send(t, c)
  PROVE  WakeupInv'
<1>1. pc[t] = "idle" /\ c.op = "send" /\ c \in AnyCall
  BY DEF do_send, SendCall, AnyCall
<1>2. CASE ~is_full /\ FinishSend(t, c) /\ UNCHANGED m_blocked_senders
  BY <1>1, <1>2, FinishSendPreserves
<1>3. CASE /\ is_full
           /\ m_blocked_senders' = Incr(m_blocked_senders)
           /\ GoTo(t, "waiting", c)
           /\ UNCHANGED <<indexVars, m_blocked_receivers>>
  BY <1>1, <1>3, BlocksSend
<1>4. CASE UNCHANGED vars
  BY <1>4, StutterPreserves
<1> QED
  BY <1>2, <1>3, <1>4 DEF do_send

\* do_send keeps it after a wait, whichever way the wait ended.
LEMMA ResumeSendPreserves ==
  ASSUME WakeupInv, NEW t \in Threads, ResumeSend(t)
  PROVE  WakeupInv'
<1>1. /\ t \in Resuming("send") /\ call[t].op = "send"
      /\ call[t] \in AnyCall /\ NoCall \in AnyCall
  BY DEF ResumeSend, Resuming, In, WakeupInv, QueueTypeOK, AnyCall
<1>2. CASE m_blocked_senders' = Decr(m_blocked_senders) /\ FinishSend(t, call[t])
  BY <1>1, <1>2, FinishSendPreserves
<1>3. CASE /\ is_full
           /\ GoTo(t, "waiting", call[t])
           /\ UNCHANGED <<indexVars, m_blocked_senders, m_blocked_receivers>>
  BY <1>1, <1>3, BlocksSend
<1>4. CASE /\ is_full
           /\ m_blocked_senders' = Decr(m_blocked_senders)
           /\ GoTo(t, "idle", NoCall)
           /\ UNCHANGED <<indexVars, m_blocked_receivers>>
  BY <1>1, <1>4, BlocksSend
<1> QED
  BY <1>2, <1>3, <1>4 DEF ResumeSend, Return

\* A thread that blocks in do_receive, wakes for nothing or gives up does so
\* while the queue is empty: no message needs a wake-up.
LEMMA BlocksReceive ==
  ASSUME WakeupInv, NEW t \in Threads, NEW to \in {"idle", "waiting"}, NEW c \in AnyCall, GoTo(t, to, c),
         c.op = "receive" \/ to = "idle", is_empty, UNCHANGED <<indexVars, m_blocked_senders>>,
         \/ /\ pc[t] = "idle" /\ to = "waiting"
            /\ m_blocked_receivers' = Incr(m_blocked_receivers)
         \/ /\ t \in Resuming("receive") /\ to = "waiting"
            /\ UNCHANGED m_blocked_receivers
         \/ /\ t \in Resuming("receive") /\ to = "idle"
            /\ m_blocked_receivers' = Decr(m_blocked_receivers)
  PROVE  WakeupInv'
<1> DEFINE w == One(to = "waiting")
           k == One(pc[t] # "idle")
<1>0. QueueTypeOK
  BY DEF WakeupInv
<1>1. w \in {0, 1} /\ k \in {0, 1} /\ -k \in Int /\ w - k \in Int
  BY DEF One
<1>2. /\ m_cur_num_msg' = m_cur_num_msg + 0 /\ m_cur_num_msg' = 0
      /\ m_blocked_senders' = m_blocked_senders
      /\ m_blocked_receivers' = IF CircularIndex THEN m_blocked_receivers + (w - k) ELSE m_blocked_receivers
  BY DEF indexVars, is_empty, WakeupInv, QueueTypeOK, Incr, Decr, Resuming, In, One
<1>3. Change("send", 0, 0, 0, 0) /\ Change("receive", w, -k, 0, w - k)
  <2>1. pc[t] = "idle" \/ (pc[t] \in {"woken", "timed_out"} /\ call[t].op = "receive")
    BY DEF Resuming, In
  <2>2. CASE to = "waiting" /\ pc[t] = "idle"
    BY <1>0, <2>2, Moved DEF One
  <2>3. CASE to = "waiting" /\ pc[t] # "idle"
    BY <1>0, <2>1, <2>3, Moved DEF One
  <2>4. CASE to = "idle"
    BY <1>0, <2>1, <2>4, Moved DEF One
  <2> QED
    BY <2>2, <2>3, <2>4
<1>4. CountsOK' /\ m_blocked_receivers' \in Nat
  <2> HIDE DEF w, k
  <2> QED
    BY <1>1, <1>2, <1>3, CountsAreNumbers DEF WakeupInv, CountsOK, Change, QueueTypeOK
<1>5. QueueTypeOK'
  BY <1>0, <1>2, <1>4, MovedTypes DEF QueueTypeOK, PC
<1> QED
  <2> HIDE DEF w, k
  <2> QED
    BY <1>1, <1>2, <1>3, <1>4, <1>5, Arithmetic

\* do_receive keeps the invariant up to its first wait.
LEMMA ReceivePreserves ==
  ASSUME WakeupInv, NEW t \in Threads, NEW c \in ReceiveCall, NEW size, do_receive(t, c, size)
  PROVE  WakeupInv'
<1>1. pc[t] = "idle" /\ c.op = "receive" /\ c \in AnyCall
  BY DEF do_receive, ReceiveCall, AnyCall
<1>2. CASE ~is_empty /\ FinishReceive(t, c) /\ UNCHANGED m_blocked_receivers
  BY <1>1, <1>2, FinishReceivePreserves
<1>3. CASE /\ is_empty
           /\ m_blocked_receivers' = Incr(m_blocked_receivers)
           /\ GoTo(t, "waiting", c)
           /\ UNCHANGED <<indexVars, m_blocked_senders>>
  BY <1>1, <1>3, BlocksReceive
<1>4. CASE UNCHANGED vars
  BY <1>4, StutterPreserves
<1> QED
  BY <1>2, <1>3, <1>4 DEF do_receive

\* do_receive keeps it after a wait, whichever way the wait ended.
LEMMA ResumeReceivePreserves ==
  ASSUME WakeupInv, NEW t \in Threads, ResumeReceive(t)
  PROVE  WakeupInv'
<1>1. /\ t \in Resuming("receive") /\ call[t].op = "receive"
      /\ call[t] \in AnyCall /\ NoCall \in AnyCall
  BY DEF ResumeReceive, Resuming, In, WakeupInv, QueueTypeOK, AnyCall
<1>2. CASE m_blocked_receivers' = Decr(m_blocked_receivers) /\ FinishReceive(t, call[t])
  BY <1>1, <1>2, FinishReceivePreserves
<1>3. CASE /\ is_empty
           /\ GoTo(t, "waiting", call[t])
           /\ UNCHANGED <<indexVars, m_blocked_receivers, m_blocked_senders>>
  BY <1>1, <1>3, BlocksReceive
<1>4. CASE /\ is_empty
           /\ m_blocked_receivers' = Decr(m_blocked_receivers)
           /\ GoTo(t, "idle", NoCall)
           /\ UNCHANGED <<indexVars, m_blocked_senders>>
  BY <1>1, <1>4, BlocksReceive
<1> QED
  BY <1>2, <1>3, <1>4 DEF ResumeReceive, Return

\* notify_one by a thread of side op: it leaves, and one waiting thread of
\* the other side resumes, if there is one.
LEMMA NotifyPreserves ==
  ASSUME WakeupInv, NEW t \in Threads, NEW op \in Ops, NotifyOne(t, op)
  PROVE  WakeupInv'
<1> DEFINE other == IF op = "send" THEN "receive" ELSE "send"
<1>1. /\ QueueTypeOK
      /\ t \in Notifying(op)
      /\ UNCHANGED <<m_cur_num_msg, m_blocked_senders, m_blocked_receivers>>
      /\ other \in Ops /\ other # op
  BY DEF NotifyOne, WakeupInv, indexVars, Ops
<1>2. pc[t] = "notifying" /\ call[t].op = op
  BY <1>1 DEF Notifying, In
<1>3. QueueTypeOK'
  BY <1>1 DEF NotifyOne, QueueTypeOK, PC, AnyCall
<1>4. PICK b \in {0, 1} :
        /\ Change(op, 0, 0, -1, 0)
        /\ Change(other, -b, b, 0, 0)
        /\ b = 0 => Cardinality(Waiting(other)') = 0
  <2>1. CASE Waiting(other) = {} /\ pc' = [pc EXCEPT ![t] = "idle"]
    <3>1. GoTo(t, "idle", NoCall)
      BY <2>1 DEF NotifyOne, GoTo
    <3>2. Change(op, 0, 0, -1, 0) /\ Change(other, 0, 0, 0, 0)
      BY <1>1, <1>2, <3>1, Moved DEF One
    <3>3. Cardinality(Waiting(other)') = 0
      BY <2>1, <3>2, InCount DEF Change, Waiting
    <3> QED
      BY <3>2, <3>3
  <2>2. ASSUME NEW w \in Waiting(other), NEW where \in {"woken", "timed_out"},
               pc' = [pc EXCEPT ![t] = "idle", ![w] = where]
        PROVE  Change(op, 0, 0, -1, 0) /\ Change(other, -1, 1, 0, 0)
    <3>1. /\ w \in Threads /\ w # t
          /\ pc[w] = "waiting" /\ call[w].op = other
          /\ call' = [call EXCEPT ![t] = NoCall]
      BY <1>2, <2>2 DEF Waiting, In, NotifyOne
    <3>2. /\ Notifying(op)' = Notifying(op) \ {t}
          /\ Waiting(op)' = Waiting(op)
          /\ Resuming(op)' = Resuming(op)
          /\ Blocked(op)' = Blocked(op)
      BY <1>1, <1>2, <2>2, <3>1 DEF QueueTypeOK, Waiting, Resuming, Notifying, Blocked, In
    <3>3. /\ Notifying(other)' = Notifying(other)
          /\ Waiting(other)' = Waiting(other) \ {w}
          /\ Resuming(other)' = Resuming(other) \cup {w} /\ w \notin Resuming(other)
          /\ Blocked(other)' = Blocked(other)
      BY <1>1, <1>2, <2>2, <3>1 DEF QueueTypeOK, Waiting, Resuming, Notifying, Blocked, In
    <3>4. /\ IsFiniteSet(Notifying(op)) /\ IsFiniteSet(Waiting(other))
          /\ IsFiniteSet(Resuming(other))
      BY ThreadsCount DEF Notifying, Waiting, Resuming, In
    <3>5. /\ Cardinality(Notifying(op) \ {t}) = Cardinality(Notifying(op)) - 1
          /\ Cardinality(Waiting(other) \ {w}) = Cardinality(Waiting(other)) - 1
          /\ Cardinality(Resuming(other) \cup {w}) = Cardinality(Resuming(other)) + 1
      BY <1>1, <2>2, <3>3, <3>4, FS_RemoveElement, FS_AddElement
    <3> HIDE DEF other
    <3> QED
      BY <3>2, <3>3, <3>5, CountsAreNumbers DEF Change
  <2> QED
    BY <2>1, <2>2 DEF NotifyOne
<1>5. CountsOK'
  BY <1>1, <1>4, CountsAreNumbers DEF WakeupInv, CountsOK, Change, Ops
<1>6. m_cur_num_msg' = m_cur_num_msg + 0
  BY <1>1 DEF QueueTypeOK
<1> QED
  BY <1>3, <1>4, <1>5, <1>6, Arithmetic DEF Ops

\* A wait that ends by itself, or because its time is over.
LEMMA WakePreserves ==
  ASSUME WakeupInv, NEW t \in Threads, SpuriousWakeup(t) \/ Timeout(t)
  PROVE  WakeupInv'
<1>1. PICK to \in {"woken", "timed_out"} : GoTo(t, to, call[t])
  BY DEF SpuriousWakeup, Timeout, GoTo, WakeupInv, QueueTypeOK
<1>2. /\ QueueTypeOK
      /\ pc[t] = "waiting"
      /\ UNCHANGED <<m_cur_num_msg, m_blocked_senders, m_blocked_receivers>>
  BY DEF SpuriousWakeup, Timeout, WakeupInv, indexVars
<1>3. QueueTypeOK'
  BY <1>1, <1>2, MovedTypes DEF QueueTypeOK, PC
<1>4. PICK s \in {0, 1}, r \in {0, 1} :
        Change("send", -s, s, 0, 0) /\ Change("receive", -r, r, 0, 0)
  <2>1. ASSUME NEW op PROVE
          IF call[t].op = op THEN Change(op, -1, 1, 0, 0) ELSE Change(op, 0, 0, 0, 0)
    BY <1>1, <1>2, Moved DEF One
  <2> QED
    BY <2>1
<1>5. CountsOK'
  BY <1>2, <1>4, CountsAreNumbers DEF WakeupInv, CountsOK, Change
<1>6. m_cur_num_msg' = m_cur_num_msg + 0
  BY <1>2 DEF QueueTypeOK
<1> QED
  BY <1>3, <1>4, <1>5, <1>6, Arithmetic
-----------------------------------------------------------------------------
\* The invariant holds from the creation of the queue on, for every number
\* of threads, places and interleavings.
THEOREM WakeupInvariant == Spec => []WakeupInv
<1>1. Init => WakeupInv
  <2> SUFFICES ASSUME Init PROVE WakeupInv
    OBVIOUS
  <2>1. \A op, where : "idle" \notin where => In(op, where) = {}
    BY DEF Init, In
  <2>2. \A op \in Ops : Cardinality(Waiting(op)) = 0 /\ Cardinality(Blocked(op)) = 0
    BY <2>1, InCount DEF Waiting, Blocked
  <2>3. QueueTypeOK
    BY ConstantsAssumption DEF Init, IndexInit, QueueTypeOK, PC, AnyCall
  <2> QED
    BY <2>2, <2>3 DEF Init, WakeupInv, CountsOK, ReceiversCovered, SendersCovered, Ops
<1>2. WakeupInv /\ [Next]_vars => WakeupInv'
  <2> SUFFICES ASSUME WakeupInv, [Next]_vars PROVE WakeupInv'
    OBVIOUS
  <2>1. ASSUME NEW t \in Threads, Call(t) PROVE WakeupInv'
    BY <2>1, SendPreserves, ReceivePreserves, StutterPreserves
    DEF Call, SendSizeError, ReceiveSizeError
  <2>2. ASSUME NEW t \in Threads, Resume(t) \/ Notify(t) PROVE WakeupInv'
    BY <2>2, ResumeSendPreserves, ResumeReceivePreserves, NotifyPreserves DEF Resume, Notify, Ops
  <2>3. ASSUME NEW t \in Threads, SpuriousWakeup(t) \/ Timeout(t) PROVE WakeupInv'
    BY <2>3, WakePreserves
  <2>4. CASE UNCHANGED vars
    BY <2>4, StutterPreserves
  <2> QED
    BY <2>1, <2>2, <2>3, <2>4 DEF Next
<1> QED
  BY <1>1, <1>2, PTL DEF Spec

\* m_blocked_senders and m_blocked_receivers always count the threads in the
\* blocking logic.
THEOREM BlockedCountsCorrect == Spec => []BlockedCounts
<1>1. \A op : Blocked(op) = Waiting(op) \cup Resuming(op)
  BY DEF Blocked, Waiting, Resuming, In
<1>2. WakeupInv => BlockedCounts
  BY <1>1 DEF WakeupInv, CountsOK, BlockedCounts
<1> QED
  BY <1>2, WakeupInvariant, PTL

\* While a receiver waits, every stored message has a notification under way
\* or a receiver awake.
THEOREM NoReceiverWakeupIsLost == Spec => []NoLostReceiverWakeup
<1>1. WakeupInv => NoLostReceiverWakeup
  BY InCount DEF WakeupInv, ReceiversCovered, NoLostReceiverWakeup, Waiting
<1> QED
  BY <1>1, WakeupInvariant, PTL

\* While a sender waits, every free place has a notification under way or a
\* sender awake.
THEOREM NoSenderWakeupIsLost == Spec => []NoLostSenderWakeup
<1>1. WakeupInv => NoLostSenderWakeup
  BY InCount DEF WakeupInv, SendersCovered, NoLostSenderWakeup, Waiting
<1> QED
  BY <1>1, WakeupInvariant, PTL

\* Senders and receivers never all wait for each other: a queue with room for
\* a message cannot be full and empty at once.
THEOREM NeverStandoff == Spec => []NoStandoff
<1>1. WakeupInv => NoStandoff
  <2> SUFFICES ASSUME WakeupInv, Waiting("send") # {}, Waiting("receive") # {},
                      \A t \in Threads : pc[t] \notin {"woken", "timed_out", "notifying"}
               PROVE  FALSE
    BY DEF NoStandoff
  <2>1. \A op \in Ops : Resuming(op) = {} /\ Notifying(op) = {}
    BY DEF Resuming, Notifying, In
  <2>2. \A op \in Ops : Cardinality(Resuming(op)) = 0 /\ Cardinality(Notifying(op)) = 0
    BY <2>1, InCount DEF Resuming, Notifying
  <2>3. Cardinality(Waiting("send")) # 0 /\ Cardinality(Waiting("receive")) # 0
    BY InCount DEF Waiting
  <2> QED
    BY <2>2, <2>3, ConstantsAssumption
    DEF WakeupInv, ReceiversCovered, SendersCovered, QueueTypeOK, Ops
<1> QED
  BY <1>1, WakeupInvariant, PTL
-----------------------------------------------------------------------------
\* What is known of the calls under way: a sender that waits has passed the
\* size check, and only calls that may block wait.
CallsOK ==
  \A t \in Threads :
    /\ pc[t] = "idle" <=> call[t] = NoCall
    /\ pc[t] \in {"waiting", "woken", "timed_out"} =>
         /\ call[t].block # "non_blocking"
         /\ call[t].op = "send" => Fits(call[t].buffer)

CallsInv == QueueTypeOK /\ CallsOK

\* A thread keeps CallsOK when it starts to wait only in a call that may
\* block and, as a sender, has passed the size check.
LEMMA GoToCallsOK ==
  ASSUME CallsInv, NEW t \in Threads, NEW to \in PC, NEW c \in AnyCall, GoTo(t, to, c),
         to = "idle" <=> c = NoCall,
         to = "waiting" => /\ c.block # "non_blocking"
                           /\ c.op = "send" => Fits(c.buffer),
         to \in {"woken", "timed_out"} => c = call[t] /\ pc[t] = "waiting"
  PROVE  CallsOK'
BY DEF CallsInv, CallsOK, QueueTypeOK, GoTo, Fits

\* Every step keeps CallsOK.
LEMMA CallsStep ==
  ASSUME CallsInv, Next
  PROVE  CallsOK'
<1>1. ASSUME NEW t \in Threads, NEW c \in SendCall, do_send(t, c) PROVE CallsOK'
  <2>1. c \in AnyCall /\ NoCall \in AnyCall /\ c # NoCall
    BY NoCallAssumption DEF AnyCall
  <2>2. CASE UNCHANGED vars
    BY <2>2 DEF vars, queueVars, CallsInv, CallsOK, Fits
  <2>3. CASE GoTo(t, "notifying", c) \/ GoTo(t, "idle", NoCall)
    BY <2>1, <2>3, GoToCallsOK DEF PC
  <2>4. CASE GoTo(t, "waiting", c) /\ c.block # "non_blocking" /\ Fits(c.buffer)
    BY <2>1, <2>4, GoToCallsOK DEF PC
  <2> QED
    BY <1>1, <2>2, <2>3, <2>4 DEF do_send, FinishSend, Return
<1>2. ASSUME NEW t \in Threads, NEW c \in ReceiveCall, NEW size, do_receive(t, c, size)
      PROVE  CallsOK'
  <2>1. c \in AnyCall /\ NoCall \in AnyCall /\ c # NoCall /\ c.op # "send"
    BY NoCallAssumption DEF AnyCall, ReceiveCall
  <2>2. CASE UNCHANGED vars
    BY <2>2 DEF vars, queueVars, CallsInv, CallsOK, Fits
  <2>3. CASE GoTo(t, "notifying", c) \/ GoTo(t, "idle", NoCall)
    BY <2>1, <2>3, GoToCallsOK DEF PC
  <2>4. CASE GoTo(t, "waiting", c) /\ c.block # "non_blocking"
    BY <2>1, <2>4, GoToCallsOK DEF PC
  <2> QED
    BY <1>2, <2>2, <2>3, <2>4 DEF do_receive, FinishReceive, Return
<1>3. ASSUME NEW t \in Threads, ResumeSend(t) \/ ResumeReceive(t) PROVE CallsOK'
  <2>1. /\ pc[t] \in {"woken", "timed_out"}
        /\ call[t] \in AnyCall /\ NoCall \in AnyCall /\ call[t] # NoCall
        /\ call[t].block # "non_blocking" /\ (call[t].op = "send" => Fits(call[t].buffer))
    BY <1>3 DEF ResumeSend, ResumeReceive, Resuming, In, CallsInv, CallsOK, QueueTypeOK, AnyCall
  <2>2. PICK to \in {"notifying", "waiting", "idle"} :
          GoTo(t, to, IF to = "idle" THEN NoCall ELSE call[t])
    BY <1>3 DEF ResumeSend, ResumeReceive, FinishSend, FinishReceive, Return
  <2> QED
    BY <2>1, <2>2, GoToCallsOK DEF PC
<1>4. ASSUME NEW t \in Threads, NEW op, NotifyOne(t, op) PROVE CallsOK'
  BY <1>4 DEF NotifyOne, Notifying, Waiting, In, CallsInv, CallsOK, QueueTypeOK, Fits
<1>5. ASSUME NEW t \in Threads, SpuriousWakeup(t) \/ Timeout(t) PROVE CallsOK'
  BY <1>5 DEF SpuriousWakeup, Timeout, CallsInv, CallsOK, QueueTypeOK, Fits
<1>6. CASE UNCHANGED vars
  BY <1>6 DEF vars, queueVars, CallsInv, CallsOK, Fits
<1> QED
  BY <1>1, <1>2, <1>3, <1>4, <1>5, <1>6
  DEF Next, Call, Resume, Notify, SendSizeError, ReceiveSizeError

\* Whoever is past the first wait of do_send has passed its size check, so
\* that a message stored after a wait fits as well as one stored at once.
THEOREM CallsInvariant == Spec => []CallsInv
<1>1. Init => CallsOK
  BY DEF Init, CallsOK
<1>2. CallsInv /\ [Next]_vars => CallsOK'
  <2>1. ASSUME CallsInv, UNCHANGED vars PROVE CallsOK'
    BY <2>1 DEF vars, queueVars, CallsInv, CallsOK, Fits
  <2> QED
    BY <2>1, CallsStep
<1>3. WakeupInv => QueueTypeOK
  BY DEF WakeupInv
<1> QED
  BY <1>1, <1>2, <1>3, WakeupInvariant, PTL DEF Spec, CallsInv

\* The threads use the control block as MqIndex says, one insertion or removal
\* under the lock at a time and only of messages that fit, so that all that
\* holds of the index alone holds of the queue.
THEOREM ImplementsIndex == Spec => IndexSpec
<1>1. Init => IndexInit
  BY DEF Init
<1>2. CallsInv /\ [Next]_vars => [IndexNext]_indexVars
  <2> SUFFICES ASSUME CallsInv, Next PROVE IndexNext \/ UNCHANGED indexVars
    BY DEF vars
  <2>1. ASSUME NEW t \in Threads, NEW c \in SendCall, Fits(c.buffer), FinishSend(t, c)
        PROVE  IndexNext
    BY <2>1 DEF FinishSend, IndexNext, SendCall
  <2>2. ASSUME NEW t \in Threads, NEW c, FinishReceive(t, c) PROVE IndexNext
    BY <2>2 DEF FinishReceive, IndexNext
  <2>3. ASSUME NEW t \in Threads, Call(t) PROVE IndexNext \/ UNCHANGED indexVars
    BY <2>1, <2>2, <2>3 DEF Call, do_send, do_receive, SendSizeError, ReceiveSizeError, vars
  <2>4. ASSUME NEW t \in Threads, ResumeSend(t) PROVE IndexNext \/ UNCHANGED indexVars
    <3>1. call[t] \in SendCall /\ Fits(call[t].buffer)
      BY <2>4 DEF ResumeSend, Resuming, In, CallsInv, CallsOK, QueueTypeOK, AnyCall, ReceiveCall
    <3> QED
      BY <2>1, <2>4, <3>1 DEF ResumeSend
  <2>5. ASSUME NEW t \in Threads, ResumeReceive(t) PROVE IndexNext \/ UNCHANGED indexVars
    BY <2>2, <2>5 DEF ResumeReceive
  <2> QED
    BY <2>3, <2>4, <2>5 DEF Next, Resume, Notify, NotifyOne, SpuriousWakeup, Timeout
<1> QED
  BY <1>1, <1>2, CallsInvariant, PTL DEF Spec, IndexSpec

\* The type invariant of the whole queue.
THEOREM QueueTypeCorrect == Spec => []TypeOK
<1> DEFINE MutexType == m_mutex \in BOOLEAN
<1>1. Init => MutexType
  BY DEF Init
<1>2. MutexType /\ [Next]_vars => MutexType'
  <2> SUFFICES ASSUME m_mutex \in BOOLEAN, [Next]_vars PROVE m_mutex' \in BOOLEAN
    OBVIOUS
  <2>1. ASSUME NEW t \in Threads, Call(t) PROVE m_mutex' \in BOOLEAN
    <3>1. ASSUME NEW c \in SendCall, do_send(t, c) PROVE m_mutex' \in BOOLEAN
      BY <3>1 DEF do_send, FinishSend, vars, queueVars
    <3>2. ASSUME NEW c \in ReceiveCall, NEW size, do_receive(t, c, size)
          PROVE  m_mutex' \in BOOLEAN
      BY <3>2 DEF do_receive, FinishReceive, vars, queueVars
    <3> QED
      BY <2>1, <3>1, <3>2 DEF Call, SendSizeError, ReceiveSizeError, vars, queueVars
  <2>2. ASSUME NEW t \in Threads, Resume(t) PROVE m_mutex' \in BOOLEAN
    BY <2>2 DEF Resume, ResumeSend, ResumeReceive, FinishSend, FinishReceive
  <2>3. ASSUME NEW t \in Threads, Notify(t) \/ SpuriousWakeup(t) \/ Timeout(t)
        PROVE  m_mutex' \in BOOLEAN
    BY <2>3 DEF Notify, NotifyOne, SpuriousWakeup, Timeout
  <2> QED
    BY <2>1, <2>2, <2>3 DEF Next, vars, queueVars
<1>3. CallsInv /\ IndexTypeOK /\ MutexType => TypeOK
  BY DEF CallsInv, CallsOK, QueueTypeOK, TypeOK
<1> HIDE DEF MutexType
<1> QED
  BY <1>1, <1>2, <1>3, CallsInvariant, ImplementsIndex, IndexTypeCorrect, PTL DEF Spec

\* So is the queue that threads and processes share.
THEOREM QueueIsPriorityQueue == Spec => ImplementsPriorityQueue
BY StoresPriorityQueue, ImplementsIndex, PTL
=============================================================================
