------------------------------ MODULE MqIndex ------------------------------
(***************************************************************************)
(* The control block of a message queue (mq_hdr_t): preallocated message    *)
(* buffers and an array of pointers to them, mp_index, kept so that the     *)
(* pointers to inserted messages form a run ordered by priority and the     *)
(* rest point to free buffers.                                              *)
(*                                                                          *)
(* CircularIndex says which branch of the header is compiled: TRUE for      *)
(* BOOST_INTERPROCESS_MSG_QUEUE_CIRCULAR_INDEX (the run starts at           *)
(* m_cur_first_msg and may wrap), FALSE for the plain array, in which       *)
(* m_cur_first_msg does not exist (here it stays 0).                        *)
(*                                                                          *)
(* All of this happens under m_mutex, so an insertion and a removal are     *)
(* one step each.                                                           *)
(***************************************************************************)
EXTENDS Integers, Sequences, FiniteSets

CONSTANTS CircularIndex,  \* which branch of the #if is compiled
          MaxNumMsg,      \* m_max_num_msg
          MaxMsgSize,     \* m_max_msg_size
          Priority,       \* the priorities senders use
          Buffer,         \* the contents senders pass
          Size,           \* the size of each of them
          NoData,         \* the content of a zero-length message
          NoMsg           \* nothing received yet

ASSUME ConstantsAssumption ==
  /\ CircularIndex \in BOOLEAN
  /\ MaxNumMsg \in Nat \ {0}
  /\ MaxMsgSize \in Nat
  /\ Priority \subseteq Nat
  /\ Size \in [Buffer -> Nat]
  /\ NoData \notin Buffer

VARIABLES mp_index,         \* position -> message buffer
          m_cur_first_msg,  \* position of the bottom message (circular index)
          m_cur_num_msg,    \* number of inserted messages
          msg,              \* header and content of each message buffer
          rcvd              \* what the last receive returned

indexVars == <<mp_index, m_cur_first_msg, m_cur_num_msg, msg, rcvd>>

Position == 0 .. MaxNumMsg - 1

\* A message buffer is named by its place in the array of buffers.  data is
\* the first len bytes of its data area, the only ones ever read.
MsgHdr == [len : Nat, priority : Nat, data : Buffer \cup {NoData}]

CleanMsg == [len |-> 0, priority |-> 0, data |-> NoData]

\* The size check of do_send: a larger buffer throws size_error before the
\* lock is taken, leaving everything as it was.
Fits(b) == Size[b] <= MaxMsgSize

Content(b) == IF Size[b] = 0 THEN NoData ELSE b
-----------------------------------------------------------------------------
\* Definitions named Bug_ are plausible mistakes in the code, never used by
\* the specification: each shows that some property would notice it.
Bug_FullOneLate == m_cur_num_msg > MaxNumMsg

is_full == m_cur_num_msg = MaxNumMsg

is_empty == m_cur_num_msg = 0

end_pos ==
  LET space_until_bufend == MaxNumMsg - m_cur_first_msg
  IN  IF space_until_bufend > m_cur_num_msg
      THEN m_cur_first_msg + m_cur_num_msg
      ELSE m_cur_num_msg - space_until_bufend

inserted_ptr_begin == IF CircularIndex THEN m_cur_first_msg ELSE 0

inserted_ptr_end == IF CircularIndex THEN end_pos ELSE m_cur_num_msg

top_msg ==
  IF CircularIndex
  THEN mp_index[IF end_pos # 0 THEN end_pos - 1 ELSE MaxNumMsg - 1]
  ELSE mp_index[m_cur_num_msg - 1]

bottom_msg == mp_index[inserted_ptr_begin]

PriorityAt(pos) == msg[mp_index[pos]].priority

\* std::lower_bound over the positions lo .. hi-1.
StdLowerBound(lo, hi, p) ==
  CHOOSE k \in lo .. hi :
    /\ \A i \in lo .. k - 1 : PriorityAt(i) < p
    /\ k < hi => PriorityAt(k) >= p

Wrapped == CircularIndex /\ inserted_ptr_end < inserted_ptr_begin

lower_bound(p) ==
  LET upper == StdLowerBound(inserted_ptr_begin, MaxNumMsg, p)
  IN  IF ~Wrapped
      THEN StdLowerBound(inserted_ptr_begin, inserted_ptr_end, p)
      ELSE IF upper = MaxNumMsg
           THEN StdLowerBound(0, inserted_ptr_end, p)
           ELSE upper
-----------------------------------------------------------------------------
\* std::copy of the positions lo .. hi-1 one place down, and
\* std::copy_backward of them one place up.
CopyDown(index, lo, hi) ==
  [i \in Position |-> IF lo - 1 <= i /\ i <= hi - 2 THEN index[i + 1] ELSE index[i]]

CopyUp(index, lo, hi) ==
  [i \in Position |-> IF lo + 1 <= i /\ i <= hi THEN index[i - 1] ELSE index[i]]

FirstMinusOne == (IF m_cur_first_msg # 0 THEN m_cur_first_msg ELSE MaxNumMsg) - 1

\* insert_at has four ways to make room; each yields the new index, the new
\* m_cur_first_msg and the position of the message it made room for.
ExtendFront ==
  [index |-> mp_index, first |-> FirstMinusOne, at |-> FirstMinusOne]

ExtendBack ==
  [index |-> mp_index, first |-> m_cur_first_msg, at |-> inserted_ptr_end]

MoveFront(where) ==
  LET pos    == IF where = 0 THEN MaxNumMsg ELSE where
      unique == m_cur_first_msg # 0 /\ m_cur_first_msg <= pos
      beg1   == IF unique THEN m_cur_first_msg ELSE 1
      beg2   == IF unique \/ m_cur_first_msg = 0 THEN MaxNumMsg ELSE m_cur_first_msg
      backup == mp_index[(IF unique THEN beg1 ELSE beg2) - 1]
      second == IF unique
                THEN mp_index
                ELSE [CopyDown(mp_index, beg2, MaxNumMsg)
                        EXCEPT ![MaxNumMsg - 1] = mp_index[0]]
      first  == CopyDown(second, beg1, pos)
  IN  [index |-> [first EXCEPT ![pos - 1] = backup],
       first |-> FirstMinusOne,
       at    |-> pos - 1]

\* The case in which the end of the run has wrapped is forgotten.
Bug_MoveBackOneSegment(where) ==
  [index |-> [CopyUp(mp_index, where, end_pos) EXCEPT ![where] = mp_index[end_pos]],
   first |-> m_cur_first_msg,
   at    |-> where]

MoveBack(where) ==
  LET unique == where < end_pos
      end1   == IF unique THEN end_pos ELSE MaxNumMsg - 1
      end2   == IF unique THEN 0 ELSE end_pos
      backup == mp_index[end_pos]
      second == IF unique
                THEN mp_index
                ELSE [CopyUp(mp_index, 0, end2) EXCEPT ![0] = mp_index[MaxNumMsg - 1]]
      first  == CopyUp(second, where, end1)
  IN  [index |-> [first EXCEPT ![where] = backup],
       first |-> m_cur_first_msg,
       at    |-> where]

CircularInsertAt(where) ==
  LET circ_pos == IF where >= m_cur_first_msg
                  THEN where - m_cur_first_msg
                  ELSE where + (MaxNumMsg - m_cur_first_msg)
  IN  CASE where = inserted_ptr_begin -> ExtendFront
        [] where # inserted_ptr_begin /\ where = inserted_ptr_end -> ExtendBack
        [] OTHER -> IF circ_pos < m_cur_num_msg \div 2
                    THEN MoveFront(where) ELSE MoveBack(where)

\* The free pointer the move overwrites is not saved.
Bug_LinearInsertNoBackup(pos) ==
  [index |-> CopyUp(mp_index, pos, m_cur_num_msg), first |-> m_cur_first_msg, at |-> pos]

LinearInsertAt(pos) ==
  [index |-> [CopyUp(mp_index, pos, m_cur_num_msg)
                EXCEPT ![pos] = mp_index[m_cur_num_msg]],
   first |-> m_cur_first_msg,
   at    |-> pos]

insert_at(where) ==
  IF CircularIndex THEN CircularInsertAt(where) ELSE LinearInsertAt(where)

\* The short cut for a message above the top one is forgotten.
Bug_NoTopShortCut(p) == ~is_empty /\ p > msg[bottom_msg].priority

UsesLowerBound(p) ==
  /\ ~is_empty
  /\ p > msg[bottom_msg].priority
  /\ p <= msg[top_msg].priority

\* A message not above the bottom one goes to the end.
Bug_QueueAtEnd(p) ==
  insert_at(IF UsesLowerBound(p) THEN lower_bound(p) ELSE inserted_ptr_end)

\* A message as urgent as the top one goes above it.
Bug_EqualOnTop(p) ==
  insert_at(CASE ~is_empty /\ p >= msg[top_msg].priority -> inserted_ptr_end
              [] UsesLowerBound(p) /\ p < msg[top_msg].priority -> lower_bound(p)
              [] OTHER -> inserted_ptr_begin)

queue_free_msg(p) ==
  insert_at(CASE UsesLowerBound(p) -> lower_bound(p)
              [] ~is_empty /\ p > msg[bottom_msg].priority
                           /\ p > msg[top_msg].priority -> inserted_ptr_end
              [] OTHER -> inserted_ptr_begin)
-----------------------------------------------------------------------------
\* The state initialize_memory leaves, over memory the system zero-fills.
IndexInit ==
  /\ mp_index = [i \in Position |-> i]
  /\ m_cur_first_msg = 0
  /\ m_cur_num_msg = 0
  /\ msg = [i \in Position |-> CleanMsg]
  /\ rcvd = NoMsg

\* The part of do_send that has found a free message: queue it and fill it.
StoreMsg(p, b) ==
  /\ ~is_full
  /\ LET room == queue_free_msg(p)
     IN  /\ mp_index' = room.index
         /\ m_cur_first_msg' = room.first
         /\ msg' = [msg EXCEPT ![room.index[room.at]] =
                      [len |-> Size[b], priority |-> p, data |-> Content(b)]]
  /\ m_cur_num_msg' = m_cur_num_msg + 1
  /\ UNCHANGED rcvd

\* The header is not cleaned.
Bug_TakeTopMsgDirty ==
  /\ ~is_empty
  /\ rcvd' = <<msg[top_msg].priority,
               [len |-> msg[top_msg].len, data |-> msg[top_msg].data]>>
  /\ m_cur_num_msg' = m_cur_num_msg - 1
  /\ UNCHANGED <<mp_index, m_cur_first_msg, msg>>

\* The part of do_receive that has found a message: copy it out, clean its
\* header and free it.
TakeTopMsg ==
  /\ ~is_empty
  /\ rcvd' = <<msg[top_msg].priority,
               [len |-> msg[top_msg].len, data |-> msg[top_msg].data]>>
  /\ msg' = [msg EXCEPT ![top_msg] = CleanMsg]
  /\ m_cur_num_msg' = m_cur_num_msg - 1
  /\ UNCHANGED <<mp_index, m_cur_first_msg>>

IndexNext ==
  \/ \E p \in Priority, b \in Buffer : Fits(b) /\ StoreMsg(p, b)
  \/ TakeTopMsg

IndexSpec == IndexInit /\ [][IndexNext]_indexVars
-----------------------------------------------------------------------------
IndexTypeOK ==
  /\ mp_index \in [Position -> Position]
  /\ m_cur_first_msg \in Position
  /\ m_cur_num_msg \in 0 .. MaxNumMsg
  /\ msg \in [Position -> MsgHdr]

\* The position of the i-th inserted message, counted from the bottom.
Phys(i) ==
  IF m_cur_first_msg + i < MaxNumMsg
  THEN m_cur_first_msg + i
  ELSE m_cur_first_msg + i - MaxNumMsg

\* No buffer is lost and none is pointed to twice, whichever segments
\* insert_at moved: the index stays a permutation of the message buffers.
IndexIsPermutation ==
  \A i, j \in Position : i # j => mp_index[i] # mp_index[j]

\* The inserted messages are ordered by priority from bottom to top, across
\* the wrap of the circular index: what lower_bound and top_msg rely on.
StoredSorted ==
  \A i, j \in 0 .. m_cur_num_msg - 1 :
    i < j => PriorityAt(Phys(i)) <= PriorityAt(Phys(j))

\* "Sanity check, free msgs are always cleaned when received": the two
\* assertions of do_send hold for whichever free buffer it is given.
FreeMsgsClean ==
  \A i \in m_cur_num_msg .. MaxNumMsg - 1 :
    /\ msg[mp_index[Phys(i)]].priority = 0
    /\ msg[mp_index[Phys(i)]].len = 0

\* The assertions inside lower_bound: whenever queue_free_msg calls it on a
\* wrapped index and the first segment has no place for the message, the
\* second one has one, and it is not the end.
LowerBoundAssertions ==
  \A p \in Priority :
    (/\ ~is_full /\ UsesLowerBound(p) /\ Wrapped
     /\ StdLowerBound(inserted_ptr_begin, MaxNumMsg, p) = MaxNumMsg)
    => /\ lower_bound(p) # inserted_ptr_end
       /\ lower_bound(p) # inserted_ptr_begin

\* What a receiver is given of a message.
Payload(hdr) == [len |-> hdr.len, data |-> hdr.data]

\* How many inserted messages have a priority in a set.
NumOf(P) == Cardinality({i \in 0 .. m_cur_num_msg - 1 : PriorityAt(Phys(i)) \in P})

\* The stored messages of priority p, oldest first.  The index is sorted, so
\* they are next to each other, below those of a higher priority, with the
\* oldest nearest the top.
StoredFifo(p) ==
  LET top == m_cur_num_msg - NumOf({q \in Priority : q > p})
  IN  [k \in 1 .. NumOf({p}) |-> Payload(msg[mp_index[Phys(top - k)]])]

PQ == INSTANCE PriorityQueue WITH
        Capacity <- MaxNumMsg,
        Message  <- {[len |-> Size[b], data |-> Content(b)] : b \in {c \in Buffer : Fits(c)}},
        fifo     <- [p \in Priority |-> StoredFifo(p)]

\* The index implements the bounded store with one FIFO queue per priority:
\* receive hands out the oldest message of the highest priority, with the
\* size and content it was sent with.
ImplementsPriorityQueue == PQ!Spec
=============================================================================
