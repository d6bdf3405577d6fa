--------------------------- MODULE MCMessageQueue ---------------------------
(***************************************************************************)
(* Threads that all may send and receive, in every mode, on a small queue. *)
(***************************************************************************)
EXTENDS MessageQueue, TLC

MCSize == [b \in Buffer |-> IF b = "long" THEN 2 ELSE 1]

MCSymmetry == Permutations(Threads)

\* States up to a renaming of the message buffers, which no property can
\* tell apart (see MCMqIndex).
MCView == <<[i \in Position |-> msg[mp_index[i]]],
            m_cur_first_msg, m_cur_num_msg, rcvd, IndexIsPermutation, queueVars>>
=============================================================================
