----------------------------- MODULE MCMqIndex -----------------------------
(***************************************************************************)
(* A queue of MaxNumMsg messages with buffers of sizes 0, 1 and 2.          *)
(*                                                                          *)
(* Which buffer a pointer names is never observable: renaming the message   *)
(* buffers maps behaviours to behaviours, properties included.  MCView      *)
(* takes states up to such a renaming by looking at each buffer through     *)
(* the index; a state in which the index is no permutation (which a         *)
(* renaming cannot fix) is kept apart by its last component.                *)
(***************************************************************************)
EXTENDS MqIndex

MCSize == [b \in Buffer |-> CASE b = "empty" -> 0 [] b = "long" -> 2 [] OTHER -> 1]

MCView == <<[i \in Position |-> msg[mp_index[i]]],
            m_cur_first_msg, m_cur_num_msg, rcvd, IndexIsPermutation>>
=============================================================================
