------------------------------ MODULE MCEvent ------------------------------
(* Threads that each may set the event and wait for it. *)
EXTENDS Event
=============================================================================
