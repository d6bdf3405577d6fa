----------------------------- MODULE MCTcpServer -----------------------------
(* A server with a few sessions, of which two can be alive at a time. *)
EXTENDS TcpServer

\* Which address is which makes no difference: the first session gets this one.
FirstAddress == CHOOSE a \in Address : TRUE

FirstSessionThere == session # <<>> => session[1].id = FirstAddress
=============================================================================
