---------------------------- MODULE MCTcpClient ----------------------------
(* A client with a few writes, lost connections and closes. *)
EXTENDS TcpClient
=============================================================================
