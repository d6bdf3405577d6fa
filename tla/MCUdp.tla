-------------------------------- MODULE MCUdp --------------------------------
(* A socket with two remotes and datagrams of no or two bytes. *)
EXTENDS Udp
=============================================================================
