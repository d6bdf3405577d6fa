------------------------------ MODULE MCSerial ------------------------------
(* A serial port with a few writes, lost devices and closes. *)
EXTENDS Serial
=============================================================================
