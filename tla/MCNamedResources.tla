-------------------------- MODULE MCNamedResources --------------------------
(* Three handles on the same names. *)
EXTENDS NamedResources
=============================================================================
