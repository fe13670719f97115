------------------------------- MODULE MCProxy -------------------------------
(* Model-checking instances of Proxy; the sizes are in the .cfg files. *)
EXTENDS Proxy

CONSTANTS c1, c2
=============================================================================
