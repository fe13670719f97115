------------------------------- MODULE MCCopy -------------------------------
(* Model of Copy.  With two cells and three bytes per direction a buffer    *)
(* fills, drains in parts and compacts while the peers end in any order.    *)
EXTENDS Copy
=============================================================================
