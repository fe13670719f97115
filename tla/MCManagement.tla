---------------------------- MODULE MCManagement ----------------------------
(* Model of Management: two names of different lengths in a table of two.    *)
EXTENDS Management, TLC
CONSTANTS short, long, p, b1, b2
MCNames == {short, long}
MCPasses == {p}
MCBlock == {b1, b2}
\* With six bytes of write_buffer a list of short names fits, a long one does not.
MCNameLen == (short :> 1) @@ (long :> 5)
\* Here two long names pass the check, and their lengths do not fit.
MCNameLenTight == (short :> 1) @@ (long :> 2)
=============================================================================
