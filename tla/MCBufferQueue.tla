---------------------------- MODULE MCBufferQueue ----------------------------
(* Model of BufferQueue: two byte values tell a shifted byte from the right *)
(* one; four cells allow partial reads and shifting compactions.          *)
EXTENDS BufferQueue
=============================================================================
