----------------------------- MODULE MCDissector -----------------------------
(* Model of Dissector: a word of two bytes before the name and one of three  *)
(* before the password, a line feed within it as in the real one; texts are  *)
(* given up at three bytes and memory grows by two.                          *)
EXTENDS Dissector
MCByte == {"u", "s", "k", "cr", "lf", "nul", "eight"}
MCUserWord == <<"u", "s">>
MCPassWord == <<"k", "lf", "s">>
=============================================================================
