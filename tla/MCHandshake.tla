---------------------------- MODULE MCHandshake ----------------------------
(* Model of Handshake.  In a request, six byte values hold every value the   *)
(* parser compares with, a wrong one for each field, and the lengths 0 to 2  *)
(* of a name beside those that are too long; in the other messages, the      *)
(* versions, the methods and the lengths 0 to 2.                             *)
EXTENDS Handshake
MCByte == 0..14
MCSendable == [s \in ReadStages |->
    CASE s = "REQUEST_READ" -> 0..5
      [] s = "MNG_REQUEST_READ_INDEX" -> {0, 10, 11, 12, 14}
      [] OTHER -> {0, 1, 2, 5}]
MCUsers == <<[name |-> <<1>>, pass |-> <<2>>], [name |-> <<1>>, pass |-> << >>]>>
MCAdmins == <<[name |-> <<2>>, pass |-> <<2, 1>>]>>
=============================================================================
