------------------------------ MODULE MyParser ------------------------------
(***************************************************************************)
(* The parser of myParser.c: a list of substates, run over the bytes of a  *)
(* message.  The login and every management message are such lists.  There *)
(* is no state here: Handshake keeps the parser in a variable.             *)
(*                                                                         *)
(* A substate is a count (read_N) or a text (long_read); result holds the  *)
(* cells written to a text's memory, which has size + 1 of them.  check is *)
(* the set of results the check function accepts, empty when there is      *)
(* none.  No list is built with a single_read.                             *)
(***************************************************************************)
EXTENDS Integers, Sequences, SequencesExt

Substate(state, size, check) ==
    [state |-> state, size |-> size, remaining |-> size, result |-> << >>, check |-> check]
Count == Substate("read_N", 0, {})
Counted == Substate("long_read", 0, {})
OneByte(check) == Substate("long_read", 1, check)

parser_init(states) == [states |-> states, index |-> 1, current |-> states[1].state]

\* The parser goes to substate i, or is done with the last one.
Goes(p, i) ==
    [p EXCEPT !.index = i,
              !.current = IF i > Len(p.states) THEN "done_read" ELSE p.states[i].state]

\* The memory cells of a text with value b written at index i.
Put(cells, i, b) == [k \in DOMAIN cells \cup {i} |-> IF k = i THEN b ELSE cells[k]]

\* A text of no bytes is skipped.
read_N(p, b) ==
    LET i == p.index + 1
        q == [p EXCEPT !.states[i] = [@ EXCEPT !.size = b, !.remaining = b,
                                               !.result = IF b = 0 THEN Put(<< >>, 0, 0) ELSE << >>]]
    IN Goes(q, IF b = 0 THEN i + 1 ELSE i)

long_read(p, b) ==
    LET sub == p.states[p.index]
        put == Put(sub.result, sub.size - sub.remaining, b)
        left == (sub.remaining - 1) % 256
        text == IF left > 0 THEN put ELSE Put(put, sub.size, 0)
        q == [p EXCEPT !.states[p.index] = [@ EXCEPT !.remaining = left, !.result = text]]
    IN IF left > 0 THEN q
       ELSE IF sub.check # {} /\ text[0] \notin sub.check THEN [q EXCEPT !.current = "error_read"]
       ELSE Goes(q, p.index + 1)

parser_feed(p, b) ==
    CASE p.current = "read_N"    -> read_N(p, b)
      [] p.current = "long_read" -> long_read(p, b)
      [] OTHER -> p

is_done(p) == p.current \in {"done_read", "error_read"}

\* Mutation: the loop does not stop at the end of the message.
Mut_consume_on(p, bytes) ==
    [parser |-> FoldLeft(parser_feed, p, bytes), taken |-> Len(bytes)]

\* Feeds bytes until the message is complete: the parser then, and the number
\* of bytes it took.
consume(p, bytes) ==
    LET run[n \in 0..Len(bytes)] ==
          IF n = 0 THEN [parser |-> p, taken |-> 0]
          ELSE LET before == run[n - 1]
               IN IF is_done(before.parser) THEN before
                  ELSE [parser |-> parser_feed(before.parser, bytes[n]), taken |-> n]
    IN run[Len(bytes)]

\* The C string in the result of substate i.
CString(p, i) ==
    LET cells == p.states[i].result
        n == CHOOSE k \in DOMAIN cells : cells[k] = 0 /\ \A j \in 0..(k - 1) : cells[j] # 0
    IN [k \in 1..n |-> cells[k - 1]]
=============================================================================
