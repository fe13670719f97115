----------------------------- MODULE BufferQueue -----------------------------
(***************************************************************************)
(* One buffer of buffer.c driven by any legal sequence of API calls, next  *)
(* to the queue of bytes its users believe it is.  recv_into and           *)
(* send_from are the two idioms of every stage of the server: take the     *)
(* pointer and the room, let the kernel copy, advance by what it returned. *)
(***************************************************************************)
EXTENDS Buffer

CONSTANTS Byte, \* the values a cell may hold
          Size  \* the n given to buffer_init

ASSUME ByteAssumption == Byte # {}
ASSUME SizeAssumption == Size \in Nat \ {0}

VARIABLES b, \* the buffer
          q  \* ghost: the bytes written and not read yet

vars == <<b, q>>

Init ==
    /\ \E blank \in Byte : b = buffer_init(Size, blank)
    /\ q = << >>

write_byte(c) ==
    /\ b' = buffer_write(b, c)
    /\ q' = IF buffer_can_write(b) THEN Append(q, c) ELSE q

read_byte ==
    /\ b' = buffer_read(b)
    /\ q' = IF q = << >> THEN q ELSE Tail(q)

\* recv() fills n of the buffer_write_ptr cells with the bytes of msg.
recv_into(n, msg) ==
    /\ n <= buffer_write_ptr(b)
    /\ b' = buffer_write_adv(Fill(b, n, msg), n)
    /\ q' = q \o msg

\* send() takes n of the buffer_read_ptr bytes.
send_from(n) ==
    /\ n <= buffer_read_ptr(b)
    /\ b' = buffer_read_adv(b, n)
    /\ q' = SubSeq(q, n + 1, Len(q))

compact ==
    /\ b' = buffer_compact(b)
    /\ UNCHANGED q

reset ==
    /\ b' = buffer_reset(b)
    /\ q' = << >>

Next ==
    \/ \E c \in Byte : write_byte(c)
    \/ read_byte
    \/ \E n \in 1..Size : \E msg \in [1..n -> Byte] : recv_into(n, msg)
    \/ \E n \in 1..Size : send_from(n)
    \/ compact
    \/ reset

Spec == Init /\ [][Next]_vars

-----------------------------------------------------------------------------
\* The documented pointer invariant of buffer.h, R <= W <= limit, with cells
\* in Byte: no sequence of API calls breaks it.
TypeOK == b \in Buffers(Byte, Size)

\* The pointers delimit exactly the bytes written and not yet read, in order,
\* across partial sends, compaction with its memmove and reset.
HoldsQueue == Contents(b) = q

\* A drained buffer is always back at its start (buffer_read_adv compacts when
\* the pointers meet), so an empty buffer has room for Size bytes: a stage that
\* waits for room never waits on an empty buffer.
DrainedIsRewound == b.read = b.write => b.read = 0

\* The three together: under any calls buffer.c is a bounded queue.
IsQueue == TypeOK /\ HoldsQueue /\ DrainedIsRewound

=============================================================================
