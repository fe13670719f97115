------------------------------- MODULE Buffer -------------------------------
(***************************************************************************)
(* The direct-access I/O buffer of buffer.c.  A buffer is a record: data   *)
(* holds the cells, read and write are the offsets of the two pointers     *)
(* from b->data, limit is the offset of the end.  The documented invariant *)
(* is R <= W <= limit (buffer.h).  There is no state here: the modules     *)
(* that own a buffer keep it in a variable and use these operators.        *)
(***************************************************************************)
EXTENDS Integers, Sequences

\* Every buffer over n cells whose pointers are in order.
Buffers(Byte, n) ==
    {b \in [data : [0..(n-1) -> Byte], read : 0..n, write : 0..n, limit : {n}] :
        b.read <= b.write}

-----------------------------------------------------------------------------
buffer_reset(b) == [b EXCEPT !.read = 0, !.write = 0]

\* blank is whatever the memory held before.
buffer_init(n, blank) ==
    [data |-> [i \in 0..(n-1) |-> blank], read |-> 0, write |-> 0, limit |-> n]

buffer_can_write(b) == b.limit - b.write > 0
buffer_can_read(b)  == b.write - b.read > 0

\* The *nbyte results of buffer_write_ptr and buffer_read_ptr.
buffer_write_ptr(b) == b.limit - b.write
buffer_read_ptr(b)  == b.write - b.read

buffer_write_adv(b, n) == IF n > -1 THEN [b EXCEPT !.write = @ + n] ELSE b

\* Mutation: the memmove misses the last pending byte.
Mut_compact_short(b) ==
    IF b.read = 0 THEN b
    ELSE LET n == b.write - b.read
         IN [b EXCEPT !.data  = [i \in DOMAIN b.data |->
                                    IF i < n - 1 THEN b.data[b.read + i] ELSE b.data[i]],
                      !.read  = 0,
                      !.write = n]

\* The memmove brings the pending bytes to the start; cells past them keep
\* what they held.
buffer_compact(b) ==
    IF b.read = 0 THEN b
    ELSE IF b.read = b.write THEN [b EXCEPT !.read = 0, !.write = 0]
    ELSE LET n == b.write - b.read
         IN [b EXCEPT !.data  = [i \in DOMAIN b.data |->
                                    IF i < n THEN b.data[b.read + i] ELSE b.data[i]],
                      !.read  = 0,
                      !.write = n]

\* Mutation: no compaction when the pointers meet.
Mut_read_adv_no_compact(b, n) == IF n <= -1 THEN b ELSE [b EXCEPT !.read = @ + n]

\* Mutation: a partial send discards the rest.
Mut_read_adv_all(b, n) == buffer_reset(b)

buffer_read_adv(b, n) ==
    LET adv == [b EXCEPT !.read = @ + n]
    IN IF n <= -1 THEN b
       ELSE IF adv.read = adv.write THEN buffer_compact(adv) ELSE adv

\* buffer_read returns a byte (0 when nothing is pending) and advances.
buffer_read_byte(b) == IF buffer_can_read(b) THEN b.data[b.read] ELSE 0
buffer_read(b)      == IF buffer_can_read(b) THEN buffer_read_adv(b, 1) ELSE b

buffer_write(b, c) ==
    IF buffer_can_write(b)
    THEN buffer_write_adv([b EXCEPT !.data[b.write] = c], 1)
    ELSE b

\* What recv() does through the pointer buffer_write_ptr returned: the n bytes
\* of msg go to the cells from the write pointer on.
Fill(b, n, msg) ==
    [b EXCEPT !.data = [i \in DOMAIN b.data |->
        IF i \in b.write..(b.write + n - 1) THEN msg[i - b.write + 1] ELSE b.data[i]]]

-----------------------------------------------------------------------------
\* The i-th byte between the two pointers, oldest first; all of them; and the
\* first n, which send() sees through the pointer buffer_read_ptr returned.
Pending(b, i) == b.data[b.read + i - 1]
Contents(b) == [i \in 1..buffer_read_ptr(b) |-> Pending(b, i)]
Outgoing(b, n) == [i \in 1..n |-> Pending(b, i)]
=============================================================================
