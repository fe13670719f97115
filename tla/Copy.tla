-------------------------------- MODULE Copy --------------------------------
(***************************************************************************)
(* The COPY stage of one connection (copy.c): two sockets, two buffers,    *)
(* and for each socket the directions still open (copy_st.interest) and    *)
(* the interest registered in the selector.  It starts when the last byte  *)
(* of the successful reply leaves REQUEST_WRITE and ends in DONE.          *)
(*                                                                         *)
(* A byte is named by its position in the stream of the peer that sent it; *)
(* COPY never looks at values (the password dissector only observes them). *)
(* Cells that hold no byte of the stream (old handshake bytes) hold 0.     *)
(***************************************************************************)
EXTENDS Buffer, FiniteSets

CONSTANTS BufferSize, \* the size of raw_buff_a and raw_buff_b
          MaxBytes    \* bound: bytes each peer sends

ASSUME BufferSizeAssumption == BufferSize \in Nat \ {0}
ASSUME MaxBytesAssumption == MaxBytes \in Nat

Side == {"client", "origin"}
Other(s) == IF s = "client" THEN "origin" ELSE "client"

OP_READ  == "r"
OP_WRITE == "w"
Interests == SUBSET {OP_READ, OP_WRITE}

VARIABLES
    state,    \* stm state: "REQUEST_WRITE", "COPY" or "DONE"
    interest, \* interest[s]: copy_st.interest of side s
    armed,    \* armed[s]: the interest of s's socket in the selector
    rb,       \* rb[s]: the buffer s reads into (read_buffer, write_buffer);
              \* copy_init gives rb[s] to the other side as its wb
    recvd,    \* recvd[s]: bytes of s's stream the proxy has received
    early,    \* bytes of the client's stream received before COPY began
    out,      \* out[s]: the bytes send() has handed to s, in order
    sent,     \* sent[s]: bytes the peer on s has sent
    peer,     \* peer[s]: "open", "eof" (sent FIN) or "reset"
    metrics   \* the transfer metrics

vars == <<state, interest, armed, rb, recvd, early, out, sent, peer, metrics>>

-----------------------------------------------------------------------------
\* Mutation: bytes are sent only once the buffer is full.
Mut_interests_batch(itr, bf, s) ==
    {op \in itr[s] : \/ op = OP_READ  /\ buffer_can_write(bf[s])
                     \/ op = OP_WRITE /\ ~buffer_can_write(bf[Other(s)])}

\* copy_compute_interests: what side s is registered for, given the open
\* directions itr and the buffers bf.
copy_compute_interests(itr, bf, s) ==
    {op \in itr[s] : \/ op = OP_READ  /\ buffer_can_write(bf[s])
                     \/ op = OP_WRITE /\ buffer_can_read(bf[Other(s)])}

\* Mutation: the running average divides by the old count.
Mut_average(avg, total, n) == IF total = 0 THEN n ELSE (avg * total + n) \div total

\* The running average kept by copy_read and copy_write, in integers.
average(avg, total, n) == IF total = 0 THEN n ELSE (avg * total + n) \div (total + 1)

\* Direction s -> Other(s) is closed on both sockets.
CloseFrom(s) == [interest EXCEPT ![s] = @ \ {OP_READ}, ![Other(s)] = @ \ {OP_WRITE}]

\* The tail of copy_read and copy_write called for side d: recompute both
\* registrations, end the connection when d has no interest left.  Leaving
\* for DONE unregisters and closes both sockets (socksv5_done).
Finish(d, counters) ==
    IF interest'[d] = {}
    THEN /\ state' = "DONE"
         /\ armed' = [s \in Side |-> {}]
         /\ metrics' = [counters EXCEPT !.concurrent = @ - 1]
    ELSE /\ state' = "COPY"
         /\ armed' = [s \in Side |-> copy_compute_interests(interest', rb', s)]
         /\ metrics' = counters

-----------------------------------------------------------------------------
(* The two peers and their kernels. *)

PeerSend(s) ==
    /\ state # "DONE" /\ peer[s] = "open" /\ sent[s] < MaxBytes
    /\ sent' = [sent EXCEPT ![s] = @ + 1]
    /\ UNCHANGED <<state, interest, armed, rb, recvd, early, out, peer, metrics>>

PeerEof(s) ==
    /\ state # "DONE" /\ peer[s] = "open"
    /\ peer' = [peer EXCEPT ![s] = "eof"]
    /\ UNCHANGED <<state, interest, armed, rb, recvd, early, out, sent, metrics>>

PeerReset(s) ==
    /\ state # "DONE" /\ peer[s] # "reset"
    /\ peer' = [peer EXCEPT ![s] = "reset"]
    /\ UNCHANGED <<state, interest, armed, rb, recvd, early, out, sent, metrics>>

\* recv() has n > 0 bytes to return for a call with room size.
RecvData(s, n, size) == n > 0 /\ n <= size /\ n <= sent[s] - recvd[s]
                        /\ (n = size \/ n = sent[s] - recvd[s])

\* recv() returns 0 or -1: the stream is exhausted or broken.
RecvEnd(s) == peer[s] = "reset" \/ (peer[s] = "eof" /\ recvd[s] = sent[s])

-----------------------------------------------------------------------------
\* request_write, the send that drains a successful reply: both sockets get
\* OP_READ and the jump to COPY runs copy_init on arrival, which overwrites
\* that with the computed interests.
copy_init ==
    /\ state = "REQUEST_WRITE"
    /\ state' = "COPY"
    /\ interest' = [s \in Side |-> {OP_READ, OP_WRITE}]
    /\ armed' = [s \in Side |-> copy_compute_interests(interest', rb, s)]
    /\ UNCHANGED <<rb, recvd, early, out, sent, peer, metrics>>

\* The branch of copy_read for n > 0 bytes.
copy_read_bytes(s, n) ==
    /\ RecvData(s, n, buffer_write_ptr(rb[s]))
    /\ rb' = [rb EXCEPT ![s] =
                buffer_write_adv(Fill(@, n, [i \in 1..n |-> recvd[s] + i]), n)]
    /\ recvd' = [recvd EXCEPT ![s] = @ + n]
    /\ UNCHANGED interest
    /\ Finish(s, [metrics EXCEPT
                    !.avg_read    = average(@, metrics.total_reads, n),
                    !.total_reads = @ + 1,
                    !.historic    = @ + n])

\* Mutation: end of stream forgets the other side's write direction.
Mut_copy_read_end_half(s) ==
    /\ RecvEnd(s)
    /\ interest' = [interest EXCEPT ![s] = @ \ {OP_READ}]
    /\ UNCHANGED <<rb, recvd>>
    /\ Finish(s, metrics)

\* The branch of copy_read for an error or end of stream.
copy_read_end(s) ==
    /\ RecvEnd(s)
    /\ interest' = CloseFrom(s)
    /\ UNCHANGED <<rb, recvd>>
    /\ Finish(s, metrics)

copy_read(s) ==
    /\ state = "COPY" /\ OP_READ \in armed[s]
    /\ \/ \E n \in 1..BufferSize : copy_read_bytes(s, n)
       \/ copy_read_end(s)
    /\ UNCHANGED <<early, out, sent, peer>>

\* send() takes any part of what is pending unless the peer has reset.
copy_write_bytes(s, n) ==
    /\ peer[s] # "reset" /\ n <= buffer_read_ptr(rb[Other(s)])
    /\ out' = [out EXCEPT ![s] = @ \o Outgoing(rb[Other(s)], n)]
    /\ rb' = [rb EXCEPT ![Other(s)] = buffer_read_adv(@, n)]
    /\ UNCHANGED interest
    /\ Finish(s, [metrics EXCEPT
                    !.avg_write    = average(@, metrics.total_writes, n),
                    !.total_writes = @ + 1,
                    !.historic     = @ + n])

\* send() returned -1.
copy_write_fail(s) ==
    /\ peer[s] = "reset"
    /\ interest' = CloseFrom(Other(s))
    /\ UNCHANGED <<rb, out>>
    /\ Finish(s, metrics)

copy_write(s) ==
    /\ state = "COPY" /\ OP_WRITE \in armed[s]
    /\ \/ \E n \in 1..BufferSize : copy_write_bytes(s, n)
       \/ copy_write_fail(s)
    /\ UNCHANGED <<recvd, early, sent, peer>>

-----------------------------------------------------------------------------
\* read_buffer when the reply has been sent: j handshake bytes were consumed
\* and k bytes the client sent early are still pending.  With k = 0 the last
\* read rewound the buffer.
Leftover(j, k) ==
    [data  |-> [i \in 0..(BufferSize-1) |-> IF i \in j..(j+k-1) THEN i - j + 1 ELSE 0],
     read  |-> j, write |-> j + k, limit |-> BufferSize]

Init ==
    /\ state = "REQUEST_WRITE"
    /\ interest = [s \in Side |-> {}]
    /\ armed = [s \in Side |-> IF s = "client" THEN {OP_WRITE} ELSE {}]
    /\ \E j, k \in 0..BufferSize :
          /\ j + k <= BufferSize /\ k <= MaxBytes /\ (k = 0 => j = 0)
          /\ rb = [s \in Side |-> IF s = "client" THEN Leftover(j, k)
                                  ELSE buffer_init(BufferSize, 0)]
          /\ recvd = [s \in Side |-> IF s = "client" THEN k ELSE 0]
          /\ early = k
    /\ sent = recvd
    /\ out = [s \in Side |-> << >>]
    /\ peer = [s \in Side |-> "open"]
    /\ metrics = [historic |-> 0, avg_read |-> 0, total_reads |-> 0,
                  avg_write |-> 0, total_writes |-> 0, concurrent |-> 1]

\* After DONE the connection's struct goes back to the pool; nothing runs.
Terminated == state = "DONE" /\ UNCHANGED vars

Next ==
    \/ copy_init
    \/ Terminated
    \/ \E s \in Side : \/ copy_read(s) \/ copy_write(s)
                       \/ PeerSend(s) \/ PeerEof(s) \/ PeerReset(s)

\* The main loop calls selector_select for ever and every pass serves every
\* armed socket the kernel reports ready, so a handler that stays enabled runs.
\* copy_write is enabled while there is something to send: the peers are
\* assumed to keep reading.  Nothing is assumed of what they send.
Fairness ==
    /\ WF_vars(copy_init)
    /\ \A s \in Side : WF_vars(copy_read(s)) /\ WF_vars(copy_write(s))

Spec == Init /\ [][Next]_vars /\ Fairness

-----------------------------------------------------------------------------
\* Every variable has its type; in particular both buffers keep their pointers
\* in order and inside the array (the assertions of buffer.c).
TypeOK ==
    /\ state \in {"REQUEST_WRITE", "COPY", "DONE"}
    /\ interest \in [Side -> Interests]
    /\ armed \in [Side -> Interests]
    /\ rb \in [Side -> Buffers(Nat, BufferSize)]
    /\ recvd \in [Side -> 0..MaxBytes]
    /\ early \in 0..MaxBytes
    /\ sent \in [Side -> 0..MaxBytes]
    /\ out \in [Side -> Seq(Nat)]
    /\ peer \in [Side -> {"open", "eof", "reset"}]
    /\ metrics \in [historic : Nat, avg_read : Nat, total_reads : Nat,
                    avg_write : Nat, total_writes : Nat, concurrent : Int]

\* A direction is open at its reading socket exactly when it is open at its
\* writing socket: copy_read and copy_write always close both ends.  DONE is
\* decided from one side's interest alone, which is sound only because of this.
DirectionsPaired ==
    \A s \in Side : OP_READ \in interest[s] <=> OP_WRITE \in interest[Other(s)]

\* No open direction is stuck: its source is registered for reading or its
\* sink for writing (a full buffer has bytes to send, an empty one has room).
\* The selector would otherwise never call the connection's handlers again.
NoStall ==
    state = "COPY" =>
        \A s \in Side : OP_READ \in interest[s] =>
            OP_READ \in armed[s] \/ OP_WRITE \in armed[Other(s)]

\* The bytes handed to one side followed by the ones still buffered for it
\* are exactly the bytes received from the other: nothing is reordered,
\* repeated or dropped by partial recv and send, by the shared pointers or by
\* compaction.
StreamIntact ==
    \A s \in Side :
        out[Other(s)] \o Contents(rb[s]) = [i \in 1..recvd[s] |-> i]

\* Bytes recv() has returned during COPY, bytes send() has taken.
ReadBytes    == recvd["client"] + recvd["origin"] - early
WrittenBytes == Len(out["client"]) + Len(out["origin"])

\* The historic counter is exactly what the two sides have read and written
\* between them, truncation never lets an average exceed the true mean, and
\* the connection counts as concurrent until it reaches DONE and is
\* discounted once, in whatever order the two sides end.
MetricsBounded ==
    /\ metrics.concurrent = IF state = "DONE" THEN 0 ELSE 1
    /\ metrics.historic = ReadBytes + WrittenBytes
    /\ metrics.avg_read * metrics.total_reads <= ReadBytes
    /\ metrics.avg_write * metrics.total_writes <= WrittenBytes

\* A side that the registrations serve is one whose handler has something to
\* do: recv is never called with no room (it would return 0 and be taken for
\* end of stream) and send never with nothing pending.
HandlersHaveWork ==
    \A s \in Side : state = "COPY" =>
        /\ OP_READ \in armed[s] => buffer_write_ptr(rb[s]) > 0
        /\ OP_WRITE \in armed[s] => buffer_read_ptr(rb[Other(s)]) > 0

\* The three together: what copy_compute_interests registers lets every open
\* direction go on and wakes no handler in vain.
InterestsSound == DirectionsPaired /\ NoStall /\ HandlersHaveWork

\* An end of stream or a reset on one side is passed on to the other, and
\* when both sides have ended the connection is torn down.
EndPropagates ==
    /\ \A s \in Side : peer[s] # "open" ~> (state # "REQUEST_WRITE" /\ OP_WRITE \notin interest[Other(s)])
    /\ (\A s \in Side : peer[s] # "open") ~> state = "DONE"

\* Every byte a peer sends reaches the other side unless the direction closes.
EventuallyDelivered ==
    \A s \in Side : \A k \in 1..MaxBytes :
        sent[s] >= k ~> \/ Len(out[Other(s)]) >= k
                        \/ state # "REQUEST_WRITE" /\ OP_READ \notin interest[s]

-----------------------------------------------------------------------------
\* copy.c says copy_read "lee bytes de un socket y los encola para ser escritos
\* en otro socket": a direction closed by a clean end of stream, with the
\* sink alive, has written everything it queued.
QueuedIsWritten ==
    \A s \in Side :
        (state # "REQUEST_WRITE" /\ OP_READ \notin interest[s]
           /\ peer[s] = "eof" /\ peer[Other(s)] = "open")
              => ~buffer_can_read(rb[s])

\* What COPY promises, with the buffers and the selector forgotten.
Abstract == INSTANCE Relay WITH
    Capacity  <- BufferSize,
    accepted  <- recvd,
    delivered <- [s \in Side |-> out[Other(s)]],
    open      <- IF state = "REQUEST_WRITE" THEN Side
                 ELSE {s \in Side : OP_READ \in interest[s]},
    over      <- state = "DONE"

\* COPY implements the abstract relay: bounded FIFO delivery in each direction,
\* an end that closes one direction, over when both are closed.
RelaySpec == Abstract!Spec

\* The part of it without fairness.
RelaySafety == Abstract!Safety
=============================================================================
