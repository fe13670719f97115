----------------------------- MODULE CopyProofs -----------------------------
(***************************************************************************)
(* The safety of COPY for buffers of any size and streams of any length.   *)
(* NoStall needs more than it says: that the registrations are the ones    *)
(* the current interests and buffers call for, and that a drained buffer   *)
(* is rewound; StreamIntact needs the contents of the cells.               *)
(***************************************************************************)
EXTENDS Copy, DataLemmas

Counters == [historic : Nat, avg_read : Nat, total_reads : Nat,
             avg_write : Nat, total_writes : Nat, concurrent : Int]

\* The types of everything but the buffers; nothing is received before it is sent.
Types ==
    /\ state \in {"REQUEST_WRITE", "COPY", "DONE"}
    /\ interest \in [Side -> Interests]
    /\ armed \in [Side -> Interests]
    /\ recvd \in [Side -> 0..MaxBytes]
    /\ early \in 0..MaxBytes
    /\ sent \in [Side -> 0..MaxBytes]
    /\ \A s \in Side : recvd[s] <= sent[s]
    /\ out \in [Side -> Seq(Nat)]
    /\ peer \in [Side -> {"open", "eof", "reset"}]
    /\ metrics \in Counters

\* Both buffers are well formed and rewound when drained.
BuffersOK ==
    /\ rb \in [Side -> Buffers(Nat, BufferSize)]
    /\ \A s \in Side : Rewound(rb[s])

\* The registrations are up to date.
ArmedCurrent ==
    state = "COPY" =>
        \A s \in Side : armed[s] = copy_compute_interests(interest, rb, s)

\* Position by position, what went out and what is pending.
Positions ==
    \A s \in Side :
        /\ Len(out[Other(s)]) + buffer_read_ptr(rb[s]) = recvd[s]
        /\ \A i \in 1..Len(out[Other(s)]) : out[Other(s)][i] = i
        /\ \A i \in 1..buffer_read_ptr(rb[s]) :
              Pending(rb[s], i) = Len(out[Other(s)]) + i

CInv == Types /\ BuffersOK /\ DirectionsPaired /\ ArmedCurrent /\ Positions

\* The length of a concatenation.
LEMMA ConcatLength ==
    ASSUME NEW S, NEW p \in Seq(S), NEW q \in Seq(S)
    PROVE  Len(p \o q) = Len(p) + Len(q)
OBVIOUS

-----------------------------------------------------------------------------
\* There are two sides and each is the other's other.
LEMMA OtherSide ==
    ASSUME NEW s \in Side
    PROVE  /\ Other(s) \in Side /\ Other(s) # s /\ Other(Other(s)) = s
           /\ \A t \in Side : t = s \/ t = Other(s)
BY DEF Side, Other

\* The running average of naturals is a natural.
LEMMA AverageNat ==
    ASSUME NEW a \in Nat, NEW t \in Nat, NEW n \in Nat
    PROVE  average(a, t, n) \in Nat
<1>1. a * t \in Nat
    OBVIOUS
<1> DEFINE x == a * t + n
<1>2. x \in Nat
    BY <1>1
<1>3. x \div (t + 1) \in Nat
    <2> HIDE DEF x
    <2> QED BY <1>2
<1> QED BY <1>3 DEF average

\* Registrations are interests.
LEMMA ComputeType ==
    ASSUME NEW itr \in [Side -> Interests], NEW bf, NEW s \in Side
    PROVE  copy_compute_interests(itr, bf, s) \in Interests
BY DEF copy_compute_interests, Interests

\* The tail shared by copy_read and copy_write leaves a legal stage, current
\* registrations and counters.
LEMMA FinishOK ==
    ASSUME NEW d \in Side, NEW counters \in Counters, Finish(d, counters),
           interest' \in [Side -> Interests]
    PROVE  /\ state' \in {"COPY", "DONE"}
           /\ armed' \in [Side -> Interests]
           /\ metrics' \in Counters
           /\ ArmedCurrent'
<1>1. CASE interest'[d] = {}
    BY <1>1 DEF Finish, Counters, ArmedCurrent, Interests
<1>2. CASE interest'[d] # {}
    <2>1. /\ state' = "COPY" /\ metrics' = counters
          /\ armed' = [s \in Side |-> copy_compute_interests(interest', rb', s)]
        BY <1>2 DEF Finish
    <2>2. \A s \in Side : copy_compute_interests(interest', rb', s) \in Interests
        BY ComputeType
    <2> QED BY <2>1, <2>2 DEF ArmedCurrent
<1> QED BY <1>1, <1>2

\* Closing a direction closes it at both ends.
LEMMA CloseFromPaired ==
    ASSUME NEW s \in Side, interest \in [Side -> Interests], DirectionsPaired,
           interest' = CloseFrom(s)
    PROVE  interest' \in [Side -> Interests] /\ DirectionsPaired'
<1>1. interest' \in [Side -> Interests]
    BY OtherSide DEF CloseFrom, Interests
<1>2. CASE s = "client"
    BY <1>2 DEF CloseFrom, Interests, DirectionsPaired, Side, Other, OP_READ, OP_WRITE
<1>3. CASE s = "origin"
    BY <1>3 DEF CloseFrom, Interests, DirectionsPaired, Side, Other, OP_READ, OP_WRITE
<1> QED BY <1>1, <1>2, <1>3 DEF Side

-----------------------------------------------------------------------------
\* The stage starts with empty output and whatever the client sent early.
LEMMA InitCInv == Init => CInv
<1> SUFFICES ASSUME Init PROVE CInv
    OBVIOUS
<1>1. PICK j, k \in 0..BufferSize :
          /\ j + k <= BufferSize /\ k <= MaxBytes /\ (k = 0 => j = 0)
          /\ rb = [s \in Side |-> IF s = "client" THEN Leftover(j, k)
                                  ELSE buffer_init(BufferSize, 0)]
          /\ recvd = [s \in Side |-> IF s = "client" THEN k ELSE 0]
          /\ early = k
    BY DEF Init
<1>2. /\ BufferSize \in Nat /\ BufferSize > 0 /\ MaxBytes \in Nat
      /\ j \in Nat /\ k \in Nat
    BY BufferSizeAssumption, MaxBytesAssumption
<1>3. /\ buffer_init(BufferSize, 0) \in Buffers(Nat, BufferSize)
      /\ buffer_read_ptr(buffer_init(BufferSize, 0)) = 0
      /\ Rewound(buffer_init(BufferSize, 0))
    BY <1>2, InitBuffer
<1> DEFINE l == Leftover(j, k)
           d == [i \in 0..(BufferSize-1) |-> IF i \in j..(j+k-1) THEN i - j + 1 ELSE 0]
<1>4. l = [data |-> d, read |-> j, write |-> j + k, limit |-> BufferSize]
    BY DEF Leftover
<1>5. d \in [0..(BufferSize-1) -> Nat]
    BY <1>2
<1>6. l \in Buffers(Nat, BufferSize)
    <2>1. j + k \in Nat /\ j <= j + k
        BY <1>2
    <2> HIDE DEF l, d
    <2> QED BY <1>1, <1>2, <1>4, <1>5, <2>1, BufferIntro
<1>7. l.read = j /\ l.write = j + k /\ l.data = d
    <2> HIDE DEF l, d
    <2> QED BY <1>4
<1>8. buffer_read_ptr(l) = k /\ Rewound(l)
    <2> HIDE DEF l, d
    <2> QED BY <1>1, <1>2, <1>7 DEF buffer_read_ptr, Rewound
<1>9. ASSUME NEW i \in 1..k PROVE Pending(l, i) = i
    <2>1. j + i - 1 \in 0..(BufferSize-1) /\ j + i - 1 \in j..(j+k-1) /\ (j + i - 1) - j + 1 = i
        BY <1>1, <1>2
    <2>2. d[j + i - 1] = i
        BY <2>1
    <2> HIDE DEF l, d
    <2> QED BY <1>7, <2>2 DEF Pending
<1>10. rb["client"] = l /\ rb["origin"] = buffer_init(BufferSize, 0)
    BY <1>1 DEF Side
<1> HIDE DEF l, d
<1>11. BuffersOK
    <2>1. rb \in [Side -> Buffers(Nat, BufferSize)]
        BY <1>1, <1>3, <1>6 DEF l, Side
    <2> QED BY <1>3, <1>8, <1>10, <2>1 DEF BuffersOK, Side
<1>12. Types
    BY <1>1, <1>2 DEF Init, Types, Side, Interests, Counters
<1>13. Positions
    <2>1. out["client"] = << >> /\ out["origin"] = << >> /\ recvd["client"] = k /\ recvd["origin"] = 0
        BY <1>1 DEF Init, Side
    <2>2. Other("client") = "origin" /\ Other("origin") = "client"
        BY DEF Other
    <2> QED BY <1>2, <1>3, <1>8, <1>9, <1>10, <2>1, <2>2 DEF Positions, Side
<1>14. DirectionsPaired /\ ArmedCurrent
    BY OtherSide DEF Init, DirectionsPaired, ArmedCurrent
<1> QED BY <1>11, <1>12, <1>13, <1>14 DEF CInv

-----------------------------------------------------------------------------
\* What CInv says of one side, in the form the steps below use.
LEMMA SideFacts ==
    ASSUME CInv, NEW s \in Side
    PROVE  /\ BufferSize \in Nat /\ BufferSize > 0 /\ MaxBytes \in Nat
           /\ rb[s] \in Buffers(Nat, BufferSize) /\ Rewound(rb[s])
           /\ buffer_read_ptr(rb[s]) \in Nat
           /\ recvd[s] \in Nat /\ recvd[s] <= sent[s] /\ sent[s] <= MaxBytes /\ sent[s] \in Nat
           /\ out[s] \in Seq(Nat) /\ Len(out[s]) \in Nat
           /\ Len(out[Other(s)]) + buffer_read_ptr(rb[s]) = recvd[s]
           /\ \A i \in 1..Len(out[Other(s)]) : out[Other(s)][i] = i
           /\ \A i \in 1..buffer_read_ptr(rb[s]) :
                 Pending(rb[s], i) = Len(out[Other(s)]) + i
<1>1. /\ BufferSize \in Nat /\ BufferSize > 0 /\ MaxBytes \in Nat
      /\ rb[s] \in Buffers(Nat, BufferSize) /\ Rewound(rb[s])
    BY BufferSizeAssumption, MaxBytesAssumption DEF CInv, BuffersOK
<1>2. buffer_read_ptr(rb[s]) \in Nat
    BY <1>1, BufferCounts
<1>3. /\ recvd[s] \in Nat /\ recvd[s] <= sent[s] /\ sent[s] <= MaxBytes /\ sent[s] \in Nat
      /\ out[s] \in Seq(Nat) /\ Len(out[s]) \in Nat
    BY <1>1 DEF CInv, Types
<1> QED BY <1>1, <1>2, <1>3 DEF CInv, Positions

\* copy_read with bytes: they are appended behind the pending ones.
LEMMA ReadBytesCInv ==
    ASSUME CInv, NEW s \in Side, NEW n \in 1..BufferSize,
           copy_read_bytes(s, n), UNCHANGED <<early, out, sent, peer>>
    PROVE  CInv'
<1> DEFINE m == buffer_read_ptr(rb[s])
           msg == [i \in 1..n |-> recvd[s] + i]
           t == Other(s)
<1>1. /\ BufferSize \in Nat /\ BufferSize > 0 /\ MaxBytes \in Nat
      /\ rb[s] \in Buffers(Nat, BufferSize) /\ m \in Nat
      /\ recvd[s] \in Nat /\ recvd[s] <= sent[s] /\ sent[s] <= MaxBytes /\ sent[s] \in Nat
      /\ Len(out[t]) + m = recvd[s]
      /\ \A i \in 1..m : Pending(rb[s], i) = Len(out[t]) + i
    BY SideFacts
<1>2. t \in Side /\ t # s /\ Other(t) = s /\ \A x \in Side : x = s \/ x = t
    BY OtherSide
<1>3. n \in Nat /\ 0 < n /\ n <= buffer_write_ptr(rb[s]) /\ n <= sent[s] - recvd[s]
    BY <1>1 DEF copy_read_bytes, RecvData
<1>4. /\ rb' = [rb EXCEPT ![s] = buffer_write_adv(Fill(rb[s], n, msg), n)]
      /\ recvd' = [recvd EXCEPT ![s] = recvd[s] + n]
      /\ interest' = interest
    BY DEF copy_read_bytes
<1>5. rb'[s] = buffer_write_adv(Fill(rb[s], n, msg), n) /\ rb'[t] = rb[t]
    BY <1>2, <1>4 DEF CInv, BuffersOK
<1>6. msg \in [1..n -> Nat] /\ \A i \in 1..n : msg[i] = recvd[s] + i
    BY <1>1, <1>3
<1> HIDE DEF msg
<1>7. /\ rb'[s] \in Buffers(Nat, BufferSize) /\ Rewound(rb'[s])
      /\ buffer_read_ptr(rb'[s]) = m + n
      /\ \A i \in 1..m : Pending(rb'[s], i) = Pending(rb[s], i)
      /\ \A i \in 1..n : Pending(rb'[s], m + i) = msg[i]
    <2>1. /\ BufferSize \in Nat /\ rb[s] \in Buffers(Nat, BufferSize)
          /\ n \in Nat /\ 0 < n /\ n <= buffer_write_ptr(rb[s])
          /\ msg \in [1..n -> Nat]
          /\ rb'[s] = buffer_write_adv(Fill(rb[s], n, msg), n)
        BY <1>1, <1>3, <1>5, <1>6
    <2> QED BY ONLY <2>1, RecvAppends
<1>8. BuffersOK'
    <2>1. rb' \in [Side -> Buffers(Nat, BufferSize)]
        BY <1>4, <1>5, <1>7 DEF CInv, BuffersOK
    <2> QED BY <1>2, <1>5, <1>7, <2>1 DEF CInv, BuffersOK
<1>9. recvd' \in [Side -> 0..MaxBytes] /\ recvd'[s] = recvd[s] + n /\ recvd'[t] = recvd[t]
      /\ \A x \in Side : recvd'[x] <= sent[x]
    BY <1>1, <1>2, <1>3, <1>4 DEF CInv, Types
<1>10. interest' \in [Side -> Interests]
    BY <1>4 DEF CInv, Types
<1>11. [metrics EXCEPT !.avg_read    = average(@, metrics.total_reads, n),
                       !.total_reads = @ + 1,
                       !.historic    = @ + n] \in Counters
    <2>1. metrics \in Counters
        BY DEF CInv, Types
    <2> DEFINE a == average(metrics.avg_read, metrics.total_reads, n)
    <2>2. a \in Nat
        BY <1>3, <2>1, AverageNat DEF Counters
    <2>3. metrics.total_reads + 1 \in Nat /\ metrics.historic + n \in Nat
        BY <1>3, <2>1 DEF Counters
    <2> HIDE DEF a
    <2>4. [metrics EXCEPT !.avg_read = a, !.total_reads = @ + 1, !.historic = @ + n] \in Counters
        BY <2>1, <2>2, <2>3 DEF Counters
    <2> QED BY <2>4 DEF a
<1>12. /\ state' \in {"COPY", "DONE"} /\ armed' \in [Side -> Interests]
       /\ metrics' \in Counters /\ ArmedCurrent'
    BY <1>10, <1>11, FinishOK DEF copy_read_bytes
<1>13. Types'
    BY <1>9, <1>10, <1>12 DEF CInv, Types
<1>14. DirectionsPaired'
    BY <1>4 DEF CInv, DirectionsPaired
<1>15. Positions'
    <2>1. ASSUME NEW i \in 1..(m + n) PROVE Pending(rb'[s], i) = Len(out[t]) + i
        <3> HIDE DEF m, t
        <3>1. CASE i <= m
            <4>1. i \in 1..m
                BY <1>1, <1>3, <3>1
            <4> QED BY <1>1, <1>7, <4>1
        <3>2. CASE i > m
            <4>1. i - m \in 1..n /\ m + (i - m) = i
                BY <1>1, <1>3, <3>2
            <4>2. Pending(rb'[s], m + (i - m)) = recvd[s] + (i - m)
                BY <1>6, <1>7, <4>1
            <4> QED BY <1>1, <4>1, <4>2, SideFacts, OtherSide DEF t
        <3> QED BY <1>1, <1>3, <3>1, <3>2
    <2>2. Len(out[t]) + (m + n) = recvd'[s]
        BY <1>1, <1>3, <1>9, <1>2, SideFacts
    <2> HIDE DEF m, t
    <2>3. out' = out
        OBVIOUS
    <2>4. /\ Len(out'[Other(s)]) + buffer_read_ptr(rb'[s]) = recvd'[s]
          /\ \A i \in 1..Len(out'[Other(s)]) : out'[Other(s)][i] = i
          /\ \A i \in 1..buffer_read_ptr(rb'[s]) :
                Pending(rb'[s], i) = Len(out'[Other(s)]) + i
        BY <1>7, <2>1, <2>2, <2>3, SideFacts DEF t
    <2>5. /\ Len(out'[Other(t)]) + buffer_read_ptr(rb'[t]) = recvd'[t]
          /\ \A i \in 1..Len(out'[Other(t)]) : out'[Other(t)][i] = i
          /\ \A i \in 1..buffer_read_ptr(rb'[t]) :
                Pending(rb'[t], i) = Len(out'[Other(t)]) + i
        BY <1>2, <1>5, <1>9, <2>3 DEF CInv, Positions
    <2> QED BY <1>2, <2>4, <2>5 DEF Positions
<1> QED BY <1>8, <1>12, <1>13, <1>14, <1>15 DEF CInv

\* copy_write with bytes: the oldest pending ones move to the output.
LEMMA WriteBytesCInv ==
    ASSUME CInv, NEW s \in Side, NEW n \in 1..BufferSize,
           copy_write_bytes(s, n), UNCHANGED <<recvd, early, sent, peer>>
    PROVE  CInv'
<1> DEFINE t == Other(s)
           m == buffer_read_ptr(rb[t])
<1>1. t \in Side /\ t # s /\ Other(t) = s /\ Other(s) = t /\ \A x \in Side : x = s \/ x = t
    BY OtherSide
<1> HIDE DEF t
<1>2. /\ BufferSize \in Nat /\ BufferSize > 0
      /\ rb[t] \in Buffers(Nat, BufferSize) /\ m \in Nat
      /\ recvd[t] \in Nat
      /\ out[s] \in Seq(Nat) /\ Len(out[s]) \in Nat
      /\ Len(out[s]) + m = recvd[t]
      /\ \A i \in 1..Len(out[s]) : out[s][i] = i
      /\ \A i \in 1..m : Pending(rb[t], i) = Len(out[s]) + i
    BY <1>1, SideFacts
<1>3. n \in Nat /\ 0 < n /\ n <= m
    BY <1>1, <1>2 DEF copy_write_bytes
<1>4. /\ out' = [out EXCEPT ![s] = out[s] \o Outgoing(rb[t], n)]
      /\ rb' = [rb EXCEPT ![t] = buffer_read_adv(rb[t], n)]
      /\ interest' = interest
    BY <1>1 DEF copy_write_bytes
<1>5. rb'[t] = buffer_read_adv(rb[t], n) /\ rb'[s] = rb[s]
    BY <1>1, <1>4 DEF CInv, BuffersOK
<1>6. /\ rb'[t] \in Buffers(Nat, BufferSize) /\ Rewound(rb'[t])
      /\ buffer_read_ptr(rb'[t]) = m - n
      /\ \A i \in 1..(m - n) : Pending(rb'[t], i) = Pending(rb[t], n + i)
    BY <1>2, <1>3, <1>5, ReadAdvDrops
<1> HIDE DEF m
<1>7. BuffersOK'
    <2>1. rb' \in [Side -> Buffers(Nat, BufferSize)]
        BY <1>4, <1>5, <1>6 DEF CInv, BuffersOK
    <2> QED BY <1>1, <1>5, <1>6, <2>1 DEF CInv, BuffersOK
<1> DEFINE f == Outgoing(rb[t], n)
<1>8. f \in Seq(Nat) /\ Len(f) = n /\ \A i \in 1..n : f[i] = Len(out[s]) + i
    <2>1. \A i \in 1..n : Pending(rb[t], i) = Len(out[s]) + i
        BY <1>2, <1>3
    <2>2. \A i \in 1..n : Pending(rb[t], i) \in Nat
        BY <1>2, <1>3, <2>1
    <2> QED BY <1>3, <2>1, <2>2 DEF Outgoing
<1>9. out'[s] = out[s] \o f /\ out'[t] = out[t] /\ out' \in [Side -> Seq(Nat)]
    <2>1. out \in [Side -> Seq(Nat)]
        BY DEF CInv, Types
    <2>2. out[s] \o f \in Seq(Nat)
        BY <1>2, <1>8
    <2> HIDE DEF f
    <2> QED BY <1>1, <1>4, <2>1, <2>2 DEF f
<1> HIDE DEF f
<1>10. Len(out'[s]) = Len(out[s]) + n /\ \A i \in 1..(Len(out[s]) + n) : out'[s][i] = i
    <2>1. ASSUME NEW i \in 1..(Len(out[s]) + n) PROVE out'[s][i] = i
        <3>1. CASE i <= Len(out[s])
            BY <1>2, <1>3, <1>8, <1>9, <3>1
        <3>2. CASE i > Len(out[s])
            <4>1. i - Len(out[s]) \in 1..n
                BY <1>2, <1>3, <3>2
            <4>2. out'[s][i] = f[i - Len(out[s])]
                BY <1>2, <1>3, <1>8, <1>9, <3>2
            <4> QED BY <1>2, <1>8, <4>1, <4>2
        <3> QED BY <1>2, <1>3, <3>1, <3>2
    <2>2. Len(out'[s]) = Len(out[s]) + n
        <3>1. out[s] \in Seq(Nat) /\ f \in Seq(Nat) /\ Len(f) = n
            BY <1>2, <1>8
        <3>2. out'[s] = out[s] \o f
            BY <1>9
        <3>3. Len(out[s] \o f) = Len(out[s]) + Len(f)
            BY <3>1, ConcatLength, Zenon
        <3> QED BY <3>1, <3>2, <3>3, Zenon
    <2> QED BY <2>1, <2>2
<1>11. interest' \in [Side -> Interests]
    BY <1>4 DEF CInv, Types
<1>12. [metrics EXCEPT !.avg_write    = average(@, metrics.total_writes, n),
                       !.total_writes = @ + 1,
                       !.historic     = @ + n] \in Counters
    <2>1. metrics \in Counters
        BY DEF CInv, Types
    <2> DEFINE a == average(metrics.avg_write, metrics.total_writes, n)
    <2>2. a \in Nat
        BY <1>3, <2>1, AverageNat DEF Counters
    <2>3. metrics.total_writes + 1 \in Nat /\ metrics.historic + n \in Nat
        BY <1>3, <2>1 DEF Counters
    <2> HIDE DEF a
    <2>4. [metrics EXCEPT !.avg_write = a, !.total_writes = @ + 1, !.historic = @ + n] \in Counters
        BY <2>1, <2>2, <2>3 DEF Counters
    <2> QED BY <2>4 DEF a
<1>13. /\ state' \in {"COPY", "DONE"} /\ armed' \in [Side -> Interests]
       /\ metrics' \in Counters /\ ArmedCurrent'
    BY <1>11, <1>12, FinishOK DEF copy_write_bytes
<1>14. Types'
    BY <1>9, <1>11, <1>13 DEF CInv, Types
<1>15. DirectionsPaired'
    BY <1>4 DEF CInv, DirectionsPaired
<1>16. Positions'
    <2>1. /\ Len(out'[s]) + buffer_read_ptr(rb'[t]) = recvd'[t]
          /\ \A i \in 1..Len(out'[s]) : out'[s][i] = i
        BY <1>2, <1>3, <1>6, <1>10
    <2>2. ASSUME NEW i \in 1..(m - n) PROVE Pending(rb'[t], i) = Len(out'[s]) + i
        <3>1. n + i \in 1..m
            BY <1>2, <1>3
        <3>2. Pending(rb'[t], i) = Len(out[s]) + (n + i)
            BY <1>2, <1>6, <3>1
        <3> QED BY <1>2, <1>3, <1>10, <3>2
    <2>3. /\ Len(out'[Other(s)]) + buffer_read_ptr(rb'[s]) = recvd'[s]
          /\ \A i \in 1..Len(out'[Other(s)]) : out'[Other(s)][i] = i
          /\ \A i \in 1..buffer_read_ptr(rb'[s]) :
                Pending(rb'[s], i) = Len(out'[Other(s)]) + i
        <3>1. out'[Other(s)] = out[Other(s)] /\ rb'[s] = rb[s] /\ recvd'[s] = recvd[s]
            BY <1>1, <1>5, <1>9
        <3> QED BY <3>1, SideFacts
    <2> QED BY <1>1, <1>6, <2>1, <2>2, <2>3 DEF Positions
<1> QED BY <1>7, <1>13, <1>14, <1>15, <1>16 DEF CInv

\* The end of a direction, seen by copy_read or by copy_write.
LEMMA CloseCInv ==
    ASSUME CInv, NEW s \in Side, NEW d \in Side, interest' = CloseFrom(s),
           Finish(d, metrics), UNCHANGED <<rb, recvd, early, out, sent, peer>>
    PROVE  CInv'
<1>1. interest' \in [Side -> Interests] /\ DirectionsPaired'
    BY CloseFromPaired DEF CInv, Types
<1>2. /\ state' \in {"COPY", "DONE"} /\ armed' \in [Side -> Interests]
      /\ metrics' \in Counters /\ ArmedCurrent'
    BY <1>1, FinishOK DEF CInv, Types
<1>3. Types'
    BY <1>1, <1>2 DEF CInv, Types
<1>4. BuffersOK' /\ Positions'
    BY DEF CInv, BuffersOK, Positions
<1> QED BY <1>1, <1>2, <1>3, <1>4 DEF CInv

\* Every step preserves CInv.
LEMMA NextCInv == CInv /\ [Next]_vars => CInv'
<1> SUFFICES ASSUME CInv, [Next]_vars PROVE CInv'
    OBVIOUS
<1>1. ASSUME copy_init PROVE CInv'
    <2>1. /\ state' = "COPY" /\ UNCHANGED <<rb, recvd, early, out, sent, peer, metrics>>
          /\ interest' = [s \in Side |-> {OP_READ, OP_WRITE}]
          /\ armed' = [s \in Side |-> copy_compute_interests(interest', rb, s)]
        BY <1>1 DEF copy_init
    <2>2. interest' \in [Side -> Interests]
        BY <2>1 DEF Interests
    <2>3. armed' \in [Side -> Interests]
        BY <2>1, <2>2, ComputeType
    <2>4. DirectionsPaired'
        BY <2>1, OtherSide DEF DirectionsPaired
    <2>5. ArmedCurrent'
        BY <2>1 DEF ArmedCurrent
    <2>6. Types'
        BY <2>1, <2>2, <2>3 DEF CInv, Types
    <2>7. BuffersOK' /\ Positions'
        BY <2>1 DEF CInv, BuffersOK, Positions
    <2> QED BY <2>4, <2>5, <2>6, <2>7 DEF CInv
<1>2. ASSUME NEW s \in Side, copy_read(s) PROVE CInv'
    BY <1>2, ReadBytesCInv, CloseCInv DEF copy_read, copy_read_end
<1>3. ASSUME NEW s \in Side, copy_write(s) PROVE CInv'
    <2>1. Other(s) \in Side
        BY OtherSide
    <2> QED BY <1>3, <2>1, WriteBytesCInv, CloseCInv DEF copy_write, copy_write_fail
<1>4. ASSUME NEW s \in Side, PeerSend(s) PROVE CInv'
    <2>1. Types'
        BY <1>4, MaxBytesAssumption DEF PeerSend, CInv, Types
    <2> QED BY <1>4, <2>1
            DEF PeerSend, CInv, BuffersOK, DirectionsPaired, ArmedCurrent, Positions
<1>5. ASSUME NEW s \in Side, PeerEof(s) \/ PeerReset(s) PROVE CInv'
    <2>1. Types'
        BY <1>5 DEF PeerEof, PeerReset, CInv, Types
    <2> QED BY <1>5, <2>1
            DEF PeerEof, PeerReset, CInv, BuffersOK, DirectionsPaired, ArmedCurrent, Positions
<1>6. ASSUME UNCHANGED vars PROVE CInv'
    BY <1>6 DEF vars, CInv, Types, BuffersOK, DirectionsPaired, ArmedCurrent, Positions
<1> QED BY <1>1, <1>2, <1>3, <1>4, <1>5, <1>6 DEF Next, Terminated

\* What the invariant gives: types, no stall, handlers with work, the stream.
LEMMA CInvImplies ==
    CInv => TypeOK /\ DirectionsPaired /\ NoStall /\ HandlersHaveWork /\ StreamIntact
<1> SUFFICES ASSUME CInv
             PROVE TypeOK /\ DirectionsPaired /\ NoStall /\ HandlersHaveWork /\ StreamIntact
    OBVIOUS
<1>1. TypeOK
    BY DEF CInv, Types, BuffersOK, TypeOK, Counters
<1>2. NoStall
    <2> SUFFICES ASSUME state = "COPY", NEW s \in Side, OP_READ \in interest[s]
                 PROVE  OP_READ \in armed[s] \/ OP_WRITE \in armed[Other(s)]
        BY DEF NoStall
    <2>1. Other(s) \in Side /\ Other(Other(s)) = s /\ OP_WRITE \in interest[Other(s)]
        BY OtherSide DEF CInv, DirectionsPaired
    <2>2. buffer_can_read(rb[s]) \/ buffer_can_write(rb[s])
        BY RewoundHasRoom, BufferSizeAssumption DEF CInv, BuffersOK
    <2>3. armed[s] = copy_compute_interests(interest, rb, s)
          /\ armed[Other(s)] = copy_compute_interests(interest, rb, Other(s))
        BY <2>1 DEF CInv, ArmedCurrent
    <2> QED BY <2>1, <2>2, <2>3 DEF copy_compute_interests
<1>3. HandlersHaveWork
    <2> SUFFICES ASSUME NEW s \in Side, state = "COPY"
                 PROVE  /\ OP_READ \in armed[s] => buffer_write_ptr(rb[s]) > 0
                        /\ OP_WRITE \in armed[s] => buffer_read_ptr(rb[Other(s)]) > 0
        BY DEF HandlersHaveWork
    <2>1. armed[s] = copy_compute_interests(interest, rb, s)
        BY DEF CInv, ArmedCurrent
    <2> QED BY <2>1
            DEF copy_compute_interests, buffer_can_read, buffer_can_write,
                buffer_write_ptr, buffer_read_ptr, OP_READ, OP_WRITE
<1>4. StreamIntact
    <2> SUFFICES ASSUME NEW s \in Side
                 PROVE out[Other(s)] \o Contents(rb[s]) = [i \in 1..recvd[s] |-> i]
        BY DEF StreamIntact
    <2> DEFINE o == out[Other(s)]
               m == buffer_read_ptr(rb[s])
               c == Contents(rb[s])
    <2>1. /\ m \in Nat /\ Len(o) + m = recvd[s] /\ recvd[s] \in Nat
          /\ \A i \in 1..Len(o) : o[i] = i
          /\ \A i \in 1..m : Pending(rb[s], i) = Len(o) + i
        BY SideFacts
    <2>2. o \in Seq(Nat) /\ Len(o) \in Nat
        BY SideFacts, OtherSide
    <2> HIDE DEF o, m
    <2>3. c = [i \in 1..m |-> Len(o) + i]
        BY <2>1 DEF Contents, m
    <2> HIDE DEF c
    <2>4. c \in Seq(Nat) /\ Len(c) = m /\ \A i \in 1..m : c[i] = Len(o) + i
        BY <2>1, <2>2, <2>3
    <2>5. o \o c \in Seq(Nat) /\ Len(o \o c) = recvd[s]
        BY <2>1, <2>2, <2>4
    <2>6. ASSUME NEW i \in 1..recvd[s] PROVE (o \o c)[i] = i
        <3>1. CASE i <= Len(o)
            BY <2>1, <2>2, <2>4, <3>1
        <3>2. CASE ~(i <= Len(o))
            <4>1. i - Len(o) \in 1..m
                BY <2>1, <2>2, <3>2
            <4>2. (o \o c)[i] = c[i - Len(o)]
                BY <2>1, <2>2, <2>4, <3>2
            <4> QED BY <2>2, <2>4, <4>1, <4>2
        <3> QED BY <3>1, <3>2
    <2> DEFINE z == o \o c
    <2>7. z \in Seq(Nat) /\ Len(z) = recvd[s] /\ \A i \in 1..recvd[s] : z[i] = i
        BY <2>5, <2>6
    <2> HIDE DEF z
    <2>8. z = [i \in 1..recvd[s] |-> i]
        BY <2>1, <2>7
    <2> QED BY <2>8 DEF z, o, c
<1> QED BY <1>1, <1>2, <1>3, <1>4 DEF CInv

-----------------------------------------------------------------------------
\* CInv holds always.
LEMMA CInvAlways == Spec => []CInv
BY InitCInv, NextCInv, PTL DEF Spec

\* For buffers of any size: values stay in range, pointers in order.
THEOREM CopyTypeOK == Spec => []TypeOK
BY CInvAlways, CInvImplies, PTL

\* For buffers of any size: no open direction of COPY ever waits for ever with
\* neither socket registered, both ends of a direction close together, and
\* no handler is called with nothing to do.
THEOREM CopyNoStall == Spec => []InterestsSound
<1>1. CInv => InterestsSound
    BY CInvImplies DEF InterestsSound
<1> QED BY <1>1, CInvAlways, PTL

\* For buffers of any size and streams of any length: what one side receives is
\* what the other sent, in order, without gaps or repetitions.
THEOREM CopyStreamIntact == Spec => []StreamIntact
BY CInvAlways, CInvImplies, PTL

-----------------------------------------------------------------------------
(* The metrics.  MetricsBounded is inductive together with CInv. *)

\* The division of average truncates: the new average times the new count does
\* not exceed the old product and the new bytes.
LEMMA AverageBound ==
    ASSUME NEW a \in Nat, NEW t \in Nat, NEW n \in Nat
    PROVE  average(a, t, n) * (t + 1) <= a * t + n
<1>1. CASE t = 0
    BY <1>1 DEF average
<1>2. CASE t # 0
    <2> DEFINE x == a * t + n
               y == t + 1
    <2>1. x \in Nat /\ y \in Nat /\ y > 0
        OBVIOUS
    <2>2. average(a, t, n) = x \div y
        BY <1>2 DEF average
    <2> HIDE DEF x, y
    <2>3. (x \div y) * y <= x
        BY <2>1
    <2> QED BY <2>2, <2>3 DEF x, y
<1> QED BY <1>1, <1>2

\* A sum over the two sides grows with either.
LEMMA TwoSides ==
    ASSUME NEW f, NEW g, NEW s \in Side, NEW n \in Nat,
           \A x \in Side : f[x] \in Nat,
           g[s] = f[s] + n, g[Other(s)] = f[Other(s)]
    PROVE  g["client"] + g["origin"] = f["client"] + f["origin"] + n
<1>1. CASE s = "client"
    BY <1>1 DEF Side, Other
<1>2. CASE s = "origin"
    BY <1>2 DEF Side, Other
<1> QED BY <1>1, <1>2 DEF Side

\* The tail discounts the connection when, and only when, it ends it.
LEMMA FinishCounts ==
    ASSUME NEW d, NEW counters \in Counters, Finish(d, counters), counters.concurrent = 1
    PROVE  /\ metrics'.concurrent = IF state' = "DONE" THEN 0 ELSE 1
           /\ metrics'.historic = counters.historic
           /\ metrics'.avg_read = counters.avg_read /\ metrics'.total_reads = counters.total_reads
           /\ metrics'.avg_write = counters.avg_write
           /\ metrics'.total_writes = counters.total_writes
<1>1. CASE interest'[d] = {}
    BY <1>1 DEF Finish, Counters
<1>2. CASE interest'[d] # {}
    BY <1>2 DEF Finish
<1> QED BY <1>1, <1>2

\* Steps of copy.c that move no bytes leave the counters of bytes alone.
LEMMA SameMetrics ==
    ASSUME CInv, MetricsBounded, UNCHANGED <<recvd, early, out>>,
           \/ metrics' = metrics /\ (state' = "DONE" <=> state = "DONE")
           \/ \E d : Finish(d, metrics) /\ state = "COPY"
    PROVE  MetricsBounded'
<1>1. UNCHANGED <<ReadBytes, WrittenBytes>>
    BY DEF ReadBytes, WrittenBytes
<1>2. CASE metrics' = metrics /\ (state' = "DONE" <=> state = "DONE")
    BY <1>1, <1>2 DEF MetricsBounded
<1>3. ASSUME NEW d, Finish(d, metrics), state = "COPY" PROVE MetricsBounded'
    <2>1. metrics \in Counters /\ metrics.concurrent = 1
        BY <1>3 DEF CInv, Types, MetricsBounded
    <2> QED BY <1>1, <1>3, <2>1, FinishCounts DEF MetricsBounded
<1> QED BY <1>2, <1>3

\* copy_read counts its bytes once.
LEMMA ReadMetrics ==
    ASSUME CInv, MetricsBounded, state = "COPY", NEW s \in Side, NEW n \in 1..BufferSize,
           copy_read_bytes(s, n), UNCHANGED <<early, out>>
    PROVE  MetricsBounded'
<1> DEFINE a == average(metrics.avg_read, metrics.total_reads, n)
           c == [metrics EXCEPT !.avg_read = a, !.total_reads = @ + 1, !.historic = @ + n]
<1>1. /\ metrics \in Counters /\ n \in Nat /\ metrics.concurrent = 1
      /\ \A x \in Side : recvd[x] \in Nat
      /\ early \in Nat
    BY BufferSizeAssumption, MaxBytesAssumption DEF CInv, Types, MetricsBounded
<1>2. /\ metrics.avg_read \in Nat /\ metrics.total_reads \in Nat /\ metrics.historic \in Nat
    BY <1>1 DEF Counters
<1>3. a \in Nat /\ a * (metrics.total_reads + 1) <= metrics.avg_read * metrics.total_reads + n
    BY <1>1, <1>2, AverageNat, AverageBound
<1>4. Finish(s, c)
    BY DEF copy_read_bytes
<1> HIDE DEF a
<1>5. /\ c \in Counters /\ c.concurrent = 1 /\ c.historic = metrics.historic + n
      /\ c.avg_read = a /\ c.total_reads = metrics.total_reads + 1
      /\ c.avg_write = metrics.avg_write /\ c.total_writes = metrics.total_writes
    <2>1. a \in Nat /\ metrics.total_reads + 1 \in Nat /\ metrics.historic + n \in Nat
        BY <1>1, <1>2, <1>3
    <2>2. c \in Counters
        BY <1>1, <2>1 DEF Counters
    <2> QED BY <1>1, <2>2 DEF Counters
<1> HIDE DEF c
<1>6. /\ metrics'.concurrent = IF state' = "DONE" THEN 0 ELSE 1
      /\ metrics'.historic = metrics.historic + n
      /\ metrics'.avg_read = a /\ metrics'.total_reads = metrics.total_reads + 1
      /\ metrics'.avg_write = metrics.avg_write /\ metrics'.total_writes = metrics.total_writes
    BY <1>4, <1>5, FinishCounts
<1>7. recvd'[s] = recvd[s] + n /\ recvd'[Other(s)] = recvd[Other(s)]
    BY OtherSide DEF copy_read_bytes, CInv, Types
<1>8. recvd'["client"] + recvd'["origin"] = recvd["client"] + recvd["origin"] + n
    BY <1>1, <1>7, TwoSides
<1>9. ReadBytes' = ReadBytes + n /\ WrittenBytes' = WrittenBytes /\ ReadBytes \in Int
    <2>1. early' = early /\ out' = out
        OBVIOUS
    <2>2. /\ recvd["client"] \in Nat /\ recvd["origin"] \in Nat
          /\ recvd'["client"] \in Nat /\ recvd'["origin"] \in Nat
        BY <1>1, <1>7, OtherSide DEF Side
    <2> QED BY <1>1, <1>8, <2>1, <2>2 DEF ReadBytes, WrittenBytes
<1>10. WrittenBytes \in Int
    BY DEF WrittenBytes, CInv, Types, Side
<1>11. metrics.avg_read * metrics.total_reads \in Nat /\ a * (metrics.total_reads + 1) \in Nat
    BY <1>2, <1>3
<1>12. a * (metrics.total_reads + 1) <= ReadBytes + n
    <2> DEFINE p == a * (metrics.total_reads + 1)
               q == metrics.avg_read * metrics.total_reads
    <2>1. p \in Nat /\ q \in Nat /\ p <= q + n /\ q <= ReadBytes
        BY <1>3, <1>11 DEF MetricsBounded
    <2> HIDE DEF p, q
    <2>2. p <= ReadBytes + n
        BY <1>1, <1>9, <2>1
    <2> QED BY <2>2 DEF p
<1>13. metrics.historic + n = ReadBytes + n + WrittenBytes
    BY <1>1, <1>9, <1>10 DEF MetricsBounded
<1> QED BY <1>6, <1>9, <1>12, <1>13 DEF MetricsBounded

\* And copy_write.
LEMMA WriteMetrics ==
    ASSUME CInv, MetricsBounded, state = "COPY", NEW s \in Side, NEW n \in 1..BufferSize,
           copy_write_bytes(s, n), UNCHANGED <<recvd, early>>
    PROVE  MetricsBounded'
<1> DEFINE a == average(metrics.avg_write, metrics.total_writes, n)
           c == [metrics EXCEPT !.avg_write = a, !.total_writes = @ + 1, !.historic = @ + n]
           l0 == [x \in Side |-> Len(out[x])]
           l1 == [x \in Side |-> Len(out'[x])]
<1>1. /\ metrics \in Counters /\ n \in Nat /\ metrics.concurrent = 1
      /\ \A x \in Side : recvd[x] \in Nat
      /\ early \in Nat
    BY BufferSizeAssumption, MaxBytesAssumption DEF CInv, Types, MetricsBounded
<1>2. /\ metrics.avg_write \in Nat /\ metrics.total_writes \in Nat /\ metrics.historic \in Nat
    BY <1>1 DEF Counters
<1>3. a \in Nat /\ a * (metrics.total_writes + 1) <= metrics.avg_write * metrics.total_writes + n
    BY <1>1, <1>2, AverageNat, AverageBound
<1>4. Finish(s, c)
    BY DEF copy_write_bytes
<1> HIDE DEF a
<1>5. /\ c \in Counters /\ c.concurrent = 1 /\ c.historic = metrics.historic + n
      /\ c.avg_write = a /\ c.total_writes = metrics.total_writes + 1
      /\ c.avg_read = metrics.avg_read /\ c.total_reads = metrics.total_reads
    <2>1. a \in Nat /\ metrics.total_writes + 1 \in Nat /\ metrics.historic + n \in Nat
        BY <1>1, <1>2, <1>3
    <2>2. c \in Counters
        BY <1>1, <2>1 DEF Counters
    <2> QED BY <1>1, <2>2 DEF Counters
<1> HIDE DEF c
<1>6. /\ metrics'.concurrent = IF state' = "DONE" THEN 0 ELSE 1
      /\ metrics'.historic = metrics.historic + n
      /\ metrics'.avg_write = a /\ metrics'.total_writes = metrics.total_writes + 1
      /\ metrics'.avg_read = metrics.avg_read /\ metrics'.total_reads = metrics.total_reads
    BY <1>4, <1>5, FinishCounts
<1>7. /\ l1[s] = l0[s] + n /\ l1[Other(s)] = l0[Other(s)]
      /\ \A x \in Side : l0[x] \in Nat
    <2>1. /\ out[s] \in Seq(Nat) /\ \A x \in Side : Len(out[x]) \in Nat
          /\ out' = [out EXCEPT ![s] = @ \o Outgoing(rb[Other(s)], n)]
        BY DEF CInv, Types, copy_write_bytes
    <2>2. out'[s] = out[s] \o Outgoing(rb[Other(s)], n) /\ out'[Other(s)] = out[Other(s)]
        BY <2>1, OtherSide DEF CInv, Types
    <2>3. Outgoing(rb[Other(s)], n) \in Seq(Nat) /\ Len(Outgoing(rb[Other(s)], n)) = n
        <3>1. Other(s) \in Side /\ Other(Other(s)) = s
            BY OtherSide
        <3>2. n <= buffer_read_ptr(rb[Other(s)])
            BY DEF copy_write_bytes
        <3>3. /\ buffer_read_ptr(rb[Other(s)]) \in Nat /\ Len(out[s]) \in Nat
              /\ \A i \in 1..buffer_read_ptr(rb[Other(s)]) :
                    Pending(rb[Other(s)], i) = Len(out[s]) + i
            BY <3>1, SideFacts
        <3>4. \A i \in 1..n : Pending(rb[Other(s)], i) \in Nat
            BY <1>1, <3>2, <3>3
        <3> QED BY <1>1, <3>4 DEF Outgoing
    <2>4. Len(out'[s]) = Len(out[s]) + n
        BY <2>1, <2>2, <2>3, ConcatLength
    <2>5. \A x \in Side : l0[x] = Len(out[x]) /\ l1[x] = Len(out'[x])
        OBVIOUS
    <2> HIDE DEF l0, l1
    <2>6. Other(s) \in Side /\ Len(out'[Other(s)]) = Len(out[Other(s)])
        BY <2>2, OtherSide
    <2>7. l1[s] = l0[s] + n
        BY <2>4, <2>5
    <2>8. l1[Other(s)] = l0[Other(s)] /\ \A x \in Side : l0[x] \in Nat
        BY <2>1, <2>5, <2>6
    <2> QED BY <2>7, <2>8
<1>8. l1["client"] + l1["origin"] = l0["client"] + l0["origin"] + n
    <2> HIDE DEF l0, l1
    <2> QED BY <1>1, <1>7, TwoSides
<1>9. ReadBytes' = ReadBytes /\ WrittenBytes' = WrittenBytes + n /\ WrittenBytes \in Int
    <2>1. early' = early /\ recvd' = recvd
        OBVIOUS
    <2>2. /\ l0["client"] = Len(out["client"]) /\ l0["origin"] = Len(out["origin"])
          /\ l1["client"] = Len(out'["client"]) /\ l1["origin"] = Len(out'["origin"])
          /\ l0["client"] \in Nat /\ l0["origin"] \in Nat
        BY <1>7 DEF Side
    <2> HIDE DEF l0, l1
    <2>3. l1["client"] \in Nat /\ l1["origin"] \in Nat
        BY <1>1, <1>7, <2>2, OtherSide DEF Side
    <2>4. ReadBytes' = ReadBytes
        BY <2>1 DEF ReadBytes
    <2>5. WrittenBytes = l0["client"] + l0["origin"] /\ WrittenBytes' = l1["client"] + l1["origin"]
        BY <2>2 DEF WrittenBytes
    <2>6. n \in Nat /\ l0["client"] \in Nat /\ l0["origin"] \in Nat
        BY <1>1, <2>2
    <2> QED BY ONLY <1>8, <2>3, <2>4, <2>5, <2>6
<1>10. ReadBytes \in Int
    BY <1>1 DEF ReadBytes, Side
<1>11. metrics.avg_write * metrics.total_writes \in Nat /\ a * (metrics.total_writes + 1) \in Nat
    BY <1>2, <1>3
<1>12. a * (metrics.total_writes + 1) <= WrittenBytes + n
    <2> DEFINE p == a * (metrics.total_writes + 1)
               q == metrics.avg_write * metrics.total_writes
    <2>1. p \in Nat /\ q \in Nat /\ p <= q + n /\ q <= WrittenBytes
        BY <1>3, <1>11 DEF MetricsBounded
    <2> HIDE DEF p, q
    <2>2. p <= WrittenBytes + n
        BY <1>1, <1>9, <2>1
    <2> QED BY <2>2 DEF p
<1>13. metrics.historic + n = ReadBytes + (WrittenBytes + n)
    BY <1>1, <1>9, <1>10 DEF MetricsBounded
<1> QED BY <1>6, <1>9, <1>12, <1>13 DEF MetricsBounded

\* Every step keeps the metrics right.
LEMMA NextMetrics == CInv /\ MetricsBounded /\ [Next]_vars => MetricsBounded'
<1> SUFFICES ASSUME CInv, MetricsBounded, [Next]_vars PROVE MetricsBounded'
    OBVIOUS
<1>1. CASE copy_init
    BY <1>1, SameMetrics DEF copy_init
<1>2. ASSUME NEW s \in Side, copy_read(s) PROVE MetricsBounded'
    BY <1>2, ReadMetrics, SameMetrics DEF copy_read, copy_read_end
<1>3. ASSUME NEW s \in Side, copy_write(s) PROVE MetricsBounded'
    BY <1>3, WriteMetrics, SameMetrics DEF copy_write, copy_write_fail
<1>4. ASSUME NEW s \in Side, PeerSend(s) \/ PeerEof(s) \/ PeerReset(s) PROVE MetricsBounded'
    BY <1>4, SameMetrics DEF PeerSend, PeerEof, PeerReset
<1>5. CASE UNCHANGED vars
    BY <1>5, SameMetrics DEF vars
<1> QED BY <1>1, <1>2, <1>3, <1>4, <1>5 DEF Next, Terminated

\* For buffers of any size and any sequence of partial reads and writes: the
\* historic counter is what was read and written, no average exceeds the true
\* mean, and the connection is discounted once, when it reaches DONE.
THEOREM CopyMetrics == Spec => []MetricsBounded
<1>1. Init => MetricsBounded
    BY MaxBytesAssumption, BufferSizeAssumption
       DEF Init, MetricsBounded, ReadBytes, WrittenBytes, Side
<1> QED BY <1>1, InitCInv, NextCInv, NextMetrics, PTL DEF Spec

-----------------------------------------------------------------------------
(* COPY implements Relay's Safety. *)

\* What Abstract maps out, interest and state to.
Delivered == [s \in Side |-> out[Other(s)]]
Open == IF state = "REQUEST_WRITE" THEN Side ELSE {s \in Side : OP_READ \in interest[s]}

\* In COPY a registration is for an open direction.
LEMMA ArmedOpen ==
    ASSUME CInv, state = "COPY", NEW s \in Side
    PROVE  /\ OP_READ \in armed[s] => OP_READ \in interest[s] /\ s \in Open
           /\ OP_WRITE \in armed[s] => OP_WRITE \in interest[s] /\ Other(s) \in Open
<1>1. armed[s] \subseteq interest[s]
    BY DEF CInv, ArmedCurrent, copy_compute_interests
<1>2. OP_WRITE \in interest[s] => OP_READ \in interest[Other(s)]
    BY OtherSide DEF CInv, DirectionsPaired
<1> QED BY <1>1, <1>2, OtherSide DEF Open

\* Closing the direction from s shuts its stream, and ends the relay when the
\* other is shut too, whichever of the two sides' handlers did it.
LEMMA CloseShuts ==
    ASSUME CInv, state = "COPY", NEW s \in Side, NEW d \in Side, s \in Open,
           interest' = CloseFrom(s), Finish(d, metrics), d = s \/ d = Other(s),
           UNCHANGED <<recvd, out>>
    PROVE  Abstract!Shut(s)
<1>1. interest \in [Side -> Interests] /\ interest' \in [Side -> Interests] /\ DirectionsPaired'
    BY CloseFromPaired DEF CInv, Types
<1>2. /\ interest'[s] = interest[s] \ {OP_READ}
      /\ interest'[Other(s)] = interest[Other(s)] \ {OP_WRITE}
    BY <1>1, OtherSide DEF CloseFrom
<1>3. state' \in {"COPY", "DONE"} /\ (state' = "DONE" <=> interest'[d] = {})
    BY DEF Finish
<1>4. Open' = Open \ {s}
    BY <1>1, <1>2, <1>3, OtherSide DEF Open, OP_READ, OP_WRITE
<1>5. interest'[d] = {} <=> OP_READ \notin interest'[s] /\ OP_READ \notin interest'[Other(s)]
    <2>1. \A x \in Side : interest'[x] = {} <=> OP_READ \notin interest'[x] /\ OP_WRITE \notin interest'[x]
        BY <1>1 DEF Interests
    <2>2. \A x \in Side : OP_WRITE \in interest'[x] <=> OP_READ \in interest'[Other(x)]
        BY <1>1, OtherSide DEF DirectionsPaired
    <2> QED BY <2>1, <2>2, <1>1, OtherSide
<1>6. (Open' = {}) <=> (state' = "DONE")
    BY <1>3, <1>5, OtherSide DEF Open
<1> QED BY <1>4, <1>6 DEF Abstract!Shut, Open

\* recv() of bytes is Accept: there was room for them.
LEMMA ReadAccepts ==
    ASSUME CInv, state = "COPY", NEW s \in Side, OP_READ \in armed[s],
           NEW n \in 1..BufferSize, copy_read_bytes(s, n), UNCHANGED out
    PROVE  Abstract!Accept(s)
<1>1. s \in Open /\ OP_READ \in interest[s]
    BY ArmedOpen
<1>2. interest' = interest /\ Finish(s, [metrics EXCEPT
                    !.avg_read    = average(@, metrics.total_reads, n),
                    !.total_reads = @ + 1,
                    !.historic    = @ + n])
    BY DEF copy_read_bytes
<1>3. state' = "COPY"
    BY <1>1, <1>2 DEF Finish
<1>4. Open' = Open
    BY <1>2, <1>3 DEF Open
<1>5. Len(out[Other(s)]) + buffer_read_ptr(rb[s]) = recvd[s] /\ recvd[s] \in Nat
      /\ buffer_read_ptr(rb[s]) \in Nat /\ BufferSize \in Nat /\ Len(out[Other(s)]) \in Nat
    BY SideFacts, OtherSide
<1>6. n <= buffer_write_ptr(rb[s]) /\ recvd' = [recvd EXCEPT ![s] = @ + n]
    BY DEF copy_read_bytes, RecvData
<1>7. /\ buffer_write_ptr(rb[s]) \in Nat
      /\ buffer_read_ptr(rb[s]) + buffer_write_ptr(rb[s]) <= BufferSize
    BY SideFacts, BufferCounts
<1>8. recvd[s] + n - Len(out[Other(s)]) <= BufferSize
    BY <1>5, <1>6, <1>7
<1>9. Delivered[s] = out[Other(s)] /\ Delivered' = Delivered
    BY DEF Delivered
<1> QED BY <1>1, <1>3, <1>4, <1>6, <1>8, <1>9 DEF Abstract!Accept, Open, Delivered

\* send() of bytes is Deliver: they are the next ones of the stream.
LEMMA WriteDelivers ==
    ASSUME CInv, state = "COPY", NEW s \in Side, OP_WRITE \in armed[s],
           NEW n \in 1..BufferSize, copy_write_bytes(s, n), UNCHANGED recvd
    PROVE  Abstract!Deliver(Other(s))
<1> DEFINE t == Other(s)
           f == Outgoing(rb[t], n)
<1>1. t \in Side /\ t # s /\ Other(t) = s /\ \A x \in Side : x = s \/ x = t
    BY OtherSide
<1>2. t \in Open /\ OP_WRITE \in interest[s]
    BY ArmedOpen
<1>3. interest' = interest /\ Finish(s, [metrics EXCEPT
                    !.avg_write    = average(@, metrics.total_writes, n),
                    !.total_writes = @ + 1,
                    !.historic     = @ + n])
    BY DEF copy_write_bytes
<1>4. state' = "COPY"
    BY <1>2, <1>3 DEF Finish
<1>5. Open' = Open
    BY <1>3, <1>4 DEF Open
<1>6. n \in Nat /\ n <= buffer_read_ptr(rb[t]) /\ out' = [out EXCEPT ![s] = @ \o f]
    BY BufferSizeAssumption DEF copy_write_bytes
<1> HIDE DEF t
<1>7. /\ Len(out[s]) + buffer_read_ptr(rb[t]) = recvd[t] /\ recvd[t] \in Nat
      /\ buffer_read_ptr(rb[t]) \in Nat /\ Len(out[s]) \in Nat
      /\ \A i \in 1..buffer_read_ptr(rb[t]) : Pending(rb[t], i) = Len(out[s]) + i
    BY <1>1, SideFacts
<1>8. f = [i \in 1..n |-> Len(out[s]) + i]
    BY <1>6, <1>7 DEF Outgoing
<1>9. Len(out[s]) + n <= recvd[t]
    BY <1>6, <1>7
<1> HIDE DEF f
<1>10. Delivered[t] = out[s] /\ Delivered' = [Delivered EXCEPT ![t] = @ \o f]
    <2>1. out'[s] = out[s] \o f /\ out'[t] = out[t]
        BY <1>1, <1>6 DEF CInv, Types
    <2>2. Other(s) = t
        BY DEF t
    <2> QED BY <1>1, <2>1, <2>2 DEF Delivered
<1>11. Delivered' = [Delivered EXCEPT ![t] = @ \o [i \in 1..n |-> Len(Delivered[t]) + i]]
    BY <1>8, <1>10
<1>12. Abstract!Deliver(t)
    BY <1>2, <1>4, <1>5, <1>9, <1>10, <1>11 DEF Abstract!Deliver, Open, Delivered
<1> QED BY <1>12 DEF t

\* Every step is one of Relay's or invisible to it.
LEMMA NextRelay == CInv /\ [Next]_vars => [Abstract!Next]_(Abstract!vars)
<1> SUFFICES ASSUME CInv, [Next]_vars PROVE Abstract!Next \/ UNCHANGED Abstract!vars
    OBVIOUS
<1>1. CASE copy_init
    <2>1. Open' = Open
        BY <1>1 DEF copy_init, Open
    <2> QED BY <1>1, <2>1 DEF copy_init, Open, Abstract!vars
<1>2. ASSUME NEW s \in Side, copy_read(s) PROVE Abstract!Next
    <2>1. state = "COPY" /\ OP_READ \in armed[s] /\ out' = out
        BY <1>2 DEF copy_read
    <2>2. CASE \E n \in 1..BufferSize : copy_read_bytes(s, n)
        BY <2>1, <2>2, ReadAccepts DEF Abstract!Next
    <2>3. CASE copy_read_end(s)
        <3>1. s \in Open
            BY <2>1, ArmedOpen
        <3> QED BY <2>1, <2>3, <3>1, CloseShuts DEF Abstract!Next, copy_read_end
    <2> QED BY <1>2, <2>2, <2>3 DEF copy_read
<1>3. ASSUME NEW s \in Side, copy_write(s) PROVE Abstract!Next
    <2>1. state = "COPY" /\ OP_WRITE \in armed[s] /\ recvd' = recvd /\ Other(s) \in Side
          /\ Other(Other(s)) = s
        BY <1>3, OtherSide DEF copy_write
    <2>2. CASE \E n \in 1..BufferSize : copy_write_bytes(s, n)
        BY <2>1, <2>2, WriteDelivers DEF Abstract!Next
    <2>3. CASE copy_write_fail(s)
        <3>1. Other(s) \in Open
            BY <2>1, ArmedOpen
        <3> QED BY <2>1, <2>3, <3>1, CloseShuts DEF Abstract!Next, copy_write_fail
    <2> QED BY <1>3, <2>2, <2>3 DEF copy_write
<1>4. ASSUME NEW s \in Side, PeerSend(s) \/ PeerEof(s) \/ PeerReset(s)
      PROVE  UNCHANGED Abstract!vars
    BY <1>4 DEF PeerSend, PeerEof, PeerReset, Abstract!vars
<1>5. CASE UNCHANGED vars
    BY <1>5 DEF vars, Abstract!vars
<1> QED BY <1>1, <1>2, <1>3, <1>4, <1>5 DEF Next, Terminated

\* For buffers of any size: COPY is a relay of two bounded streams, each
\* delivered in order and shut once, over when both are shut.  Its fairness is
\* left to the runs.
THEOREM CopyImplementsRelay == Spec => RelaySafety
<1>1. Init => Abstract!Init
    <2> SUFFICES ASSUME Init PROVE Abstract!Init
        OBVIOUS
    <2>1. recvd \in [Side -> 0..BufferSize]
        BY BufferSizeAssumption DEF Init
    <2> QED BY <2>1, OtherSide DEF Init, Abstract!Init
<1> QED BY <1>1, NextRelay, CInvAlways, PTL DEF Spec, RelaySafety, Abstract!Safety

=============================================================================
