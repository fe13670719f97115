------------------------- MODULE BufferQueueProofs -------------------------
(***************************************************************************)
(* A buffer of any size over any bytes is a queue: the three invariants of *)
(* BufferQueue together are inductive.                                     *)
(***************************************************************************)
EXTENDS BufferQueue, DataLemmas

\* The inductive invariant, with the queue's elements spelled out.
IInv ==
    /\ b \in Buffers(Byte, Size)
    /\ Rewound(b)
    /\ q \in Seq(Byte)
    /\ Len(q) = buffer_read_ptr(b)
    /\ \A i \in 1..Len(q) : q[i] = Pending(b, i)

\* IInv implies the three invariants.
LEMMA IInvImplies == IInv => IsQueue
BY ContentsUnique DEF IsQueue, IInv, TypeOK, HoldsQueue, DrainedIsRewound, Rewound

\* buffer_init starts the queue empty.
LEMMA InitIInv == Init => IInv
<1> SUFFICES ASSUME Init PROVE IInv
    OBVIOUS
<1>1. PICK blank \in Byte : b = buffer_init(Size, blank)
    BY DEF Init
<1>2. b \in Buffers(Byte, Size) /\ buffer_read_ptr(b) = 0 /\ Rewound(b)
    BY <1>1, InitBuffer, SizeAssumption
<1> QED BY <1>2 DEF IInv, Init

\* Every API call preserves IInv.
LEMMA NextIInv == IInv /\ [Next]_vars => IInv'
<1> SUFFICES ASSUME IInv, [Next]_vars PROVE IInv'
    OBVIOUS
<1> DEFINE m == buffer_read_ptr(b)
<1>0. /\ b \in Buffers(Byte, Size) /\ Rewound(b) /\ Size \in Nat
      /\ q \in Seq(Byte) /\ m \in Nat /\ Len(q) = m
      /\ \A i \in 1..m : q[i] = Pending(b, i)
    BY BufferCounts, SizeAssumption DEF IInv
<1>1. ASSUME NEW x \in Byte, write_byte(x) PROVE IInv'
    <2>1. CASE buffer_can_write(b)
        <3>1. /\ b' \in Buffers(Byte, Size) /\ Rewound(b')
              /\ buffer_read_ptr(b') = m + 1
              /\ \A i \in 1..m : Pending(b', i) = Pending(b, i)
              /\ Pending(b', m + 1) = x
            BY <1>0, <1>1, <2>1, WriteAppends DEF write_byte
        <3>2. q' = Append(q, x)
            BY <1>1, <2>1 DEF write_byte
        <3> HIDE DEF m
        <3>3. q' \in Seq(Byte) /\ Len(q') = m + 1
            BY <1>0, <3>2
        <3>4. ASSUME NEW i \in 1..(m + 1) PROVE q'[i] = Pending(b', i)
            <4>1. CASE i = m + 1
                BY <1>0, <3>1, <3>2, <4>1
            <4>2. CASE i \in 1..m
                BY <1>0, <3>1, <3>2, <4>2
            <4> QED BY <1>0, <4>1, <4>2
        <3> QED BY <3>1, <3>3, <3>4 DEF IInv
    <2>2. CASE ~buffer_can_write(b)
        BY <1>0, <1>1, <2>2 DEF write_byte, buffer_write, IInv
    <2> QED BY <2>1, <2>2
<1>2. ASSUME NEW n \in Nat, send_from(n) PROVE IInv'
    <2>1. n <= m /\ b' = buffer_read_adv(b, n) /\ q' = SubSeq(q, n + 1, Len(q))
        BY <1>2 DEF send_from
    <2>2. /\ b' \in Buffers(Byte, Size) /\ Rewound(b')
          /\ buffer_read_ptr(b') = m - n
          /\ \A i \in 1..(m - n) : Pending(b', i) = Pending(b, n + i)
        BY <1>0, <1>2, <2>1, ReadAdvDrops
    <2> HIDE DEF m
    <2>3. /\ q' \in Seq(Byte) /\ Len(q') = m - n
          /\ \A i \in 1..(m - n) : q'[i] = q[n + i]
        BY <1>0, <1>2, <2>1
    <2>4. ASSUME NEW i \in 1..(m - n) PROVE q'[i] = Pending(b', i)
        <3>1. n + i \in 1..m
            BY <1>0, <1>2, <2>1
        <3> QED BY <1>0, <2>2, <2>3, <3>1
    <2> QED BY <2>2, <2>3, <2>4 DEF IInv
<1>3. ASSUME read_byte PROVE IInv'
    <2>1. CASE buffer_can_read(b)
        <3>1. 1 <= m
            BY <1>0, <2>1, BufferCounts
        <3> HIDE DEF m
        <3>2. q # << >> /\ Tail(q) = SubSeq(q, 1 + 1, Len(q))
            BY <1>0, <3>1
        <3>3. b' = buffer_read_adv(b, 1) /\ q' = Tail(q)
            BY <1>3, <2>1, <3>2 DEF read_byte, buffer_read
        <3>4. send_from(1)
            BY <3>1, <3>2, <3>3 DEF send_from, m
        <3> QED BY <1>2, <3>4
    <2>2. CASE ~buffer_can_read(b)
        <3>1. m = 0
            BY <1>0, <2>2, BufferCounts
        <3> HIDE DEF m
        <3>2. q = << >>
            BY <1>0, <3>1
        <3>3. b' = b /\ q' = q
            BY <1>3, <2>2, <3>2 DEF read_byte, buffer_read
        <3> QED BY <1>0, <3>3 DEF IInv, m
    <2> QED BY <2>1, <2>2
<1>4. ASSUME NEW n \in 1..Size, NEW msg \in [1..n -> Byte], recv_into(n, msg) PROVE IInv'
    <2>1. n \in Nat /\ 0 < n
        BY <1>0
    <2>2. /\ n <= buffer_write_ptr(b) /\ q' = q \o msg
          /\ b' = buffer_write_adv(Fill(b, n, msg), n)
        BY <1>4 DEF recv_into
    <2>3. /\ b' \in Buffers(Byte, Size) /\ Rewound(b')
          /\ buffer_read_ptr(b') = m + n
          /\ \A i \in 1..m : Pending(b', i) = Pending(b, i)
          /\ \A i \in 1..n : Pending(b', m + i) = msg[i]
        BY <1>0, <2>1, <2>2, RecvAppends
    <2> HIDE DEF m
    <2>4. msg \in Seq(Byte) /\ Len(msg) = n
        BY <2>1
    <2>5. q' \in Seq(Byte) /\ Len(q') = m + n
        BY <1>0, <2>1, <2>2, <2>4
    <2>6. ASSUME NEW i \in 1..(m + n) PROVE q'[i] = Pending(b', i)
        <3>1. CASE i <= m
            BY <1>0, <2>1, <2>2, <2>3, <2>4, <3>1
        <3>2. CASE i > m
            <4>1. i - m \in 1..n /\ m + (i - m) = i
                BY <1>0, <2>1, <3>2
            <4>2. q'[i] = msg[i - m]
                BY <1>0, <2>1, <2>2, <2>4, <3>2
            <4>3. Pending(b', m + (i - m)) = msg[i - m]
                BY <2>3, <4>1
            <4> QED BY <4>1, <4>2, <4>3
        <3> QED BY <1>0, <2>1, <3>1, <3>2
    <2> QED BY <2>3, <2>5, <2>6 DEF IInv
<1>5. ASSUME compact PROVE IInv'
    <2>1. /\ b' \in Buffers(Byte, Size) /\ Rewound(b')
          /\ buffer_read_ptr(b') = m
          /\ \A i \in 1..m : Pending(b', i) = Pending(b, i)
        BY <1>0, <1>5, CompactKeeps DEF compact
    <2> HIDE DEF m
    <2> QED BY <1>0, <1>5, <2>1 DEF compact, IInv
<1>6. ASSUME reset PROVE IInv'
    <2>1. b' \in Buffers(Byte, Size) /\ Rewound(b') /\ buffer_read_ptr(b') = 0
        BY <1>0, <1>6, ResetEmpties DEF reset
    <2> QED BY <1>6, <2>1 DEF reset, IInv
<1>7. ASSUME UNCHANGED vars PROVE IInv'
    BY <1>0, <1>7 DEF vars, IInv
<1>8. \A n \in 1..Size : n \in Nat
    BY <1>0
<1> QED BY <1>1, <1>2, <1>3, <1>4, <1>5, <1>6, <1>7, <1>8 DEF Next

\* Any sequence of calls to the buffer API, on a buffer of any size, keeps
\* R <= W <= limit, keeps exactly the bytes written and not read in order, and
\* leaves a drained buffer rewound.
THEOREM BufferIsQueue == Spec => []IsQueue
BY InitIInv, NextIInv, IInvImplies, PTL DEF Spec
=============================================================================
