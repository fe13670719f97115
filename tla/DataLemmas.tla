----------------------------- MODULE DataLemmas -----------------------------
(***************************************************************************)
(* Facts about the data that several models are made of: the least and the *)
(* greatest of a set of naturals, for searches written with CHOOSE (the    *)
(* first entry of a name, the lowest free descriptor, the largest one in   *)
(* use) and for induction by the least counterexample; remainders; and     *)
(* what the operations of buffer.c do to the pointers and to the pending   *)
(* bytes, for a buffer of any size over any bytes.                         *)
(***************************************************************************)
EXTENDS Buffer, WellFoundedInduction, TLAPS

\* A set of naturals has a least element.
LEMMA LeastNat ==
    ASSUME NEW S, S \subseteq Nat, S # {}
    PROVE  \E m \in S : \A k \in S : m <= k
<1>1. PICK R : IsWellFoundedOn(R, Nat) /\ \A x, y \in Nat : x < y => <<x, y>> \in R
  <2>1. \A x, y \in Nat : x < y => <<x, y>> \in OpToRel(<, Nat)
    BY DEF OpToRel
  <2> QED
    BY <2>1, NatLessThanWellFounded
<1>2. IsWellFoundedOn(R, Nat)
  BY <1>1
<1>3. \E x \in S : \A y \in S : ~(<<y, x>> \in R)
  BY ONLY <1>2, WFMin, S \subseteq Nat, S # {}, Zenon
<1>4. PICK x \in S : \A y \in S : <<y, x>> \notin R
  BY <1>3
<1>5. ASSUME NEW y \in S PROVE x <= y
  <2>1. ~(y < x)
    BY <1>1, <1>4
  <2> QED
    BY <2>1
<1> QED
  BY <1>5

\* A bounded one has a greatest.
LEMMA GreatestNat ==
    ASSUME NEW S, NEW n \in Nat, S \subseteq 0..n, S # {}
    PROVE  \E m \in S : \A k \in S : k <= m
<1> DEFINE D == {n - k : k \in S}
<1>1. D \subseteq Nat /\ D # {}
  <2>1. ASSUME NEW k \in S PROVE n - k \in Nat /\ n - k \in D
    OBVIOUS
  <2>2. D \subseteq Nat
    BY <2>1
  <2>3. PICK k \in S : TRUE
    OBVIOUS
  <2>4. D # {}
    BY <2>1, <2>3
  <2> QED
    BY <2>2, <2>4
<1>2. PICK x \in D : \A y \in D : x <= y
  BY <1>1, LeastNat
<1>3. PICK m \in S : x = n - m
  BY <1>2
<1>4. ASSUME NEW k \in S PROVE k <= m
  <2>1. n - m <= n - k
    BY <1>2, <1>3
  <2>2. m \in Nat /\ k \in Nat
    OBVIOUS
  <2> QED
    BY <2>1, <2>2
<1> QED
  BY <1>4

-----------------------------------------------------------------------------
(* Remainders *)

\* One period further on.
LEMMA ModNext ==
    ASSUME NEW n \in Nat, NEW m \in Nat, m > 0
    PROVE  (n + m) % m = n % m
<1>1. (n + m) \div m = (n \div m) + 1
  BY SMTT(30)
<1> QED
  BY <1>1, SMTT(30)

\* The multiples of m are m apart.
LEMMA ModZero == ASSUME NEW m \in Nat, m > 0 PROVE 0 % m = 0 /\ m % m = 0
OBVIOUS

-----------------------------------------------------------------------------
(* Buffers *)

\* A buffer whose pointers meet has them at the start.
Rewound(b) == b.read = b.write => b.read = 0

\* Membership in Buffers, field by field.
LEMMA BufferFields ==
    ASSUME NEW Byte, NEW n \in Nat, NEW b \in Buffers(Byte, n)
    PROVE  /\ b.data \in [0..(n-1) -> Byte]
           /\ b.read \in Nat /\ b.write \in Nat /\ b.limit = n
           /\ b.read <= b.write /\ b.write <= n
           /\ b = [data |-> b.data, read |-> b.read, write |-> b.write, limit |-> n]
BY DEF Buffers

\* The converse of BufferFields.
LEMMA BufferIntro ==
    ASSUME NEW Byte, NEW n \in Nat,
           NEW d \in [0..(n-1) -> Byte], NEW r \in Nat, NEW w \in Nat,
           r <= w, w <= n
    PROVE  [data |-> d, read |-> r, write |-> w, limit |-> n] \in Buffers(Byte, n)
BY DEF Buffers

\* The record updates of buffer.c on a buffer written out as a literal:
\* rewinding, advancing the write pointer, replacing the cells, storing one.
LEMMA LiteralReset ==
    ASSUME NEW d, NEW r \in Nat, NEW w \in Nat, NEW n \in Nat, NEW b, NEW c,
           b = [data |-> d, read |-> r, write |-> w, limit |-> n],
           c = buffer_reset(b)
    PROVE  c = [data |-> d, read |-> 0, write |-> 0, limit |-> n]
BY DEF buffer_reset

\* See LiteralReset.
LEMMA LiteralAdvance ==
    ASSUME NEW d, NEW r \in Nat, NEW w \in Nat, NEW n \in Nat, NEW b, NEW c,
           b = [data |-> d, read |-> r, write |-> w, limit |-> n],
           NEW k \in Nat, c = buffer_write_adv(b, k)
    PROVE  c = [data |-> d, read |-> r, write |-> w + k, limit |-> n]
BY DEF buffer_write_adv

\* See LiteralReset.
LEMMA LiteralCells ==
    ASSUME NEW d, NEW r \in Nat, NEW w \in Nat, NEW n \in Nat, NEW b, NEW c,
           b = [data |-> d, read |-> r, write |-> w, limit |-> n],
           NEW e, c = [b EXCEPT !.data = e]
    PROVE  c = [data |-> e, read |-> r, write |-> w, limit |-> n]
OBVIOUS

\* See LiteralReset.
LEMMA LiteralStore ==
    ASSUME NEW d, NEW r \in Nat, NEW w \in Nat, NEW n \in Nat, NEW b, NEW c,
           b = [data |-> d, read |-> r, write |-> w, limit |-> n],
           NEW x, c = [b EXCEPT !.data[b.write] = x]
    PROVE  c = [data |-> [d EXCEPT ![w] = x], read |-> r, write |-> w, limit |-> n]
OBVIOUS

\* The number of pending bytes, the room, and the type of a pending byte.
LEMMA BufferCounts ==
    ASSUME NEW Byte, NEW n \in Nat, NEW b \in Buffers(Byte, n)
    PROVE  /\ buffer_read_ptr(b) \in 0..n
           /\ buffer_write_ptr(b) \in 0..(n - buffer_read_ptr(b))
           /\ buffer_can_read(b) <=> buffer_read_ptr(b) > 0
           /\ buffer_can_write(b) <=> buffer_write_ptr(b) > 0
           /\ \A i \in 1..buffer_read_ptr(b) : Pending(b, i) \in Byte
BY BufferFields
   DEF buffer_read_ptr, buffer_write_ptr, buffer_can_read, buffer_can_write, Pending

\* A rewound buffer has something to send or room for more: never neither.
LEMMA RewoundHasRoom ==
    ASSUME NEW Byte, NEW n \in Nat \ {0}, NEW b \in Buffers(Byte, n), Rewound(b)
    PROVE  buffer_can_read(b) \/ buffer_can_write(b)
BY BufferFields DEF Rewound, buffer_can_read, buffer_can_write

\* buffer_init makes an empty buffer.
LEMMA InitBuffer ==
    ASSUME NEW Byte, NEW n \in Nat, NEW blank \in Byte
    PROVE  /\ buffer_init(n, blank) \in Buffers(Byte, n)
           /\ buffer_read_ptr(buffer_init(n, blank)) = 0
           /\ Rewound(buffer_init(n, blank))
BY DEF buffer_init, Buffers, Rewound, buffer_read_ptr

\* buffer_reset empties a buffer.
LEMMA ResetEmpties ==
    ASSUME NEW Byte, NEW n \in Nat, NEW b \in Buffers(Byte, n),
           NEW c, c = buffer_reset(b)
    PROVE  c \in Buffers(Byte, n) /\ buffer_read_ptr(c) = 0 /\ Rewound(c)
<1>0. PICK d \in [0..(n-1) -> Byte], r \in Nat, w \in Nat :
          /\ r <= w /\ w <= n
          /\ b = [data |-> d, read |-> r, write |-> w, limit |-> n]
    BY BufferFields
<1>1. c = [data |-> d, read |-> 0, write |-> 0, limit |-> n]
    BY <1>0 DEF buffer_reset
<1>2. c \in Buffers(Byte, n)
    BY <1>1, BufferIntro
<1> QED BY <1>1, <1>2 DEF buffer_read_ptr, Rewound

\* recv() of k > 0 bytes within the room and buffer_write_adv append them.
LEMMA RecvAppends ==
    ASSUME NEW Byte, NEW n \in Nat, NEW b \in Buffers(Byte, n),
           NEW k \in Nat, 0 < k, k <= buffer_write_ptr(b), NEW msg \in [1..k -> Byte],
           NEW c, c = buffer_write_adv(Fill(b, k, msg), k)
    PROVE  /\ c \in Buffers(Byte, n)
           /\ Rewound(c)
           /\ buffer_read_ptr(c) = buffer_read_ptr(b) + k
           /\ \A i \in 1..buffer_read_ptr(b) : Pending(c, i) = Pending(b, i)
           /\ \A i \in 1..k : Pending(c, buffer_read_ptr(b) + i) = msg[i]
<1> DEFINE dat == [i \in 0..(n-1) |->
                     IF i \in b.write..(b.write + k - 1) THEN msg[i - b.write + 1]
                     ELSE b.data[i]]
<1>1. /\ b.data \in [0..(n-1) -> Byte]
      /\ b.read \in Nat /\ b.write \in Nat /\ b.limit = n
      /\ b.read <= b.write /\ b.write <= n
    BY BufferFields
<1>r. b = [data |-> b.data, read |-> b.read, write |-> b.write, limit |-> n]
    BY BufferFields
<1>2. b.write + k <= n
    BY <1>1 DEF buffer_write_ptr
<1>3. DOMAIN b.data = 0..(n-1)
    BY <1>1
<1>4. dat \in [0..(n-1) -> Byte]
    BY <1>1, <1>2
<1>5. Fill(b, k, msg) = [b EXCEPT !.data = dat]
    BY <1>3, Zenon DEF Fill
<1>6. c = [data |-> dat, read |-> b.read, write |-> b.write + k, limit |-> n]
    <2> HIDE DEF dat
    <2> DEFINE f == Fill(b, k, msg)
    <2>1. f = [data |-> dat, read |-> b.read, write |-> b.write, limit |-> n]
        BY <1>1, <1>r, <1>5, LiteralCells
    <2>2. c = buffer_write_adv(f, k)
        OBVIOUS
    <2> HIDE DEF f
    <2>3. b.read \in Nat /\ b.write \in Nat
        BY <1>1
    <2> QED BY <2>1, <2>2, <2>3 DEF buffer_write_adv
<1>7. c \in Buffers(Byte, n)
    <2> HIDE DEF dat
    <2>1. b.write + k \in Nat /\ b.read <= b.write + k
        BY <1>1
    <2> QED BY <1>1, <1>2, <1>4, <1>6, <2>1, BufferIntro
<1>8. c.read = b.read /\ c.write = b.write + k /\ c.data = dat
    BY <1>6
<1>9. ASSUME NEW i \in 1..buffer_read_ptr(b) PROVE Pending(c, i) = Pending(b, i)
    <2>1. b.read + i - 1 \in 0..(n-1) /\ b.read + i - 1 < b.write
        BY <1>1, <1>2 DEF buffer_read_ptr
    <2> QED BY <1>1, <1>8, <2>1 DEF Pending
<1>10. ASSUME NEW i \in 1..k PROVE Pending(c, buffer_read_ptr(b) + i) = msg[i]
    <2>1. b.read + (buffer_read_ptr(b) + i) - 1 = b.write + i - 1
        BY <1>1 DEF buffer_read_ptr
    <2>2. /\ b.write + i - 1 \in 0..(n-1) /\ b.write + i - 1 \in b.write..(b.write + k - 1)
          /\ (b.write + i - 1) - b.write + 1 = i
        BY <1>1, <1>2
    <2>3. dat[b.write + i - 1] = msg[i]
        BY <2>2
    <2> HIDE DEF dat
    <2> QED BY <1>8, <2>1, <2>3 DEF Pending
<1>11. buffer_read_ptr(c) = buffer_read_ptr(b) + k /\ Rewound(c)
    BY <1>1, <1>8 DEF buffer_read_ptr, Rewound
<1> QED BY <1>7, <1>9, <1>10, <1>11

\* The one-byte buffer_write, when there is room.
LEMMA WriteAppends ==
    ASSUME NEW Byte, NEW n \in Nat, NEW b \in Buffers(Byte, n), NEW x \in Byte,
           buffer_can_write(b), NEW c, c = buffer_write(b, x)
    PROVE  /\ c \in Buffers(Byte, n)
           /\ Rewound(c)
           /\ buffer_read_ptr(c) = buffer_read_ptr(b) + 1
           /\ \A i \in 1..buffer_read_ptr(b) : Pending(c, i) = Pending(b, i)
           /\ Pending(c, buffer_read_ptr(b) + 1) = x
<1> DEFINE dat == [b.data EXCEPT ![b.write] = x]
<1>1. /\ b.data \in [0..(n-1) -> Byte]
      /\ b.read \in Nat /\ b.write \in Nat /\ b.limit = n
      /\ b.read <= b.write /\ b.write <= n
    BY BufferFields
<1>r. b = [data |-> b.data, read |-> b.read, write |-> b.write, limit |-> n]
    BY BufferFields
<1>2. b.write < n
    BY <1>1 DEF buffer_can_write
<1>3. dat \in [0..(n-1) -> Byte]
    BY <1>1
<1>4. [b EXCEPT !.data[b.write] = x]
        = [data |-> dat, read |-> b.read, write |-> b.write, limit |-> n]
    <2> DEFINE e == [b EXCEPT !.data[b.write] = x]
    <2>1. PICK d \in [0..(n-1) -> Byte], r \in Nat, w \in Nat :
             b = [data |-> d, read |-> r, write |-> w, limit |-> n]
        BY BufferFields
    <2>2. e = [data |-> [d EXCEPT ![w] = x], read |-> r, write |-> w, limit |-> n]
        BY <2>1, LiteralStore
    <2>3. d = b.data /\ r = b.read /\ w = b.write
        BY <2>1
    <2> QED BY <2>2, <2>3, Zenon
<1>5. c = [data |-> dat, read |-> b.read, write |-> b.write + 1, limit |-> n]
    <2> HIDE DEF dat
    <2>1. c = buffer_write_adv([b EXCEPT !.data[b.write] = x], 1)
        BY DEF buffer_write
    <2> QED BY <1>1, <1>4, <2>1, LiteralAdvance
<1>6. c \in Buffers(Byte, n)
    <2> HIDE DEF dat
    <2> QED BY <1>1, <1>2, <1>3, <1>5, BufferIntro
<1>7. c.read = b.read /\ c.write = b.write + 1 /\ c.data = dat
    BY <1>5
<1>8. ASSUME NEW i \in 1..buffer_read_ptr(b) PROVE Pending(c, i) = Pending(b, i)
    <2>1. b.read + i - 1 \in 0..(n-1) /\ b.read + i - 1 # b.write
        BY <1>1 DEF buffer_read_ptr
    <2> QED BY <1>1, <1>7, <2>1 DEF Pending
<1>9. Pending(c, buffer_read_ptr(b) + 1) = x
    <2>1. b.read + (buffer_read_ptr(b) + 1) - 1 = b.write
        BY <1>1 DEF buffer_read_ptr
    <2> QED BY <1>1, <1>2, <1>7, <2>1 DEF Pending
<1>10. buffer_read_ptr(c) = buffer_read_ptr(b) + 1 /\ Rewound(c)
    BY <1>1, <1>7 DEF buffer_read_ptr, Rewound
<1> QED BY <1>6, <1>8, <1>9, <1>10

\* buffer_compact moves the pending bytes to the start and keeps them.
LEMMA CompactKeeps ==
    ASSUME NEW Byte, NEW n \in Nat, NEW b \in Buffers(Byte, n),
           NEW c, c = buffer_compact(b)
    PROVE  /\ c \in Buffers(Byte, n)
           /\ Rewound(c)
           /\ buffer_read_ptr(c) = buffer_read_ptr(b)
           /\ \A i \in 1..buffer_read_ptr(b) : Pending(c, i) = Pending(b, i)
<1> DEFINE m == b.write - b.read
           dat == [i \in 0..(n-1) |-> IF i < m THEN b.data[b.read + i] ELSE b.data[i]]
<1>1. /\ b.data \in [0..(n-1) -> Byte]
      /\ b.read \in Nat /\ b.write \in Nat /\ b.limit = n
      /\ b.read <= b.write /\ b.write <= n
    BY BufferFields
<1>r. b = [data |-> b.data, read |-> b.read, write |-> b.write, limit |-> n]
    BY BufferFields
<1>2. CASE b.read = 0
    BY <1>1, <1>2 DEF buffer_compact, Rewound
<1>3. CASE b.read # 0 /\ b.read = b.write
    <2>1. c = [data |-> b.data, read |-> 0, write |-> 0, limit |-> n]
        BY <1>1, <1>r, <1>3 DEF buffer_compact
    <2>2. c \in Buffers(Byte, n)
        BY <1>1, <2>1, BufferIntro
    <2> QED BY <1>1, <1>3, <2>1, <2>2 DEF Rewound, buffer_read_ptr
<1>4. CASE b.read # 0 /\ b.read # b.write
    <2>1. DOMAIN b.data = 0..(n-1)
        BY <1>1
    <2>2. c = [data |-> dat, read |-> 0, write |-> m, limit |-> n]
        BY <1>1, <1>r, <1>4, <2>1 DEF buffer_compact
    <2>3. dat \in [0..(n-1) -> Byte] /\ m \in Nat /\ m <= n
        BY <1>1
    <2>4. c \in Buffers(Byte, n)
        <3> HIDE DEF dat, m
        <3> QED BY <2>2, <2>3, BufferIntro
    <2>5. c.read = 0 /\ c.write = m /\ c.data = dat
        BY <2>2
    <2>6. ASSUME NEW i \in 1..buffer_read_ptr(b) PROVE Pending(c, i) = Pending(b, i)
        <3>1. i - 1 \in 0..(n-1) /\ i - 1 < m /\ 0 + i - 1 = i - 1
              /\ b.read + (i - 1) = b.read + i - 1
            BY <1>1 DEF buffer_read_ptr
        <3>2. dat[i - 1] = b.data[b.read + (i - 1)]
            BY <3>1
        <3> HIDE DEF dat, m
        <3> QED BY <2>5, <3>1, <3>2 DEF Pending
    <2>7. Rewound(c) /\ buffer_read_ptr(c) = buffer_read_ptr(b)
        BY <1>1, <1>4, <2>5 DEF Rewound, buffer_read_ptr
    <2> QED BY <2>4, <2>6, <2>7
<1> QED BY <1>2, <1>3, <1>4

\* buffer_read_adv drops the k oldest bytes; a drained buffer is rewound.
LEMMA ReadAdvDrops ==
    ASSUME NEW Byte, NEW n \in Nat, NEW b \in Buffers(Byte, n),
           NEW k \in Nat, k <= buffer_read_ptr(b),
           NEW c, c = buffer_read_adv(b, k)
    PROVE  /\ c \in Buffers(Byte, n)
           /\ Rewound(c)
           /\ buffer_read_ptr(c) = buffer_read_ptr(b) - k
           /\ \A i \in 1..(buffer_read_ptr(b) - k) : Pending(c, i) = Pending(b, k + i)
<1> DEFINE adv == [b EXCEPT !.read = @ + k]
<1>1. /\ b.data \in [0..(n-1) -> Byte]
      /\ b.read \in Nat /\ b.write \in Nat /\ b.limit = n
      /\ b.read <= b.write /\ b.write <= n
    BY BufferFields
<1>r. b = [data |-> b.data, read |-> b.read, write |-> b.write, limit |-> n]
    BY BufferFields
<1>2. b.read + k <= b.write
    BY <1>1 DEF buffer_read_ptr
<1>3. adv = [data |-> b.data, read |-> b.read + k, write |-> b.write, limit |-> n]
    BY <1>r
<1>4. adv \in Buffers(Byte, n)
    <2> HIDE DEF adv
    <2> QED BY <1>1, <1>2, <1>3, BufferIntro
<1>5. CASE b.read + k = b.write
    <2>1. c = buffer_compact(adv)
        BY <1>1, <1>r, <1>3, <1>5 DEF buffer_read_adv
    <2>2. c \in Buffers(Byte, n) /\ Rewound(c) /\ buffer_read_ptr(c) = buffer_read_ptr(adv)
        <3> HIDE DEF adv
        <3> QED BY <1>4, <2>1, CompactKeeps
    <2>3. buffer_read_ptr(adv) = 0 /\ buffer_read_ptr(b) - k = 0
        BY <1>1, <1>3, <1>5 DEF buffer_read_ptr
    <2> QED BY <2>2, <2>3
<1>6. CASE b.read + k # b.write
    <2>1. c = adv
        BY <1>1, <1>r, <1>3, <1>6 DEF buffer_read_adv
    <2>2. c.read = b.read + k /\ c.write = b.write /\ c.data = b.data
        BY <1>3, <2>1
    <2>3. ASSUME NEW i \in 1..(buffer_read_ptr(b) - k) PROVE Pending(c, i) = Pending(b, k + i)
        <3>1. (b.read + k) + i - 1 = b.read + (k + i) - 1
            BY <1>1 DEF buffer_read_ptr
        <3> QED BY <2>2, <3>1 DEF Pending
    <2>4. Rewound(c) /\ buffer_read_ptr(c) = buffer_read_ptr(b) - k
        BY <1>1, <1>6, <2>2 DEF Rewound, buffer_read_ptr
    <2> QED BY <1>4, <2>1, <2>3, <2>4
<1> QED BY <1>5, <1>6

\* The pending bytes as a sequence.
LEMMA ContentsUnique ==
    ASSUME NEW Byte, NEW b, NEW q \in Seq(Byte), Len(q) = buffer_read_ptr(b),
           \A i \in 1..Len(q) : q[i] = Pending(b, i)
    PROVE  Contents(b) = q
BY DEF Contents
=============================================================================
