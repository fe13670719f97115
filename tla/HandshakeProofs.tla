--------------------------- MODULE HandshakeProofs ---------------------------
(***************************************************************************)
(* Byte streams that are cut anywhere: what the three parsers of the       *)
(* handshake have made of the bytes they took, and what the stages answer. *)
(* The argument is one invariant per parser, Good, that gives its state as *)
(* a function of the bytes fed since the stage began.  A consume loop is a *)
(* recursive function of the number of bytes; that it keeps Good is an     *)
(* induction by the least counterexample, made once for the three loops.   *)
(***************************************************************************)
EXTENDS Handshake, DataLemmas, SequenceTheorems

\* The bytes of a connection.
Streams == Seq(Byte)

-----------------------------------------------------------------------------

(* The three loops *)

Done(kind, p) ==
    \/ kind = "hello" /\ hello_is_done(p)
    \/ kind = "list" /\ is_done(p)
    \/ kind = "request" /\ p.state = "request_done"

Feed(kind, p, b) ==
    CASE kind = "hello"   -> hello_parser_feed(p, b)
      [] kind = "list"    -> parser_feed(p, b)
      [] kind = "request" -> request_parser_feed(p, b)

Fresh(p) == [parser |-> p, taken |-> 0]

\* What the loop makes of byte b, the k-th, after x.
Step(kind, x, b, k) ==
    IF Done(kind, x.parser) THEN x
    ELSE [parser |-> Feed(kind, x.parser, b), taken |-> k]

\* g is what the loop makes of the first n bytes.
Runs(g, kind, p, bytes, n) ==
    g = [k \in 0..n |-> IF k = 0 THEN Fresh(p) ELSE Step(kind, g[k - 1], bytes[k], k)]

\* There is one for every number of bytes.
LEMMA RunsExist ==
    ASSUME NEW kind, NEW p, NEW bytes, NEW n \in Nat
    PROVE  \E g : Runs(g, kind, p, bytes, n)
<1> DEFINE S == {k \in Nat : ~\E g : Runs(g, kind, p, bytes, k)}
<1>1. S = {}
  <2> SUFFICES ASSUME S # {} PROVE FALSE
    OBVIOUS
  <2>1. PICK m \in S : \A k \in S : m <= k
    BY LeastNat
  <2>2. CASE m = 0
    <3> DEFINE g == [k \in 0..0 |-> Fresh(p)]
    <3>1. \A k \in 0..0 : k = 0
      OBVIOUS
    <3>2. g = [k \in 0..0 |-> IF k = 0 THEN Fresh(p) ELSE Step(kind, g[k - 1], bytes[k], k)]
      BY <3>1
    <3> HIDE DEF g
    <3>3. Runs(g, kind, p, bytes, 0)
      BY <3>2 DEF Runs
    <3> QED
      BY <2>2, <3>3
  <2>3. CASE m # 0
    <3>1. m - 1 \in Nat /\ m - 1 \notin S
      BY <2>1, <2>3
    <3>2. PICK g : Runs(g, kind, p, bytes, m - 1)
      BY <3>1
    <3>3. g = [k \in 0..(m - 1) |-> IF k = 0 THEN Fresh(p)
                                    ELSE Step(kind, g[k - 1], bytes[k], k)]
      BY <3>2 DEF Runs
    <3> DEFINE h == [k \in 0..m |-> IF k = m THEN Step(kind, g[m - 1], bytes[m], m) ELSE g[k]]
    <3>4. ASSUME NEW k \in 0..m
          PROVE  h[k] = IF k = 0 THEN Fresh(p) ELSE Step(kind, h[k - 1], bytes[k], k)
      <4>1. CASE k = m
        <5>1. h[k - 1] = g[m - 1] /\ k # 0
          BY <2>3, <3>1, <4>1
        <5> QED
          BY <4>1, <5>1
      <4>2. CASE k # m
        <5>1. k \in 0..(m - 1) /\ h[k] = g[k]
          BY <3>1, <4>2
        <5>2. g[k] = IF k = 0 THEN Fresh(p) ELSE Step(kind, g[k - 1], bytes[k], k)
          BY <3>3, <5>1
        <5>3. k # 0 => h[k - 1] = g[k - 1]
          BY <3>1, <5>1
        <5> QED
          BY <5>1, <5>2, <5>3
      <4> QED
        BY <4>1, <4>2
    <3>5. h = [k \in 0..m |-> h[k]]
      OBVIOUS
    <3> HIDE DEF h
    <3>6. h = [k \in 0..m |-> IF k = 0 THEN Fresh(p) ELSE Step(kind, h[k - 1], bytes[k], k)]
      BY <3>4, <3>5
    <3>7. Runs(h, kind, p, bytes, m)
      BY <3>6 DEF Runs
    <3> QED
      BY <2>1, <3>7
  <2> QED
    BY <2>2, <2>3
<1> QED
  BY <1>1

\* r is what the loop of this kind makes of all the bytes.
Consumed(r, kind, p, bytes) ==
    \E g : Runs(g, kind, p, bytes, Len(bytes)) /\ r = g[Len(bytes)]

LEMMA HelloConsumed ==
    ASSUME NEW p, NEW bytes \in Streams
    PROVE  Consumed(hello_consume(p, bytes), "hello", p, bytes)
<1> DEFINE n == Len(bytes)
           Is(g) == g = [k \in 0..n |->
              IF k = 0 THEN [parser |-> p, taken |-> 0]
              ELSE LET before == g[k - 1]
                   IN IF hello_is_done(before.parser) THEN before
                      ELSE [parser |-> hello_parser_feed(before.parser, bytes[k]), taken |-> k]]
           f == CHOOSE g : Is(g)
<1>1. hello_consume(p, bytes) = f[n]
  BY DEF hello_consume
<1>2. \A g : Is(g) <=> Runs(g, "hello", p, bytes, n)
  BY DEF Runs, Step, Feed, Done, Fresh
<1>3. \E g : Is(g)
  <2>1. n \in Nat
    OBVIOUS
  <2>2. PICK g : Runs(g, "hello", p, bytes, n)
    BY <2>1, RunsExist
  <2> QED
    BY <1>2, <2>2
<1>4. Is(f)
  BY <1>3
<1> HIDE DEF f, Is
<1>5. Runs(f, "hello", p, bytes, n)
  BY <1>2, <1>4
<1> QED
  BY <1>1, <1>5 DEF Consumed

\* The same for the lists of myParser.c and for the request.
LEMMA ListConsumed ==
    ASSUME NEW p, NEW bytes \in Streams
    PROVE  Consumed(consume(p, bytes), "list", p, bytes)
<1> DEFINE n == Len(bytes)
           Is(g) == g = [k \in 0..n |->
              IF k = 0 THEN [parser |-> p, taken |-> 0]
              ELSE LET before == g[k - 1]
                   IN IF is_done(before.parser) THEN before
                      ELSE [parser |-> parser_feed(before.parser, bytes[k]), taken |-> k]]
           f == CHOOSE g : Is(g)
<1>1. consume(p, bytes) = f[n]
  BY DEF consume
<1>2. \A g : Is(g) <=> Runs(g, "list", p, bytes, n)
  BY DEF Runs, Step, Feed, Done, Fresh
<1>3. \E g : Is(g)
  <2>1. n \in Nat
    OBVIOUS
  <2>2. PICK g : Runs(g, "list", p, bytes, n)
    BY <2>1, RunsExist
  <2> QED
    BY <1>2, <2>2
<1>4. Is(f)
  BY <1>3
<1> HIDE DEF f, Is
<1>5. Runs(f, "list", p, bytes, n)
  BY <1>2, <1>4
<1> QED
  BY <1>1, <1>5 DEF Consumed

LEMMA RequestConsumed ==
    ASSUME NEW p, NEW bytes \in Streams
    PROVE  Consumed(request_consume(p, bytes), "request", p, bytes)
<1> DEFINE n == Len(bytes)
           Is(g) == g = [k \in 0..n |->
              IF k = 0 THEN [parser |-> p, taken |-> 0]
              ELSE LET before == g[k - 1]
                   IN IF before.parser.state = "request_done" THEN before
                      ELSE [parser |-> request_parser_feed(before.parser, bytes[k]), taken |-> k]]
           f == CHOOSE g : Is(g)
<1>1. request_consume(p, bytes) = f[n]
  BY DEF request_consume
<1>2. \A g : Is(g) <=> Runs(g, "request", p, bytes, n)
  BY DEF Runs, Step, Feed, Done, Fresh
<1>3. \E g : Is(g)
  <2>1. n \in Nat
    OBVIOUS
  <2>2. PICK g : Runs(g, "request", p, bytes, n)
    BY <2>1, RunsExist
  <2> QED
    BY <1>2, <2>2
<1>4. Is(f)
  BY <1>3
<1> HIDE DEF f, Is
<1>5. Runs(f, "request", p, bytes, n)
  BY <1>2, <1>4
<1> QED
  BY <1>1, <1>5 DEF Consumed

\* The bytes taken so far, and one more.
LEMMA TakeOneMore ==
    ASSUME NEW S, NEW s \in Seq(S), NEW t \in Seq(S), NEW k \in 1..Len(t)
    PROVE  /\ SubSeq(t, 1, k - 1) \in Seq(S) /\ s \o SubSeq(t, 1, k - 1) \in Seq(S)
           /\ s \o SubSeq(t, 1, k) = Append(s \o SubSeq(t, 1, k - 1), t[k])
<1> DEFINE u == SubSeq(t, 1, k - 1)
<1>1. \A i \in 1..Len(t) : t[i] \in S
  BY ElementOfSeq
<1>2. u \in Seq(S)
  <2>1. \A i \in 1..(k - 1) : t[i] \in S
    BY <1>1
  <2> QED
    BY <2>1, SubSeqProperties
<1>3. SubSeq(t, 1, k) = u \o <<t[k]>>
  <2>1. 1 \in 1..Len(t) /\ k \in 1..Len(t)
    OBVIOUS
  <2> QED
    BY <2>1, SubSeqRecursiveSecond
<1>4. s \o u \in Seq(S)
  BY <1>2, ConcatProperties
<1> HIDE DEF u
<1>5. t[k] \in S /\ <<t[k]>> \in Seq(S)
  BY <1>1
<1>6. s \o (u \o <<t[k]>>) = (s \o u) \o <<t[k]>>
  BY <1>2, <1>5, ConcatAssociative
<1>7. Append(s \o u, t[k]) = (s \o u) \o <<t[k]>>
  BY <1>4, <1>5, AppendIsConcat
<1> QED
  BY <1>2, <1>3, <1>4, <1>6, <1>7 DEF u

-----------------------------------------------------------------------------
(* The invariants of the parsers *)

\* Byte i of a stream, or of a field, and substate i of a list.
At(s, i) == s[i]
Sub(p, i) == p.states[i]

\* hello.c: the state of the greeting's parser after the bytes s.
HelloParser(c) ==
    [state : {"hello_version", "hello_nmethods", "hello_methods", "hello_done",
              "hello_error_unsupported_version"},
     remaining : 0..255, version : {c.version}, wanted : {c.wanted},
     method : {c.wanted, METHOD_NO_ACCEPTABLE_METHODS}]

\* The method for the greeting s, so far.
Chosen(c, s) ==
    IF \E i \in 3..Len(s) : At(s, i) = c.wanted THEN c.wanted ELSE METHOD_NO_ACCEPTABLE_METHODS

HelloGood(c, p, s) ==
    /\ p \in HelloParser(c)
    /\ \/ p.state = "hello_version" /\ s = << >> /\ p.method = METHOD_NO_ACCEPTABLE_METHODS
       \/ /\ p.state = "hello_nmethods" /\ Len(s) = 1 /\ At(s, 1) = c.version
          /\ p.method = METHOD_NO_ACCEPTABLE_METHODS
       \/ /\ p.state = "hello_methods" /\ Len(s) >= 2 /\ At(s, 1) = c.version
          /\ p.remaining > 0 /\ Len(s) + p.remaining = At(s, 2) + 2 /\ p.method = Chosen(c, s)
       \/ /\ p.state = "hello_done" /\ Len(s) >= 2 /\ At(s, 1) = c.version
          /\ Len(s) = At(s, 2) + 2 /\ p.method = Chosen(c, s)
       \/ p.state = "hello_error_unsupported_version"

\* request_parser.c.  An empty name takes a byte all the same.
RequestFields == {"state", "remaining", "read", "type", "addr", "size", "port"}
AddrBytes(s) == IF EmptyName(s) THEN 1 ELSE AddrLen(s)
PortStart(s) == AddrStart(s) + AddrBytes(s)

\* Everything before the address stands in s, and is accepted.
Addressed(s) ==
    /\ Len(s) >= 4 /\ At(s, 1) = VERSION /\ At(s, 2) = socks_req_cmd_connect
    /\ At(s, 4) \in {socks_req_addrtype_ipv4, socks_req_addrtype_domain, socks_req_addrtype_ipv6}
    /\ At(s, 4) = socks_req_addrtype_domain => Len(s) >= 5 /\ At(s, 5) < MAX_FQDN_SIZE

IsCells(f) == f = [i \in DOMAIN f |-> f[i]]
Cells(f, s, k, n) == \A i \in 0..(n - 1) : i \in DOMAIN f /\ At(f, i) = At(s, k + i)

\* The first n bytes of the address are in place, and nothing lies outside but
\* the terminator of an empty name.
AddressIn(p, s, n) ==
    /\ p.type = At(s, 4) /\ IsCells(p.addr) /\ Cells(p.addr, s, AddrStart(s), n)
    /\ IF At(s, 4) = socks_req_addrtype_domain
       THEN p.size = At(s, 5)
            /\ DOMAIN p.addr \subseteq OutsideHost(s) \cup 0..(MAX_FQDN_SIZE - 1)
       ELSE DOMAIN p.addr = 0..(AddrLen(s) - 1)

PortIn(p, s, n) ==
    IsCells(p.port) /\ DOMAIN p.port = 0..1 /\ Cells(p.port, s, PortStart(s), n)

Begins(p, s, n) ==
    /\ Len(s) = n /\ p.addr = None /\ p.port = None /\ p.type = 0
    /\ n >= 1 => At(s, 1) = VERSION
    /\ n >= 2 => At(s, 2) = socks_req_cmd_connect

RequestGood(p, s) ==
    /\ p = [g \in RequestFields |-> p[g]]
    /\ \/ p.state = "request_version" /\ Begins(p, s, 0)
       \/ p.state = "request_cmd" /\ Begins(p, s, 1)
       \/ p.state = "request_rsv" /\ Begins(p, s, 2)
       \/ p.state = "request_atyp" /\ Begins(p, s, 3)
       \/ /\ p.state = "request_dest_addr_fqdn" /\ p.addr = None /\ p.port = None
          /\ Len(s) = 4 /\ At(s, 1) = VERSION /\ At(s, 2) = socks_req_cmd_connect
          /\ At(s, 4) = socks_req_addrtype_domain /\ p.type = At(s, 4)
       \/ /\ p.state = "request_dest_addr" /\ p.port = None
          /\ Addressed(s) /\ AddressIn(p, s, p.read)
          /\ p.remaining = AddrLen(s) /\ p.read \in 0..(AddrBytes(s) - 1)
          /\ Len(s) = AddrStart(s) - 1 + p.read
       \/ /\ p.state = "request_dest_port"
          /\ Addressed(s) /\ AddressIn(p, s, AddrBytes(s)) /\ PortIn(p, s, p.read)
          /\ p.remaining = 2 /\ p.read \in 0..1
          /\ Len(s) = PortStart(s) - 1 + p.read
       \/ /\ p.state = "request_done"
          /\ Addressed(s) /\ AddressIn(p, s, AddrBytes(s)) /\ PortIn(p, s, 2)
          /\ Len(s) = PortStart(s) + 1
       \/ p.state \in ErrorStates /\ Malformed(s) /\ p.addr = None /\ p.port = None

\* myParser.c.  A list is a byte, if it has c.lead, and c.texts texts with
\* their counts; the first count stands at position First + 1.
Lead(c) == IF c.lead THEN 1 ELSE 0
Size(c) == Lead(c) + 2 * c.texts
CountOf(c, j) == Lead(c) + 2 * j - 1
CountAt(c, s, j) == IF j = 1 THEN Lead(c) + 1 ELSE After(s, Lead(c) + 1)

SubFields == {"state", "size", "remaining", "result", "check"}
IsSub(sub) ==
    /\ sub = [g \in SubFields |-> sub[g]] /\ IsCells(sub.result)
    /\ DOMAIN sub.result \subseteq 0..sub.size

ListParser(c, p) ==
    /\ p = [g \in {"states", "index", "current"} |-> p[g]]
    /\ p.states = [i \in 1..Size(c) |-> Sub(p, i)]
    /\ \A i \in 1..Size(c) : IsSub(Sub(p, i))
    /\ c.lead => Sub(p, 1).state = "long_read" /\ Sub(p, 1).check = c.check
    /\ \A j \in 1..c.texts :
          /\ Sub(p, CountOf(c, j)).state = "read_N"
          /\ Sub(p, CountOf(c, j) + 1).state = "long_read"
          /\ Sub(p, CountOf(c, j) + 1).check = {}

\* The text whose count stands at k is in its memory, ended by a NUL.
TextIn(sub, s, k) ==
    /\ Len(s) >= k /\ Len(s) + 1 >= After(s, k)
    /\ sub.size = At(s, k) /\ Cells(sub.result, s, k + 1, At(s, k))
    /\ At(s, k) \in DOMAIN sub.result /\ At(sub.result, At(s, k)) = 0

\* The lead byte and the first n texts are in place.
ListIn(c, p, s, n) ==
    /\ c.lead => /\ Len(s) >= 1 /\ 0 \in DOMAIN Sub(p, 1).result
                 /\ At(Sub(p, 1).result, 0) = At(s, 1) /\ (c.check # {} => At(s, 1) \in c.check)
    /\ \A j \in 1..n : TextIn(Sub(p, CountOf(c, j) + 1), s, CountAt(c, s, j))

ListGood(c, p, s) ==
    /\ ListParser(c, p)
    /\ \/ /\ c.lead /\ p.index = 1 /\ p.current = "long_read" /\ s = << >>
          /\ Sub(p, 1).size = 1 /\ Sub(p, 1).remaining = 1 /\ Sub(p, 1).result = << >>
       \/ \E j \in 1..c.texts :
          /\ p.index = CountOf(c, j) /\ p.current = "read_N"
          /\ ListIn(c, p, s, j - 1) /\ Len(s) + 1 = CountAt(c, s, j)
       \/ \E j \in 1..c.texts :
          LET sub == Sub(p, p.index)
              k == CountAt(c, s, j)
          IN /\ p.index = CountOf(c, j) + 1 /\ p.current = "long_read"
             /\ ListIn(c, p, s, j - 1) /\ Len(s) >= k
             /\ sub.size = At(s, k) /\ sub.remaining \in 1..255 /\ Len(s) + sub.remaining + 1 = After(s, k)
             /\ Cells(sub.result, s, k + 1, Len(s) - k)
       \/ /\ p.index = Size(c) + 1 /\ p.current = "done_read"
          /\ ListIn(c, p, s, c.texts)
          /\ Len(s) + 1 = IF c.texts = 0 THEN 2 ELSE After(s, CountAt(c, s, c.texts))
       \/ c.lead /\ c.check # {} /\ p.index = 1 /\ p.current = "error_read" /\ s # << >>

\* What kind of parser c made of the bytes s.  A request that is refused stays
\* as it is, whatever follows.
Good(c, p, s) ==
    \/ c.kind = "hello" /\ HelloGood(c, p, s)
    \/ c.kind = "list" /\ ListGood(c, p, s)
    \/ c.kind = "request" /\ ~c.stuck /\ RequestGood(p, s)
    \/ c.kind = "request" /\ c.stuck /\ p = c.parser /\ p.state \in ErrorStates

\* What keeps Good for one byte keeps it for a whole read, and a read that
\* does not end the message takes every byte.
LEMMA RunGood ==
    ASSUME NEW c, NEW p, NEW s \in Streams, NEW bytes \in Streams, Good(c, p, s),
           \A q : \A b \in Byte, t \in Streams :
              Good(c, q, t) /\ ~Done(c.kind, q) => Good(c, Feed(c.kind, q, b), Append(t, b)),
           NEW r, Consumed(r, c.kind, p, bytes)
    PROVE  /\ r.taken \in 0..Len(bytes)
           /\ Good(c, r.parser, s \o SubSeq(bytes, 1, r.taken))
           /\ ~Done(c.kind, r.parser) => r.taken = Len(bytes)
<1> DEFINE n == Len(bytes)
           Ok(k, x) == /\ x.taken \in 0..k
                       /\ Good(c, x.parser, s \o SubSeq(bytes, 1, x.taken))
                       /\ ~Done(c.kind, x.parser) => x.taken = k
<1>1. PICK g : Runs(g, c.kind, p, bytes, n) /\ r = g[n]
  BY DEF Consumed
<1>2. g = [k \in 0..n |-> IF k = 0 THEN Fresh(p) ELSE Step(c.kind, g[k - 1], bytes[k], k)]
  BY <1>1 DEF Runs
<1>3. n \in Nat
  OBVIOUS
<1>4. Ok(0, Fresh(p))
  <2>1. SubSeq(bytes, 1, 0) = << >>
    BY SubSeqEmpty
  <2>2. s \o << >> = s
    BY ConcatEmptySeq
  <2>3. Fresh(p).taken = 0 /\ Fresh(p).parser = p
    BY DEF Fresh
  <2>4. Good(c, Fresh(p).parser, s \o SubSeq(bytes, 1, 0))
    BY <2>1, <2>2, <2>3
  <2> QED
    BY <2>3, <2>4
<1>5. ASSUME NEW k \in 1..n, NEW x, Ok(k - 1, x) PROVE Ok(k, Step(c.kind, x, bytes[k], k))
  <2>1. CASE Done(c.kind, x.parser)
    BY <1>3, <1>5, <2>1 DEF Step
  <2>2. CASE ~Done(c.kind, x.parser)
    <3> DEFINE t == s \o SubSeq(bytes, 1, k - 1)
               q == Feed(c.kind, x.parser, bytes[k])
    <3>1. t \in Streams /\ bytes[k] \in Byte /\ s \o SubSeq(bytes, 1, k) = Append(t, bytes[k])
      <4>1. k \in 1..Len(bytes)
        OBVIOUS
      <4> QED
        BY <4>1, TakeOneMore, ElementOfSeq DEF Streams
    <3>2. Good(c, x.parser, t)
      BY <1>5, <2>2
    <3> HIDE DEF t
    <3>3. Good(c, q, s \o SubSeq(bytes, 1, k))
      BY <2>2, <3>1, <3>2
    <3>4. Step(c.kind, x, bytes[k], k) = [parser |-> q, taken |-> k]
      BY <2>2 DEF Step
    <3> QED
      BY <1>3, <3>3, <3>4
  <2> QED
    BY <2>1, <2>2
<1> HIDE DEF Ok, n
<1>6. \A k \in 0..n : Ok(k, g[k])
  <2> DEFINE S == {k \in 0..n : ~Ok(k, g[k])}
  <2> SUFFICES ASSUME S # {} PROVE FALSE
    OBVIOUS
  <2>1. PICK m \in S : \A k \in S : m <= k
    <3>1. S \subseteq Nat
      BY <1>3
    <3> QED
      BY <3>1, LeastNat
  <2>2. CASE m = 0
    BY <1>2, <1>4, <2>1, <2>2
  <2>3. CASE m # 0
    <3>1. m \in 1..n /\ m - 1 \in 0..n /\ m - 1 \notin S
      BY <1>3, <2>1, <2>3
    <3>2. g[m] = Step(c.kind, g[m - 1], bytes[m], m)
      BY <1>2, <2>3, <3>1
    <3> QED
      BY <1>5, <2>1, <3>1, <3>2
  <2> QED
    BY <2>2, <2>3
<1>7. Ok(n, r)
  BY <1>1, <1>3, <1>6
<1> QED
  BY <1>7 DEF Ok, n

-----------------------------------------------------------------------------
(* The invariant of the connection *)

Greeting == [kind |-> "hello", version |-> Version, wanted |-> Wanted]
Login == [kind |-> "list", lead |-> TRUE, check |-> checkVersion, texts |-> 2]
Index == [kind |-> "list", lead |-> TRUE, check |-> checkIndex, texts |-> 0]
Command(index) ==
    [kind |-> "list", lead |-> index \in OnOff, check |-> {},
     texts |-> CASE index = add_user -> 2 [] index = delete_user -> 1 [] OTHER -> 0]
Request == [kind |-> "request", stuck |-> FALSE]

Buffered(b, size) ==
    /\ b = [g \in {"bytes", "write"} |-> b[g]] /\ b.bytes \in Seq(0..255)
    /\ b.write \in 0..size /\ Len(b.bytes) <= b.write
    /\ b.bytes = << >> => b.write = 0

Types ==
    /\ isSocks \in BOOLEAN
    /\ auth_method \in {METHOD_NO_AUTHENTICATION_REQUIRED, METHOD_USERNAME_PASSWORD}
    /\ stage \in ReadStages \cup WriteStages \cup LastStages
    /\ Buffered(rb, RbSize) /\ Buffered(wb, WbSize)
    /\ rb.bytes \in Streams
    /\ authentication \in {0, 1}
    /\ fed \in Streams /\ got \in Seq(0..255)

\* What was sent, and is to be sent, since the last recv().
Said == got \o wb.bytes

\* The client was told to go on, and nothing is left to say.
Admitted ==
    /\ wb = Empty
    /\ \/ got = << >>
       \/ isSocks /\ auth_method = 0 /\ got = <<Version, 0>>
       \/ Wanted = METHOD_USERNAME_PASSWORD /\ Repeats(got, <<1, 0>>)

\* What each stage holds.
HelloReading ==
    /\ HelloGood(Greeting, parser, fed) /\ ~hello_is_done(parser)
    /\ wb = Empty /\ got = << >> /\ result = None
HelloAnswering ==
    /\ HelloGood(Greeting, parser, fed) /\ parser.state = "hello_done"
    /\ Said = <<Version, parser.method>> /\ result = None
LoginReading ==
    /\ ListGood(Login, parser, fed) /\ ~is_done(parser)
    /\ Wanted = METHOD_USERNAME_PASSWORD /\ wb = Empty
    /\ got \in {<< >>, <<Version, METHOD_USERNAME_PASSWORD>>} /\ result = None
LoginAnswering ==
    /\ ListGood(Login, parser, fed) /\ parser.current = "done_read"
    /\ authentication = checkCredentials(CString(parser, 3), CString(parser, 5))
    /\ Wanted = METHOD_USERNAME_PASSWORD
    /\ Said = << >> \/ Repeats(Said, <<1, authentication>>)
    /\ result = None
RequestReading ==
    RequestGood(parser, fed) /\ parser.state # "request_done" /\ Admitted /\ result = None
RequestDone == RequestGood(parser, fed) /\ parser.state = "request_done"
IndexReading ==
    parser = parser_init(<<OneByte(checkIndex)>>) /\ fed = << >> /\ result = None /\ Admitted
CommandReading ==
    /\ result = [index |-> result.index, texts |-> << >>]
    /\ result.index \in {add_user, delete_user} \cup OnOff
    /\ ListGood(Command(result.index), parser, fed) /\ ~is_done(parser)
CommandDone ==
    \/ result = None
    \/ result.texts = << >>
    \/ /\ result.index \in {add_user, delete_user} \cup OnOff
       /\ ListGood(Command(result.index), parser, fed) /\ parser.current = "done_read"
       /\ result.texts = Params(parser, result.index)
Refused == Said = <<Version, METHOD_NO_ACCEPTABLE_METHODS>> \/ Repeats(Said, <<1, 1>>)

Stages ==
    /\ stage = "HELLO_READ" => HelloReading
    /\ stage = "HELLO_WRITE" => HelloAnswering
    /\ stage = "USERPASS_READ" => LoginReading
    /\ stage = "USERPASS_WRITE" => LoginAnswering
    /\ stage = "REQUEST_READ" => RequestReading
    /\ stage \in {"REQUEST_CONNECTING", "REQUEST_RESOLV", "REQUEST_WRITE"} => RequestDone
    /\ stage \in {"REQUEST_CONNECTING", "REQUEST_RESOLV"} => result = Destination(parser)
    /\ stage = "MNG_REQUEST_READ_INDEX" => IndexReading
    /\ stage = "MNG_REQUEST_READ" => CommandReading
    /\ stage = "MNG_REQUEST_WRITE" => CommandDone
    /\ stage = "DONE" => Refused

HandshakeInv == Types /\ Stages

-----------------------------------------------------------------------------
(* One byte of a greeting *)

\* A byte more leaves the bytes before it where they are.
LEMMA OneMoreByte ==
    ASSUME NEW t \in Streams, NEW b \in Byte
    PROVE  LET s == Append(t, b)
           IN /\ s \in Streams /\ Len(t) \in Nat /\ Len(s) = Len(t) + 1 /\ s # << >>
              /\ \A i \in 1..Len(t) : At(s, i) = At(t, i) /\ At(t, i) \in 0..255
              /\ At(s, Len(t) + 1) = b /\ b \in 0..255
<1> DEFINE s == Append(t, b)
<1>1. \A i \in 1..Len(t) : t[i] \in 0..255
  BY ElementOfSeq, ByteAssumption DEF Streams
<1>2. b \in 0..255 /\ Len(t) \in Nat
  BY ByteAssumption DEF Streams
<1>3. s \in Streams /\ s # << >> /\ Len(s) = Len(t) + 1
      /\ (\A i \in 1..Len(t) : s[i] = t[i]) /\ s[Len(t) + 1] = b
  BY AppendProperties DEF Streams
<1> HIDE DEF s
<1>4. \A i \in 1..Len(t) : At(s, i) = At(t, i) /\ At(t, i) \in 0..255
  BY <1>1, <1>3 DEF At
<1>5. At(s, Len(t) + 1) = b
  BY <1>3 DEF At
<1> QED
  BY <1>2, <1>3, <1>4, <1>5 DEF s

LEMMA HelloFeeds ==
    ASSUME NEW c, NEW p, NEW t \in Streams, NEW b \in Byte,
           HelloGood(c, p, t), ~hello_is_done(p)
    PROVE  HelloGood(c, hello_parser_feed(p, b), Append(t, b))
<1> DEFINE s == Append(t, b)
           q == hello_parser_feed(p, b)
           L == Len(t)
<1>1. /\ s \in Streams /\ L \in Nat /\ Len(s) = L + 1
      /\ \A i \in 1..L : At(s, i) = At(t, i) /\ At(t, i) \in 0..255
      /\ At(s, L + 1) = b /\ b \in 0..255
  BY OneMoreByte
<1>2. p \in HelloParser(c)
  BY DEF HelloGood
<1> SUFFICES HelloGood(c, q, s)
  OBVIOUS
<1> HIDE DEF s, L
<1>0. L \in Nat /\ Len(s) = L + 1
  BY <1>1
<1>3. CASE p.state = "hello_version"
  <2>1. L = 0 /\ p.method = METHOD_NO_ACCEPTABLE_METHODS
    BY <1>3 DEF HelloGood, HelloParser, L
  <2>2. q = [p EXCEPT !.state = IF b = p.version THEN "hello_nmethods"
                                 ELSE "hello_error_unsupported_version"]
    BY <1>3 DEF hello_parser_feed
  <2>3. q \in HelloParser(c) /\ q.method = p.method
        /\ q.state = IF b = c.version THEN "hello_nmethods" ELSE "hello_error_unsupported_version"
    BY <1>2, <2>2 DEF HelloParser
  <2> HIDE DEF q
  <2>4. Len(s) = 1 /\ At(s, 1) = b
    BY <1>1, <2>1
  <2> QED
    BY <2>1, <2>3, <2>4 DEF HelloGood
<1>4. CASE p.state = "hello_nmethods"
  <2>1. L = 1 /\ At(t, 1) = c.version /\ p.method = METHOD_NO_ACCEPTABLE_METHODS
    BY <1>4 DEF HelloGood, L
  <2>2. q = [p EXCEPT !.remaining = b, !.state = IF b = 0 THEN "hello_done" ELSE "hello_methods"]
    BY <1>4 DEF hello_parser_feed
  <2>3. q \in HelloParser(c) /\ q.method = p.method /\ q.remaining = b
        /\ q.state = IF b = 0 THEN "hello_done" ELSE "hello_methods"
    BY <1>1, <1>2, <2>2 DEF HelloParser
  <2>4. Chosen(c, s) = METHOD_NO_ACCEPTABLE_METHODS
    BY <1>1, <2>1 DEF Chosen
  <2>5. At(s, 1) = c.version /\ At(s, 2) = b /\ Len(s) = 2
    BY <1>1, <2>1
  <2> HIDE DEF q
  <2> QED
    BY <1>1, <2>1, <2>3, <2>4, <2>5 DEF HelloGood
<1>5. CASE p.state = "hello_methods"
  <2>1. /\ L >= 2 /\ At(t, 1) = c.version /\ p.remaining > 0 /\ L + p.remaining = At(t, 2) + 2
        /\ p.method = Chosen(c, t) /\ p.remaining \in 0..255 /\ p.wanted = c.wanted
    BY <1>2, <1>5 DEF HelloGood, L, HelloParser
  <2>2. q = hello_methods(p, b)
    BY <1>5 DEF hello_parser_feed
  <2>3. /\ q \in HelloParser(c) /\ q.remaining = p.remaining - 1
        /\ q.state = IF p.remaining = 1 THEN "hello_done" ELSE "hello_methods"
        /\ q.method = IF b = c.wanted THEN c.wanted ELSE p.method
    <3> DEFINE m == on_hello_method(p, b)
    <3>1. /\ m \in HelloParser(c) /\ m.remaining = p.remaining /\ m.state = p.state
          /\ m.method = IF b = c.wanted THEN c.wanted ELSE p.method
      BY <1>2, <2>1 DEF HelloParser, on_hello_method
    <3>2. q = [m EXCEPT !.remaining = m.remaining - 1,
                        !.state = IF p.remaining = 1 THEN "hello_done" ELSE m.state]
      BY <2>2 DEF hello_methods
    <3>3. p.remaining - 1 \in 0..255
      BY <2>1
    <3> HIDE DEF m, q
    <3>4. m.remaining - 1 \in 0..255 /\ m.state = "hello_methods"
      BY <1>5, <3>1, <3>3
    <3>5. q \in HelloParser(c) /\ q.remaining = m.remaining - 1 /\ q.method = m.method
          /\ q.state = IF p.remaining = 1 THEN "hello_done" ELSE m.state
      BY <3>1, <3>2, <3>4 DEF HelloParser
    <3> QED
      BY <3>1, <3>4, <3>5
  <2>4. Chosen(c, s) = IF b = c.wanted THEN c.wanted ELSE Chosen(c, t)
    <3>1. \A i \in 3..Len(s) : i = L + 1 \/ i \in 3..L
      BY <1>1
    <3>2. L + 1 \in 3..Len(s) /\ \A i \in 3..L : i \in 3..Len(s) /\ At(s, i) = At(t, i)
      BY <1>1, <2>1
    <3>3. (\E i \in 3..Len(s) : At(s, i) = c.wanted) <=> b = c.wanted \/ \E i \in 3..L : At(t, i) = c.wanted
      BY <1>1, <3>1, <3>2
    <3> QED
      BY <3>3 DEF Chosen, L
  <2>5. At(s, 1) = c.version /\ At(s, 2) = At(t, 2) /\ At(t, 2) \in 0..255
    BY <1>1, <2>1
  <2>6. Len(s) + q.remaining = At(s, 2) + 2
    <3>1. q.remaining = p.remaining - 1
      BY <2>3
    <3>2. L + p.remaining = At(t, 2) + 2
      BY <2>1
    <3>4. p.remaining \in Int
      BY <2>1
    <3>3. At(s, 2) = At(t, 2) /\ At(t, 2) \in Int
      BY <2>5
    <3> HIDE DEF q
    <3> QED
      BY <1>0, <3>1, <3>2, <3>3, <3>4
  <2> HIDE DEF q
  <2>7. q.method = Chosen(c, s) /\ Len(s) >= 2
    BY <1>1, <2>1, <2>3, <2>4
  <2>8. CASE p.remaining = 1
    <3>1. q.state = "hello_done" /\ Len(s) = At(s, 2) + 2 /\ At(s, 1) = c.version
      BY <2>3, <2>5, <2>6, <2>8
    <3> QED
      BY <2>3, <2>7, <3>1 DEF HelloGood
  <2>9. CASE p.remaining # 1
    <3>0. p.remaining - 1 > 0
      BY <2>1, <2>9
    <3>1. q.state = "hello_methods" /\ q.remaining > 0 /\ At(s, 1) = c.version
      BY <2>3, <2>5, <2>9, <3>0
    <3> QED
      BY <2>3, <2>6, <2>7, <3>1 DEF HelloGood
  <2> QED
    BY <2>8, <2>9
<1> QED
  BY <1>2, <1>3, <1>4, <1>5 DEF HelloParser, hello_is_done

-----------------------------------------------------------------------------
(* One byte of a request *)

\* The layout of a request, by its bytes.
LEMMA AddressLayout ==
    ASSUME NEW s
    PROVE  /\ AddrStart(s) = IF At(s, 4) = socks_req_addrtype_domain THEN 6 ELSE 5
           /\ At(s, 4) = socks_req_addrtype_ipv4 => AddrLen(s) = IPV4_LEN
           /\ At(s, 4) = socks_req_addrtype_ipv6 => AddrLen(s) = IPV6_LEN
           /\ At(s, 4) = socks_req_addrtype_domain => AddrLen(s) = At(s, 5)
BY DEF At, AddrStart, AddrLen, socks_req_addrtype_ipv4, socks_req_addrtype_domain,
       socks_req_addrtype_ipv6

LEMMA EmptyNameLayout ==
    ASSUME NEW s
    PROVE  EmptyName(s) <=>
              Len(s) >= 5 /\ At(s, 4) = socks_req_addrtype_domain /\ At(s, 5) = 0
BY DEF At, EmptyName

LEMMA MalformedLayout ==
    ASSUME NEW s
    PROVE  Malformed(s) <=>
              \/ Len(s) >= 1 /\ At(s, 1) # VERSION
              \/ Len(s) >= 2 /\ At(s, 2) # socks_req_cmd_connect
              \/ Len(s) >= 4 /\ At(s, 4) \notin {socks_req_addrtype_ipv4,
                    socks_req_addrtype_domain, socks_req_addrtype_ipv6}
              \/ Len(s) >= 5 /\ At(s, 4) = socks_req_addrtype_domain /\ At(s, 5) >= MAX_FQDN_SIZE
BY DEF At, Malformed

\* What is malformed stays so.
LEMMA MalformedOn ==
    ASSUME NEW t \in Streams, NEW b \in Byte, Malformed(t)
    PROVE  Malformed(Append(t, b))
<1> DEFINE s == Append(t, b)
<1>1. /\ Len(t) \in Nat /\ Len(s) = Len(t) + 1
      /\ \A i \in 1..Len(t) : At(s, i) = At(t, i)
  BY OneMoreByte
<1> HIDE DEF s
<1>2. \A n \in {1, 2, 4, 5} : Len(t) >= n => Len(s) >= n /\ At(s, n) = At(t, n)
  BY <1>1
<1>3. Len(t) >= 5 => At(s, 4) = At(t, 4)
  BY <1>1
<1> HIDE DEF s
<1>4. Malformed(s)
  BY <1>2, <1>3, MalformedLayout
<1> QED
  BY <1>4 DEF s

LEMMA StoredDomain ==
    ASSUME NEW f, NEW i, NEW b
    PROVE  DOMAIN Store(f, i, b) = DOMAIN f \cup {i}
BY DEF Store

LEMMA StoredIsCells ==
    ASSUME NEW f, NEW i, NEW b
    PROVE  IsCells(Store(f, i, b))
BY DEF Store, IsCells

LEMMA StoredCell ==
    ASSUME NEW f, NEW i, NEW b
    PROVE  At(Store(f, i, b), i) = b
BY DEF Store, At

LEMMA OtherCells ==
    ASSUME NEW f, NEW i, NEW b, NEW k \in DOMAIN f, k # i
    PROVE  At(Store(f, i, b), k) = At(f, k)
BY DEF Store, At

\* The next cell of a field is stored.
LEMMA StoredNext ==
    ASSUME NEW f, NEW s, NEW t, NEW k \in Nat, NEW n \in Nat, NEW b, Cells(f, t, k, n),
           \A i \in 0..(n - 1) : At(s, k + i) = At(t, k + i), At(s, k + n) = b
    PROVE  Cells(Store(f, n, b), s, k, n + 1)
<1> DEFINE g == Store(f, n, b)
<1>1. DOMAIN g = DOMAIN f \cup {n}
  BY StoredDomain
<1>5. At(g, n) = b
  BY StoredCell
<1>4. \A i \in DOMAIN f : i # n => At(g, i) = At(f, i)
  BY OtherCells
<1> HIDE DEF g
<1>2. ASSUME NEW i \in 0..n PROVE i \in DOMAIN g /\ At(g, i) = At(s, k + i)
  <2>1. CASE i = n
    BY <1>1, <1>5, <2>1
  <2>2. CASE i # n
    <3>1. i \in 0..(n - 1)
      BY <2>2
    <3>2. i \in DOMAIN f /\ At(f, i) = At(t, k + i)
      BY <3>1 DEF Cells
    <3> QED
      BY <1>1, <1>4, <2>2, <3>1, <3>2
  <2> QED
    BY <2>1, <2>2
<1>3. n + 1 - 1 = n
  OBVIOUS
<1> QED
  BY <1>2, <1>3 DEF Cells, g

LEMMA GotoFields ==
    ASSUME NEW p, p = [g \in RequestFields |-> p[g]], NEW st
    PROVE  LET q == Goto(p, st)
           IN /\ q = [g \in RequestFields |-> q[g]] /\ q.state = st
              /\ q.type = p.type /\ q.addr = p.addr /\ q.port = p.port /\ q.size = p.size
BY DEF Goto, RequestFields

\* The address and what stands before it, after a byte more.
LEMMA AddressedOn ==
    ASSUME NEW t \in Streams, NEW b \in Byte, Addressed(t)
    PROVE  LET s == Append(t, b)
           IN /\ Addressed(s) /\ At(s, 4) = At(t, 4) /\ AddrStart(s) = AddrStart(t)
              /\ (EmptyName(s) <=> EmptyName(t))
              /\ At(s, 4) = socks_req_addrtype_domain => At(s, 5) = At(t, 5)
              /\ AddrLen(s) = AddrLen(t) /\ AddrBytes(s) = AddrBytes(t) /\ PortStart(s) = PortStart(t)
              /\ AddrStart(t) \in 5..6 /\ AddrLen(t) \in 0..255 /\ AddrBytes(t) \in 1..255
              /\ AddrLen(t) <= AddrBytes(t) /\ (AddrLen(t) = AddrBytes(t) \/ (AddrLen(t) = 0 /\ AddrBytes(t) = 1))
<1> DEFINE s == Append(t, b)
<1>1. /\ Len(t) \in Nat /\ Len(s) = Len(t) + 1
      /\ \A i \in 1..Len(t) : At(s, i) = At(t, i) /\ At(t, i) \in 0..255
  BY OneMoreByte
<1> HIDE DEF s
<1>2. At(s, 1) = At(t, 1) /\ At(s, 2) = At(t, 2) /\ At(s, 4) = At(t, 4)
  BY <1>1 DEF Addressed
<1>3. At(t, 4) = socks_req_addrtype_domain =>
         Len(t) >= 5 /\ Len(s) >= 5 /\ At(s, 5) = At(t, 5) /\ At(t, 5) \in 0..255
  BY <1>1 DEF Addressed
<1>4. Addressed(s)
  BY <1>1, <1>2, <1>3 DEF Addressed
<1>5. At(t, 4) \in {socks_req_addrtype_ipv4, socks_req_addrtype_domain, socks_req_addrtype_ipv6}
  BY DEF Addressed
<1>6. AddrStart(s) = AddrStart(t) /\ AddrLen(s) = AddrLen(t) /\ AddrStart(t) \in 5..6
      /\ (EmptyName(s) <=> EmptyName(t)) /\ (EmptyName(t) => AddrLen(t) = 0)
  <2>1. CASE At(t, 4) = socks_req_addrtype_domain
    BY <1>2, <1>3, <2>1, AddressLayout, EmptyNameLayout
  <2>2. CASE At(t, 4) # socks_req_addrtype_domain
    BY <1>2, <1>5, <2>2, AddressLayout, EmptyNameLayout
  <2> QED
    BY <2>1, <2>2
<1>7. IPV4_LEN \in 1..255 /\ IPV6_LEN \in 1..255
  BY SizesAssumption
<1>8. AddrLen(t) \in 0..255 /\ (~EmptyName(t) => AddrLen(t) # 0)
  <2>1. CASE At(t, 4) = socks_req_addrtype_domain
    BY <1>3, <2>1, AddressLayout, EmptyNameLayout
  <2>2. CASE At(t, 4) # socks_req_addrtype_domain
    <3>1. AddrLen(t) = IPV4_LEN \/ AddrLen(t) = IPV6_LEN
      BY <1>5, <2>2, AddressLayout
    <3> QED
      BY <1>7, <3>1
  <2> QED
    BY <2>1, <2>2
<1>9. AddrBytes(s) = AddrBytes(t) /\ AddrBytes(t) = IF EmptyName(t) THEN 1 ELSE AddrLen(t)
  BY <1>6 DEF AddrBytes
<1>10. PortStart(s) = PortStart(t)
  BY <1>6, <1>9 DEF PortStart
<1>11. AddrBytes(t) \in 1..255 /\ AddrLen(t) <= AddrBytes(t)
       /\ (AddrLen(t) = AddrBytes(t) \/ (AddrLen(t) = 0 /\ AddrBytes(t) = 1))
  BY <1>6, <1>8, <1>9
<1> QED
  BY <1>2, <1>3, <1>4, <1>6, <1>8, <1>9, <1>10, <1>11 DEF s

LEMMA RequestFeeds ==
    ASSUME NEW p, NEW t \in Streams, NEW b \in Byte, RequestGood(p, t), p.state # "request_done"
    PROVE  RequestGood(request_parser_feed(p, b), Append(t, b))
<1> DEFINE s == Append(t, b)
           q == request_parser_feed(p, b)
           L == Len(t)
<1>1. /\ s \in Streams /\ L \in Nat /\ Len(s) = L + 1
      /\ \A i \in 1..L : At(s, i) = At(t, i) /\ At(t, i) \in 0..255
      /\ At(s, L + 1) = b /\ b \in 0..255
  BY OneMoreByte
<1>0. L \in Nat /\ Len(s) = L + 1 /\ b \in 0..255
  BY <1>1
<1>2. p = [g \in RequestFields |-> p[g]]
  BY DEF RequestGood
<1> SUFFICES RequestGood(q, s)
  OBVIOUS
<1>3. CASE p.state = "request_version"
  <2>1. L = 0 /\ p.addr = None /\ p.port = None /\ p.type = 0
    BY <1>3 DEF RequestGood, Begins, ErrorStates
  <2>2. q = Goto(p, IF b = VERSION THEN "request_cmd" ELSE "request_error_unsupported_version")
    BY <1>3 DEF request_parser_feed, version
  <2> HIDE DEF q, s, L
  <2>3. Len(s) = 1 /\ At(s, 1) = b
    BY <1>1, <2>1
  <2>4. CASE b = VERSION
    <3>1. q = Goto(p, "request_cmd")
      BY <2>2, <2>4
    <3> QED
      BY <1>2, <2>1, <2>3, <2>4, <3>1, GotoFields DEF RequestGood, Begins
  <2>5. CASE b # VERSION
    <3>1. q = Goto(p, "request_error_unsupported_version")
      BY <2>2, <2>5
    <3>2. Malformed(s)
      BY <2>3, <2>5, MalformedLayout
    <3> QED
      BY <1>2, <2>1, <3>1, <3>2, GotoFields DEF RequestGood, ErrorStates
  <2> QED
    BY <2>4, <2>5
<1>4. CASE p.state = "request_cmd"
  <2>1. L = 1 /\ p.addr = None /\ p.port = None /\ p.type = 0 /\ At(t, 1) = VERSION
    BY <1>4 DEF RequestGood, Begins, ErrorStates
  <2>2. q = Goto(p, IF b = socks_req_cmd_connect THEN "request_rsv"
                     ELSE "request_error_unsupported_cmd")
    BY <1>4 DEF request_parser_feed, cmd
  <2> HIDE DEF q, s, L
  <2>3. Len(s) = 2 /\ At(s, 1) = VERSION /\ At(s, 2) = b
    BY <1>1, <2>1
  <2>4. CASE b = socks_req_cmd_connect
    <3>1. q = Goto(p, "request_rsv")
      BY <2>2, <2>4
    <3> QED
      BY <1>2, <2>1, <2>3, <2>4, <3>1, GotoFields DEF RequestGood, Begins
  <2>5. CASE b # socks_req_cmd_connect
    <3>1. q = Goto(p, "request_error_unsupported_cmd")
      BY <2>2, <2>5
    <3>2. Malformed(s)
      BY <2>3, <2>5, MalformedLayout
    <3> QED
      BY <1>2, <2>1, <3>1, <3>2, GotoFields DEF RequestGood, ErrorStates
  <2> QED
    BY <2>4, <2>5
<1>5. CASE p.state = "request_rsv"
  <2>1. L = 2 /\ p.addr = None /\ p.port = None /\ p.type = 0
        /\ At(t, 1) = VERSION /\ At(t, 2) = socks_req_cmd_connect
    BY <1>5 DEF RequestGood, Begins, ErrorStates
  <2>2. q = Goto(p, "request_atyp")
    BY <1>5 DEF request_parser_feed
  <2> HIDE DEF q, s, L
  <2>3. Len(s) = 3 /\ At(s, 1) = VERSION /\ At(s, 2) = socks_req_cmd_connect
    BY <1>1, <2>1
  <2> QED
    BY <1>2, <2>1, <2>2, <2>3, GotoFields DEF RequestGood, Begins
<1>6. CASE p.state = "request_atyp"
  <2>1. L = 3 /\ p.addr = None /\ p.port = None
        /\ At(t, 1) = VERSION /\ At(t, 2) = socks_req_cmd_connect
    BY <1>6 DEF RequestGood, Begins, ErrorStates
  <2>2. q = address_type(p, b)
    BY <1>6 DEF request_parser_feed
  <2> HIDE DEF q, s, L
  <2>3. Len(s) = 4 /\ At(s, 1) = VERSION /\ At(s, 2) = socks_req_cmd_connect /\ At(s, 4) = b
    BY <1>1, <2>1
  <2>4. ASSUME NEW n \in 1..255, b \in {socks_req_addrtype_ipv4, socks_req_addrtype_ipv6},
               AddrLen(s) = n,
               q = [remaining_set([p EXCEPT !.type = b], n) EXCEPT
                       !.addr = Zeros(n), !.state = "request_dest_addr"]
        PROVE  RequestGood(q, s)
    <3>1. /\ q = [g \in RequestFields |-> q[g]] /\ q.state = "request_dest_addr" /\ q.type = b
          /\ q.addr = Zeros(n) /\ q.port = None /\ q.remaining = n /\ q.read = 0
      BY <1>2, <2>1, <2>4 DEF remaining_set, RequestFields
    <3>2. AddrStart(s) = 5 /\ ~EmptyName(s) /\ AddrBytes(s) = n
      <4>1. b # socks_req_addrtype_domain
        BY <2>4 DEF socks_req_addrtype_domain, socks_req_addrtype_ipv4, socks_req_addrtype_ipv6
      <4> QED
        BY <2>3, <2>4, <4>1, AddressLayout, EmptyNameLayout DEF AddrBytes
    <3>3. Addressed(s) /\ At(s, 4) # socks_req_addrtype_domain
      BY <2>3, <2>4 DEF Addressed, socks_req_addrtype_domain, socks_req_addrtype_ipv4,
                        socks_req_addrtype_ipv6
    <3>4. DOMAIN Zeros(n) = 0..(n - 1) /\ IsCells(Zeros(n))
      BY DEF Zeros, IsCells
    <3>5. Cells(q.addr, s, AddrStart(s), 0)
      BY DEF Cells
    <3> HIDE DEF q
    <3>6. AddressIn(q, s, 0)
      BY <2>3, <2>4, <3>1, <3>3, <3>4, <3>5 DEF AddressIn
    <3>7. 0 \in 0..(AddrBytes(s) - 1) /\ Len(s) = AddrStart(s) - 1 + 0
      BY <2>3, <2>4, <3>2
    <3>8. /\ q.port = None /\ Addressed(s) /\ AddressIn(q, s, q.read)
          /\ q.remaining = AddrLen(s) /\ q.read \in 0..(AddrBytes(s) - 1)
          /\ Len(s) = AddrStart(s) - 1 + q.read
      BY <2>4, <3>1, <3>3, <3>6, <3>7
    <3> QED
      BY <3>1, <3>8 DEF RequestGood
  <2>5. CASE b = socks_req_addrtype_ipv4
    <3>1. AddrLen(s) = IPV4_LEN /\ IPV4_LEN \in 1..255
      BY <2>3, <2>5, AddressLayout, SizesAssumption
    <3>2. q = [remaining_set([p EXCEPT !.type = b], IPV4_LEN) EXCEPT
                       !.addr = Zeros(IPV4_LEN), !.state = "request_dest_addr"]
      BY <2>2, <2>5 DEF address_type, socks_req_addrtype_ipv4, socks_req_addrtype_domain,
                        socks_req_addrtype_ipv6
    <3> QED
      BY <2>4, <2>5, <3>1, <3>2
  <2>6. CASE b = socks_req_addrtype_ipv6
    <3>1. AddrLen(s) = IPV6_LEN /\ IPV6_LEN \in 1..255
      BY <2>3, <2>6, AddressLayout, SizesAssumption
    <3>2. q = [remaining_set([p EXCEPT !.type = b], IPV6_LEN) EXCEPT
                       !.addr = Zeros(IPV6_LEN), !.state = "request_dest_addr"]
      BY <2>2, <2>6 DEF address_type, socks_req_addrtype_ipv4, socks_req_addrtype_domain,
                        socks_req_addrtype_ipv6
    <3> QED
      BY <2>4, <2>6, <3>1, <3>2
  <2>7. CASE b = socks_req_addrtype_domain
    <3>1. q = Goto([p EXCEPT !.type = b], "request_dest_addr_fqdn")
      BY <2>2, <2>7 DEF address_type, socks_req_addrtype_ipv4, socks_req_addrtype_domain,
                        socks_req_addrtype_ipv6
    <3>2. q = [g \in RequestFields |-> q[g]] /\ q.state = "request_dest_addr_fqdn"
          /\ q.type = b /\ q.addr = None /\ q.port = None
      BY <1>2, <2>1, <3>1 DEF Goto, RequestFields
    <3> QED
      BY <2>3, <2>7, <3>2 DEF RequestGood
  <2>8. CASE b \notin {socks_req_addrtype_ipv4, socks_req_addrtype_domain, socks_req_addrtype_ipv6}
    <3>1. q = Goto([p EXCEPT !.type = b], "request_error_unsupported_type")
      BY <2>2, <2>8 DEF address_type
    <3>2. q = [g \in RequestFields |-> q[g]] /\ q.state = "request_error_unsupported_type"
          /\ q.addr = None /\ q.port = None
      BY <1>2, <2>1, <3>1 DEF Goto, RequestFields
    <3>3. Malformed(s)
      BY <2>3, <2>8, MalformedLayout
    <3> QED
      BY <3>2, <3>3 DEF RequestGood, ErrorStates
  <2> QED
    BY <2>5, <2>6, <2>7, <2>8
<1>7. CASE p.state = "request_dest_addr_fqdn"
  <2>1. L = 4 /\ p.addr = None /\ p.port = None /\ p.type = At(t, 4)
        /\ At(t, 1) = VERSION /\ At(t, 2) = socks_req_cmd_connect
        /\ At(t, 4) = socks_req_addrtype_domain
    BY <1>7 DEF RequestGood, ErrorStates
  <2>2. q = dest_address_fqdn(p, b)
    BY <1>7 DEF request_parser_feed
  <2> HIDE DEF q, s, L
  <2>3. Len(s) = 5 /\ At(s, 1) = VERSION /\ At(s, 2) = socks_req_cmd_connect
        /\ At(s, 4) = socks_req_addrtype_domain /\ At(s, 5) = b /\ p.type = At(s, 4)
    BY <1>1, <2>1
  <2>4. MAX_FQDN_SIZE \in 1..255
    BY SizesAssumption
  <2>5. CASE b > MAX_FQDN_SIZE - 1
    <3>1. q = Goto(p, "request_error")
      BY <2>2, <2>5 DEF dest_address_fqdn
    <3>2. q.state = "request_error" /\ q = [g \in RequestFields |-> q[g]]
          /\ q.addr = None /\ q.port = None
      BY <1>2, <2>1, <3>1, GotoFields
    <3>3. b >= MAX_FQDN_SIZE
      BY <1>0, <2>4, <2>5
    <3>4. Malformed(s)
      <4>1. Len(s) >= 5 /\ At(s, 5) >= MAX_FQDN_SIZE
        BY <2>3, <3>3
      <4> QED
        BY <2>3, <4>1, MalformedLayout
    <3> QED
      BY <3>2, <3>4 DEF RequestGood, ErrorStates
  <2>6. CASE ~(b > MAX_FQDN_SIZE - 1)
    <3> DEFINE field == Store(None, b - 1, 0)
    <3>1. q = [remaining_set(p, b) EXCEPT !.addr = field, !.size = b, !.state = "request_dest_addr"]
      BY <2>1, <2>2, <2>6 DEF dest_address_fqdn, remaining_set
    <3> HIDE DEF field
    <3>2. /\ q = [g \in RequestFields |-> q[g]] /\ q.state = "request_dest_addr"
          /\ q.type = p.type /\ q.addr = field /\ q.size = b /\ q.port = None
          /\ q.remaining = b /\ q.read = 0
      BY <1>2, <2>1, <3>1 DEF remaining_set, RequestFields
    <3>3. b < MAX_FQDN_SIZE
      BY <1>0, <2>4, <2>6
    <3>4. AddrStart(s) = 6 /\ AddrLen(s) = b
      BY <2>3, AddressLayout
    <3>13. EmptyName(s) <=> b = 0
      BY <2>3, EmptyNameLayout
    <3>5. AddrBytes(s) = IF b = 0 THEN 1 ELSE b
      BY <3>4, <3>13 DEF AddrBytes
    <3>6. DOMAIN field \subseteq OutsideHost(s) \cup 0..(MAX_FQDN_SIZE - 1)
      <4>1. DOMAIN field = {b - 1}
        <5>1. DOMAIN field = DOMAIN None \cup {b - 1}
          BY StoredDomain DEF field
        <5>2. DOMAIN None = {}
          BY DEF None
        <5> QED
          BY <5>1, <5>2
      <4>2. CASE b = 0
        <5>1. OutsideHost(s) = {-1}
          BY <3>13, <4>2 DEF OutsideHost
        <5>2. b - 1 = -1
          BY <4>2
        <5> QED
          BY <4>1, <5>1, <5>2
      <4>3. CASE b # 0
        <5>1. b - 1 \in 0..(MAX_FQDN_SIZE - 1)
          BY <1>0, <2>4, <3>3, <4>3
        <5> QED
          BY <4>1, <5>1
      <4> QED
        BY <4>2, <4>3
    <3>7. IsCells(field)
      <4>1. IsCells(None)
        BY DEF IsCells, None
      <4> QED
        BY <4>1, StoredIsCells DEF field
    <3>8. Addressed(s)
      BY <2>3, <3>3 DEF Addressed
    <3>9. Cells(q.addr, s, AddrStart(s), 0)
      BY DEF Cells
    <3>10. AddressIn(q, s, 0)
      BY <2>3, <3>2, <3>6, <3>7, <3>9 DEF AddressIn
    <3>11. 0 \in 0..(AddrBytes(s) - 1) /\ Len(s) = AddrStart(s) - 1 + 0
      <4>1. AddrBytes(s) \in 1..255
        BY <1>0, <3>5
      <4>2. Len(s) = 5 /\ AddrStart(s) = 6
        BY <2>3, <3>4
      <4> QED
        BY <4>1, <4>2
    <3>12. /\ q.port = None /\ Addressed(s) /\ AddressIn(q, s, q.read)
           /\ q.remaining = AddrLen(s) /\ q.read \in 0..(AddrBytes(s) - 1)
           /\ Len(s) = AddrStart(s) - 1 + q.read
      BY <3>2, <3>4, <3>8, <3>10, <3>11
    <3> QED
      BY <3>2, <3>12 DEF RequestGood
  <2> QED
    BY <2>5, <2>6
<1>8. CASE p.state = "request_dest_addr"
  <2> DEFINE n == p.read
             k == AddrStart(t)
             field == Store(p.addr, n, b)
  <2>1. /\ p.port = None /\ Addressed(t) /\ AddressIn(p, t, n)
        /\ p.remaining = AddrLen(t) /\ n \in 0..(AddrBytes(t) - 1) /\ L = k - 1 + n
    BY <1>8 DEF RequestGood, ErrorStates
  <2>2. /\ Addressed(s) /\ At(s, 4) = At(t, 4) /\ AddrStart(s) = k
        /\ At(s, 4) = socks_req_addrtype_domain => At(s, 5) = At(t, 5)
        /\ AddrLen(s) = AddrLen(t) /\ AddrBytes(s) = AddrBytes(t) /\ PortStart(s) = PortStart(t)
        /\ (EmptyName(s) <=> EmptyName(t))
    BY <2>1, AddressedOn
  <2>3. /\ k \in 5..6 /\ AddrLen(t) \in 0..255 /\ AddrBytes(t) \in 1..255
        /\ AddrLen(t) <= AddrBytes(t)
        /\ (AddrLen(t) = AddrBytes(t) \/ (AddrLen(t) = 0 /\ AddrBytes(t) = 1))
    BY <2>1, AddressedOn
  <2>4. q = dest_addr(p, b)
    BY <1>8 DEF request_parser_feed
  <2>5. n \in Nat /\ (n + 1) % 256 = n + 1 /\ n + 1 <= AddrBytes(t)
        /\ (n + 1 >= AddrLen(t) <=> n + 1 = AddrBytes(t))
    <3>1. n \in 0..(AddrBytes(t) - 1)
      BY <2>1
    <3> HIDE DEF n
    <3> QED
      BY <2>3, <3>1
  <2>6. Cells(field, s, k, n + 1)
    <3>1. Cells(p.addr, t, k, n)
      BY <2>1 DEF AddressIn
    <3>2. \A i \in 0..(n - 1) : k + i \in 1..L
      BY <2>1, <2>3, <2>5
    <3>3. \A i \in 0..(n - 1) : At(s, k + i) = At(t, k + i)
      BY <1>1, <3>2
    <3>4. k + n = L + 1
      BY <1>0, <2>1, <2>3, <2>5
    <3>5. At(s, k + n) = b
      BY <1>1, <3>4
    <3>6. k \in Nat
      BY <2>3
    <3> HIDE DEF n, k, field, L, s
    <3> QED
      BY <2>5, <3>1, <3>3, <3>5, <3>6, StoredNext DEF field
  <2>7. IsCells(field)
    BY StoredIsCells
  <2>8. IF At(s, 4) = socks_req_addrtype_domain
        THEN p.size = At(s, 5)
             /\ DOMAIN field \subseteq OutsideHost(s) \cup 0..(MAX_FQDN_SIZE - 1)
        ELSE DOMAIN field = 0..(AddrLen(s) - 1)
    <3>1. DOMAIN field = DOMAIN p.addr \cup {n}
      BY StoredDomain
    <3> HIDE DEF field
    <3>2. CASE At(s, 4) = socks_req_addrtype_domain
      <4>1. p.size = At(t, 5)
            /\ DOMAIN p.addr \subseteq OutsideHost(t) \cup 0..(MAX_FQDN_SIZE - 1)
        BY <2>1, <2>2, <3>2 DEF AddressIn
      <4>2. AddrLen(t) = At(t, 5) /\ At(t, 5) < MAX_FQDN_SIZE
        BY <2>1, <2>2, <3>2, AddressLayout DEF Addressed
      <4>3. MAX_FQDN_SIZE \in 1..255
        BY SizesAssumption
      <4>4. AddrLen(t) < MAX_FQDN_SIZE
        BY <4>2
      <4>5. n \in 0..(MAX_FQDN_SIZE - 1)
        BY <2>3, <2>5, <4>3, <4>4
      <4>6. OutsideHost(s) = OutsideHost(t)
        BY <2>2 DEF OutsideHost
      <4> QED
        BY <2>2, <3>1, <3>2, <4>1, <4>5, <4>6
    <3>3. CASE At(s, 4) # socks_req_addrtype_domain
      <4>1. DOMAIN p.addr = 0..(AddrLen(t) - 1)
        BY <2>1, <2>2, <3>3 DEF AddressIn
      <4>2. ~EmptyName(t)
        BY <2>2, <3>3, EmptyNameLayout
      <4>3. n \in 0..(AddrLen(t) - 1)
        BY <2>1, <4>2 DEF AddrBytes
      <4> QED
        BY <2>2, <3>1, <3>3, <4>1, <4>3
    <3> QED
      BY <3>2, <3>3
  <2>9. p.type = At(s, 4)
    BY <2>1, <2>2 DEF AddressIn
  <2>10. L + 1 = k - 1 + (n + 1)
    BY <1>0, <2>1, <2>3, <2>5
  <2> DEFINE m == [p EXCEPT !.addr = field, !.read = n + 1]
  <2>11. /\ m = [g \in RequestFields |-> m[g]] /\ m.state = "request_dest_addr" /\ m.port = None
         /\ m.addr = field /\ m.read = n + 1 /\ m.type = p.type /\ m.size = p.size
         /\ m.remaining = AddrLen(t)
    BY <1>2, <1>8, <2>1 DEF RequestFields
  <2>12. q = IF n + 1 >= AddrLen(t)
             THEN [remaining_set(m, 2) EXCEPT !.port = Zeros(2), !.state = "request_dest_port"]
             ELSE m
    BY <2>4, <2>5, <2>11 DEF dest_addr, remaining_is_done
  <2> HIDE DEF m, q, n, field, s, L, k
  <2>13. CASE n + 1 # AddrBytes(t)
    <3>1. q = m
      BY <2>5, <2>12, <2>13
    <3>2. AddressIn(q, s, n + 1)
      BY <2>2, <2>6, <2>7, <2>8, <2>9, <2>11, <3>1 DEF AddressIn
    <3>3. n + 1 \in 0..(AddrBytes(s) - 1)
      BY <2>2, <2>3, <2>5, <2>13
    <3>4. Len(s) = AddrStart(s) - 1 + (n + 1)
      BY <1>0, <2>2, <2>10
    <3>5. /\ q.port = None /\ Addressed(s) /\ AddressIn(q, s, q.read)
          /\ q.remaining = AddrLen(s) /\ q.read \in 0..(AddrBytes(s) - 1)
          /\ Len(s) = AddrStart(s) - 1 + q.read
      BY <2>2, <2>11, <3>1, <3>2, <3>3, <3>4
    <3> QED
      BY <2>11, <3>1, <3>5 DEF RequestGood
  <2>14. CASE n + 1 = AddrBytes(t)
    <3>1. q = [remaining_set(m, 2) EXCEPT !.port = Zeros(2), !.state = "request_dest_port"]
      BY <2>5, <2>12, <2>14
    <3>2. /\ q = [g \in RequestFields |-> q[g]] /\ q.state = "request_dest_port" /\ q.port = Zeros(2)
          /\ q.addr = field /\ q.read = 0 /\ q.type = p.type /\ q.size = p.size /\ q.remaining = 2
      BY <2>11, <3>1 DEF remaining_set, RequestFields
    <3>3. AddressIn(q, s, AddrBytes(s))
      BY <2>2, <2>6, <2>7, <2>8, <2>9, <2>14, <3>2 DEF AddressIn
    <3>4. PortIn(q, s, 0)
      <4>1. DOMAIN Zeros(2) = 0..1 /\ IsCells(Zeros(2))
        BY DEF Zeros, IsCells
      <4>2. Cells(q.port, s, PortStart(s), 0)
        BY DEF Cells
      <4> QED
        BY <3>2, <4>1, <4>2 DEF PortIn
    <3>5. Len(s) = PortStart(s) - 1 + 0
      <4>1. PortStart(s) = k + AddrBytes(t)
        BY <2>2 DEF PortStart
      <4>2. k \in Nat /\ AddrBytes(t) \in Nat
        BY <2>3
      <4> QED
        BY <1>0, <2>5, <2>10, <2>14, <4>1, <4>2
    <3>6. /\ Addressed(s) /\ AddressIn(q, s, AddrBytes(s)) /\ PortIn(q, s, q.read)
          /\ q.remaining = 2 /\ q.read \in 0..1 /\ Len(s) = PortStart(s) - 1 + q.read
      BY <2>2, <3>2, <3>3, <3>4, <3>5
    <3> QED
      BY <3>2, <3>6 DEF RequestGood
  <2> QED
    BY <2>13, <2>14
<1>9. CASE p.state = "request_dest_port"
  <2> DEFINE n == p.read
             k == PortStart(t)
             field == Store(p.port, n, b)
  <2>1. /\ Addressed(t) /\ AddressIn(p, t, AddrBytes(t)) /\ PortIn(p, t, n)
        /\ p.remaining = 2 /\ n \in 0..1 /\ L = k - 1 + n
    BY <1>9 DEF RequestGood, ErrorStates
  <2>2. /\ Addressed(s) /\ At(s, 4) = At(t, 4) /\ AddrStart(s) = AddrStart(t)
        /\ At(s, 4) = socks_req_addrtype_domain => At(s, 5) = At(t, 5)
        /\ AddrLen(s) = AddrLen(t) /\ AddrBytes(s) = AddrBytes(t) /\ PortStart(s) = k
        /\ (EmptyName(s) <=> EmptyName(t))
    BY <2>1, AddressedOn
  <2>3. AddrStart(t) \in 5..6 /\ AddrBytes(t) \in 1..255 /\ k = AddrStart(t) + AddrBytes(t)
    BY <2>1, AddressedOn DEF PortStart
  <2>4. q = dest_port(p, b)
    BY <1>9 DEF request_parser_feed
  <2>5. n \in Nat /\ (n + 1) % 256 = n + 1 /\ (n + 1 >= 2 <=> n = 1) /\ k \in Nat /\ k >= 6
    <3>1. n \in 0..1
      BY <2>1
    <3> HIDE DEF n, k
    <3> QED
      BY <2>3, <3>1
  <2>6. Cells(field, s, k, n + 1)
    <3>1. Cells(p.port, t, k, n)
      BY <2>1 DEF PortIn
    <3>2. \A i \in 0..(n - 1) : k + i \in 1..L
      BY <2>1, <2>5
    <3>3. \A i \in 0..(n - 1) : At(s, k + i) = At(t, k + i)
      BY <1>1, <3>2
    <3>4. k + n = L + 1
      BY <1>0, <2>1, <2>5
    <3>5. At(s, k + n) = b
      BY <1>1, <3>4
    <3> HIDE DEF n, k, field, L, s
    <3> QED
      BY <2>5, <3>1, <3>3, <3>5, StoredNext DEF field
  <2>7. IsCells(field)
    BY StoredIsCells
  <2>8. DOMAIN field = 0..1
    <3>1. DOMAIN field = DOMAIN p.port \cup {n}
      BY StoredDomain
    <3>2. DOMAIN p.port = 0..1 /\ n \in 0..1
      BY <2>1 DEF PortIn
    <3> QED
      BY <3>1, <3>2
  <2>9. AddressIn(p, s, AddrBytes(s))
    <3>1. Cells(p.addr, t, AddrStart(t), AddrBytes(t))
      BY <2>1 DEF AddressIn
    <3>2. \A i \in 0..(AddrBytes(t) - 1) : AddrStart(t) + i \in 1..L
      <4>1. L = k - 1 + n
        BY <2>1
      <4>2. n \in Nat
        BY <2>5
      <4> HIDE DEF L, k, n
      <4>3. k = AddrStart(t) + AddrBytes(t) /\ AddrStart(t) \in 5..6 /\ AddrBytes(t) \in 1..255
        BY <2>3
      <4> QED
        BY <4>1, <4>2, <4>3
    <3>3. \A i \in 0..(AddrBytes(t) - 1) : At(s, AddrStart(t) + i) = At(t, AddrStart(t) + i)
      BY <1>1, <3>2
    <3>4. Cells(p.addr, s, AddrStart(s), AddrBytes(s))
      BY <2>2, <3>1, <3>3 DEF Cells
    <3>5. OutsideHost(s) = OutsideHost(t)
      BY <2>2 DEF OutsideHost
    <3> HIDE DEF s
    <3> QED
      BY <2>1, <2>2, <3>4, <3>5 DEF AddressIn
  <2> DEFINE m == [p EXCEPT !.port = field, !.read = n + 1]
  <2>10. /\ m = [g \in RequestFields |-> m[g]] /\ m.state = "request_dest_port"
         /\ m.port = field /\ m.read = n + 1 /\ m.type = p.type /\ m.size = p.size
         /\ m.remaining = 2 /\ m.addr = p.addr
    BY <1>2, <1>9, <2>1 DEF RequestFields
  <2>11. q = IF n + 1 >= 2 THEN Goto(m, "request_done") ELSE m
    BY <2>4, <2>5, <2>10 DEF dest_port, remaining_is_done
  <2>12. L + 1 = k - 1 + (n + 1)
    BY <1>0, <2>1, <2>5
  <2> HIDE DEF m, q, n, field, s, L, k
  <2>13. AddressIn(m, s, AddrBytes(s)) /\ PortIn(m, s, n + 1)
    BY <2>2, <2>6, <2>7, <2>8, <2>9, <2>10 DEF AddressIn, PortIn
  <2>14. CASE n = 1
    <3>1. q = Goto(m, "request_done")
      BY <2>5, <2>11, <2>14
    <3>2. q = [g \in RequestFields |-> q[g]] /\ q.state = "request_done"
          /\ q.type = m.type /\ q.addr = m.addr /\ q.port = m.port /\ q.size = m.size
      BY <2>10, <3>1, GotoFields
    <3>3. AddressIn(q, s, AddrBytes(s)) /\ PortIn(q, s, 2)
      BY <2>13, <2>14, <3>2 DEF AddressIn, PortIn
    <3>4. Len(s) = PortStart(s) + 1
      BY <1>0, <2>2, <2>5, <2>12, <2>14
    <3> QED
      BY <2>2, <3>2, <3>3, <3>4 DEF RequestGood
  <2>15. CASE n # 1
    <3>1. q = m /\ n + 1 \in 0..1
      <4>1. n = 0
        BY <2>1, <2>15 DEF n
      <4> QED
        BY <2>5, <2>11, <2>15, <4>1
    <3>2. Len(s) = PortStart(s) - 1 + (n + 1)
      BY <1>0, <2>2, <2>12
    <3>3. /\ Addressed(s) /\ AddressIn(q, s, AddrBytes(s)) /\ PortIn(q, s, q.read)
          /\ q.remaining = 2 /\ q.read \in 0..1 /\ Len(s) = PortStart(s) - 1 + q.read
      BY <2>2, <2>10, <2>13, <3>1, <3>2
    <3> QED
      BY <2>10, <3>1, <3>3 DEF RequestGood
  <2> QED
    BY <2>14, <2>15
<1>10. CASE p.state \in ErrorStates
  <2>1. Malformed(t) /\ p.addr = None /\ p.port = None
    BY <1>10 DEF RequestGood, ErrorStates
  <2>2. q = p
    BY <1>10 DEF request_parser_feed, ErrorStates
  <2>3. Malformed(s)
    BY <2>1, MalformedOn
  <2> QED
    BY <1>2, <1>10, <2>1, <2>2, <2>3 DEF RequestGood
<1> QED
  BY <1>3, <1>4, <1>5, <1>6, <1>7, <1>8, <1>9, <1>10 DEF RequestGood

-----------------------------------------------------------------------------
(* One byte of a list *)

IsList(c) == c.lead \in BOOLEAN /\ c.texts \in 0..2

ListFields == {"states", "index", "current"}

\* Everything of a list but what was made of substate i.
OthersStay(c, p, q, i) ==
    /\ q = [g \in ListFields |-> q[g]] /\ q.states = [n \in 1..Size(c) |-> Sub(q, n)]
    /\ \A n \in 1..Size(c) : n # i => Sub(q, n) = Sub(p, n)
    /\ Sub(q, i).state = Sub(p, i).state /\ Sub(q, i).check = Sub(p, i).check
    /\ Sub(q, i) = [g \in SubFields |-> Sub(q, i)[g]]

\* Where Goes leads.
LeadsTo(c, p, q, i) ==
    q.index = i /\ q.current = IF i > Size(c) THEN "done_read" ELSE Sub(p, i).state

LEMMA SizeFacts ==
    ASSUME NEW c, IsList(c)
    PROVE  /\ Lead(c) \in 0..1 /\ Size(c) = Lead(c) + 2 * c.texts /\ Size(c) \in Nat
           /\ \A j \in 1..c.texts :
                 /\ CountOf(c, j) = Lead(c) + 2 * j - 1
                 /\ CountOf(c, j) \in 1..Size(c) /\ CountOf(c, j) + 1 \in 1..Size(c)
           /\ c.lead => Lead(c) = 1 /\ 1 \in 1..Size(c)
BY DEF IsList, Lead, Size, CountOf

LEMMA ListStates ==
    ASSUME NEW c, NEW p, IsList(c), ListParser(c, p)
    PROVE  p.states \in Seq({Sub(p, i) : i \in 1..Size(c)}) /\ Len(p.states) = Size(c)
<1>1. Size(c) \in Nat /\ p.states = [i \in 1..Size(c) |-> Sub(p, i)]
  BY SizeFacts DEF ListParser
<1> QED
  BY <1>1

LEMMA PutIsStore == ASSUME NEW f, NEW i, NEW b PROVE Put(f, i, b) = Store(f, i, b)
BY DEF Put, Store

\* Goes leads to substate i of a list and leaves the substates.
LEMMA GoesOn ==
    ASSUME NEW c, NEW p, NEW m, NEW k \in 1..Size(c), Size(c) \in Nat, OthersStay(c, p, m, k),
           NEW i \in 1..(Size(c) + 1), \A n \in 1..Size(c) : Sub(m, n).state = Sub(p, n).state
    PROVE  /\ OthersStay(c, p, Goes(m, i), k) /\ Sub(Goes(m, i), k) = Sub(m, k)
           /\ LeadsTo(c, p, Goes(m, i), i)
<1> DEFINE q == Goes(m, i)
<1>1. m = [g \in ListFields |-> m[g]] /\ m.states = [n \in 1..Size(c) |-> Sub(m, n)]
  BY DEF OthersStay
<1>2. Len(m.states) = Size(c)
  BY <1>1
<1>3. q = [m EXCEPT !.index = i,
                    !.current = IF i > Size(c) THEN "done_read" ELSE m.states[i].state]
  BY <1>2 DEF Goes
<1> HIDE DEF q
<1>4. /\ q = [g \in ListFields |-> q[g]] /\ q.states = m.states /\ q.index = i
      /\ q.current = IF i > Size(c) THEN "done_read" ELSE m.states[i].state
  BY <1>1, <1>3 DEF ListFields
<1>5. \A n : Sub(q, n) = Sub(m, n)
  BY <1>4 DEF Sub
<1>6. OthersStay(c, p, q, k)
  BY <1>1, <1>4, <1>5 DEF OthersStay
<1>7. ~(i > Size(c)) => i \in 1..Size(c)
  OBVIOUS
<1>8. ~(i > Size(c)) => m.states[i].state = Sub(p, i).state
  BY <1>7 DEF Sub
<1>9. LeadsTo(c, p, q, i)
  BY <1>4, <1>8 DEF LeadsTo
<1> QED
  BY <1>5, <1>6, <1>9 DEF q

LEMMA ReadN ==
    ASSUME NEW c, NEW p, NEW b \in 0..255, IsList(c), ListParser(c, p), p.index \in Nat,
           p.index + 1 \in 1..Size(c)
    PROVE  LET q == read_N(p, b)
               i == p.index + 1
           IN /\ OthersStay(c, p, q, i) /\ Sub(q, i).size = b /\ Sub(q, i).remaining = b
              /\ Sub(q, i).result = IF b = 0 THEN Store(<< >>, 0, 0) ELSE << >>
              /\ LeadsTo(c, p, q, IF b = 0 THEN i + 1 ELSE i)
<1> DEFINE i == p.index + 1
           text == IF b = 0 THEN Store(<< >>, 0, 0) ELSE << >>
           m == [p EXCEPT !.states[i] = [@ EXCEPT !.size = b, !.remaining = b, !.result = text]]
           d == IF b = 0 THEN i + 1 ELSE i
           q == read_N(p, b)
<1>1. p = [g \in ListFields |-> p[g]] /\ p.states = [n \in 1..Size(c) |-> Sub(p, n)]
      /\ Sub(p, i) = [g \in SubFields |-> Sub(p, i)[g]] /\ Len(p.states) = Size(c)
  BY ListStates DEF ListParser, ListFields, IsSub
<1>2. q = Goes(m, d)
  BY PutIsStore DEF read_N
<1> HIDE DEF i, d, q, text
<1>3. /\ m = [g \in ListFields |-> m[g]] /\ m.states = [n \in 1..Size(c) |-> m.states[n]]
      /\ \A n \in 1..Size(c) : m.states[n] =
            IF n = i THEN [p.states[i] EXCEPT !.size = b, !.remaining = b, !.result = text]
            ELSE p.states[n]
  BY <1>1 DEF ListFields
<1>4. i \in 1..Size(c)
  BY DEF i
<1>5. /\ \A n \in 1..Size(c) : n # i => Sub(m, n) = Sub(p, n)
      /\ Sub(m, i) = [Sub(p, i) EXCEPT !.size = b, !.remaining = b, !.result = text]
  BY <1>3, <1>4 DEF Sub
<1>6. m.states = [n \in 1..Size(c) |-> Sub(m, n)]
  BY <1>3 DEF Sub
<1> HIDE DEF m
<1>7. /\ Sub(m, i).size = b /\ Sub(m, i).remaining = b /\ Sub(m, i).result = text
      /\ Sub(m, i).state = Sub(p, i).state /\ Sub(m, i).check = Sub(p, i).check
      /\ Sub(m, i) = [g \in SubFields |-> Sub(m, i)[g]]
  BY <1>1, <1>5 DEF SubFields
<1>8. OthersStay(c, p, m, i)
  BY <1>3, <1>5, <1>6, <1>7 DEF OthersStay
<1>9. \A n \in 1..Size(c) : Sub(m, n).state = Sub(p, n).state
  BY <1>5, <1>7
<1>10. d \in 1..(Size(c) + 1) /\ Size(c) \in Nat
  BY <1>4, SizeFacts DEF d
<1>11. OthersStay(c, p, q, i) /\ Sub(q, i) = Sub(m, i) /\ LeadsTo(c, p, q, d)
  BY <1>2, <1>4, <1>8, <1>9, <1>10, GoesOn
<1> QED
  BY <1>7, <1>11 DEF i, d, q, text

LEMMA LongRead ==
    ASSUME NEW c, NEW p, NEW b \in 0..255, IsList(c), ListParser(c, p), p.index \in 1..Size(c),
           Sub(p, p.index).remaining \in 1..255
    PROVE  LET q == long_read(p, b)
               i == p.index
               sub == Sub(p, i)
               put == Store(sub.result, sub.size - sub.remaining, b)
               text == IF sub.remaining > 1 THEN put ELSE Store(put, sub.size, 0)
           IN /\ OthersStay(c, p, q, i) /\ Sub(q, i).size = sub.size
              /\ Sub(q, i).remaining = sub.remaining - 1 /\ Sub(q, i).result = text
              /\ IF sub.remaining > 1 THEN q.index = i /\ q.current = p.current
                 ELSE IF sub.check # {} /\ At(text, 0) \notin sub.check
                 THEN q.index = i /\ q.current = "error_read"
                 ELSE LeadsTo(c, p, q, i + 1)
<1> DEFINE i == p.index
           sub == Sub(p, i)
           put == Store(sub.result, sub.size - sub.remaining, b)
           left == sub.remaining - 1
           text == IF left > 0 THEN put ELSE Store(put, sub.size, 0)
           m == [p EXCEPT !.states[i] = [@ EXCEPT !.remaining = left, !.result = text]]
           q == long_read(p, b)
<1>1. p = [g \in ListFields |-> p[g]] /\ p.states = [n \in 1..Size(c) |-> Sub(p, n)]
      /\ sub = [g \in SubFields |-> sub[g]] /\ Len(p.states) = Size(c)
  BY ListStates DEF ListParser, ListFields, IsSub
<1>2. (sub.remaining - 1) % 256 = left /\ left \in 0..254 /\ (sub.remaining > 1 <=> left > 0)
  <2> DEFINE r == sub.remaining
  <2>1. r \in 1..255
    OBVIOUS
  <2> HIDE DEF r
  <2>2. (r - 1) % 256 = r - 1 /\ r - 1 \in 0..254 /\ (r > 1 <=> r - 1 > 0)
    BY <2>1
  <2> QED
    BY <2>2 DEF r
<1>3. p.states[p.index] = sub
  BY DEF Sub
<1>4. q = IF left > 0 THEN m
          ELSE IF sub.check # {} /\ At(text, 0) \notin sub.check
               THEN [m EXCEPT !.current = "error_read"]
               ELSE Goes(m, i + 1)
  BY <1>2, <1>3, PutIsStore DEF long_read, At
<1> HIDE DEF q, text, left
<1>5. /\ m = [g \in ListFields |-> m[g]] /\ m.states = [n \in 1..Size(c) |-> m.states[n]]
      /\ \A n \in 1..Size(c) : m.states[n] =
            IF n = i THEN [p.states[i] EXCEPT !.remaining = left, !.result = text]
            ELSE p.states[n]
      /\ m.index = i /\ m.current = p.current
  BY <1>1 DEF ListFields
<1>6. /\ \A n \in 1..Size(c) : n # i => Sub(m, n) = Sub(p, n)
      /\ Sub(m, i) = [sub EXCEPT !.remaining = left, !.result = text]
  BY <1>5 DEF Sub
<1>7. m.states = [n \in 1..Size(c) |-> Sub(m, n)]
  BY <1>5 DEF Sub
<1> HIDE DEF m
<1>8. /\ Sub(m, i).size = sub.size /\ Sub(m, i).remaining = left /\ Sub(m, i).result = text
      /\ Sub(m, i).state = sub.state /\ Sub(m, i).check = sub.check
      /\ Sub(m, i) = [g \in SubFields |-> Sub(m, i)[g]]
  BY <1>1, <1>6 DEF SubFields
<1>9. OthersStay(c, p, m, i)
  BY <1>5, <1>6, <1>7, <1>8 DEF OthersStay
<1>10. \A n \in 1..Size(c) : Sub(m, n).state = Sub(p, n).state
  BY <1>6, <1>8
<1> HIDE DEF i, sub
<1>11. /\ OthersStay(c, p, q, i) /\ Sub(q, i) = Sub(m, i)
       /\ IF left > 0 THEN q.index = i /\ q.current = p.current
          ELSE IF sub.check # {} /\ At(text, 0) \notin sub.check
          THEN q.index = i /\ q.current = "error_read"
          ELSE LeadsTo(c, p, q, i + 1)
  <2>1. CASE left > 0
    BY <1>4, <1>5, <1>9, <2>1
  <2>2. CASE ~(left > 0) /\ sub.check # {} /\ At(text, 0) \notin sub.check
    <3>1. q = [m EXCEPT !.current = "error_read"]
      BY <1>4, <2>2
    <3>2. q = [g \in ListFields |-> q[g]] /\ q.states = m.states /\ q.index = i
          /\ q.current = "error_read"
      BY <1>5, <3>1 DEF ListFields
    <3>3. \A n : Sub(q, n) = Sub(m, n)
      BY <3>2 DEF Sub
    <3>4. OthersStay(c, p, q, i)
      BY <1>9, <3>2, <3>3 DEF OthersStay
    <3> QED
      BY <2>2, <3>2, <3>3, <3>4
  <2>3. CASE ~(left > 0) /\ ~(sub.check # {} /\ At(text, 0) \notin sub.check)
    <3>1. q = Goes(m, i + 1)
      BY <1>4, <2>3
    <3>2. i \in 1..Size(c) /\ Size(c) \in Nat
      BY SizeFacts DEF i
    <3>3. i + 1 \in 1..(Size(c) + 1)
      BY <3>2
    <3> QED
      BY <1>9, <1>10, <2>3, <3>1, <3>2, <3>3, GoesOn
  <2> QED
    BY <2>1, <2>2, <2>3
<1>12. text = IF left > 0 THEN put ELSE Store(put, sub.size, 0)
  BY DEF text
<1> QED
  BY <1>2, <1>8, <1>11, <1>12 DEF i, sub, left, q

\* A list stays one.
LEMMA StaysList ==
    ASSUME NEW c, NEW p, NEW q, NEW i \in 1..Size(c), IsList(c), ListParser(c, p),
           OthersStay(c, p, q, i), IsCells(Sub(q, i).result),
           DOMAIN Sub(q, i).result \subseteq 0..Sub(q, i).size
    PROVE  ListParser(c, q)
<1>1. IsSub(Sub(q, i))
  BY DEF OthersStay, IsSub
<1>2. \A n \in 1..Size(c) : IsSub(Sub(q, n))
  <2> SUFFICES ASSUME NEW n \in 1..Size(c) PROVE IsSub(Sub(q, n))
    OBVIOUS
  <2>1. CASE n = i
    BY <1>1, <2>1
  <2>2. CASE n # i
    BY <2>2 DEF OthersStay, ListParser
  <2> QED
    BY <2>1, <2>2
<1>3. \A n \in 1..Size(c) : Sub(q, n).state = Sub(p, n).state /\ Sub(q, n).check = Sub(p, n).check
  BY DEF OthersStay
<1>4. c.lead => Sub(q, 1).state = "long_read" /\ Sub(q, 1).check = c.check
  BY <1>3, SizeFacts DEF ListParser
<1>5. ASSUME NEW j \in 1..c.texts
      PROVE  /\ Sub(q, CountOf(c, j)).state = "read_N"
             /\ Sub(q, CountOf(c, j) + 1).state = "long_read"
             /\ Sub(q, CountOf(c, j) + 1).check = {}
  <2>1. CountOf(c, j) \in 1..Size(c) /\ CountOf(c, j) + 1 \in 1..Size(c)
    BY SizeFacts
  <2> QED
    BY <1>3, <2>1 DEF ListParser
<1> QED
  BY <1>2, <1>4, <1>5 DEF ListParser, OthersStay, ListFields

\* The position after a text, by its count.
LEMMA AfterAt == ASSUME NEW s, NEW k PROVE After(s, k) = k + At(s, k) + 1
BY DEF After, At

\* A text that is in place stays there.
LEMMA TextOn ==
    ASSUME NEW sub, NEW t \in Streams, NEW b \in Byte, NEW k \in Nat \ {0}, TextIn(sub, t, k)
    PROVE  LET s == Append(t, b)
           IN TextIn(sub, s, k) /\ After(s, k) = After(t, k) /\ At(s, k) = At(t, k)
<1> DEFINE s == Append(t, b)
           L == Len(t)
           n == At(t, k)
<1>1. L \in Nat /\ Len(s) = L + 1
  BY OneMoreByte
<1>2. \A i \in 1..L : At(s, i) = At(t, i) /\ At(t, i) \in 0..255
  BY OneMoreByte
<1>3. L >= k /\ L + 1 >= After(t, k) /\ sub.size = n /\ Cells(sub.result, t, k + 1, n)
      /\ n \in DOMAIN sub.result /\ At(sub.result, n) = 0
  BY DEF TextIn
<1> HIDE DEF s, L
<1>4. k \in 1..L
  BY <1>1, <1>3
<1>5. At(s, k) = n /\ n \in 0..255
  BY <1>2, <1>4
<1>6. After(s, k) = k + n + 1 /\ After(t, k) = k + n + 1
  BY <1>5, AfterAt
<1> HIDE DEF n
<1>7. L >= k + n
  <2>1. L + 1 >= k + n + 1
    BY <1>3, <1>6
  <2> QED
    BY <1>1, <1>5, <2>1
<1>8. \A i \in 0..(n - 1) : k + 1 + i \in 1..L
  BY <1>1, <1>5, <1>7
<1>9. \A i \in 0..(n - 1) : At(s, k + 1 + i) = At(t, k + 1 + i)
  BY <1>2, <1>8
<1>10. Cells(sub.result, s, k + 1, n)
  BY <1>3, <1>9 DEF Cells
<1>11. Len(s) >= k /\ Len(s) + 1 >= k + n + 1
  BY <1>1, <1>5, <1>7
<1>12. TextIn(sub, s, k)
  BY <1>3, <1>5, <1>6, <1>10, <1>11 DEF TextIn
<1> QED
  BY <1>5, <1>6, <1>12 DEF s, n

\* So do the lead byte and the texts read so far.
LEMMA ListInOn ==
    ASSUME NEW c, IsList(c), NEW p, NEW q, NEW t \in Streams, NEW b \in Byte,
           NEW n \in 0..c.texts, ListIn(c, p, t, n),
           c.lead => Sub(q, 1) = Sub(p, 1),
           \A j \in 1..n : Sub(q, CountOf(c, j) + 1) = Sub(p, CountOf(c, j) + 1)
    PROVE  /\ ListIn(c, q, Append(t, b), n)
           /\ \A j \in 1..c.texts : j <= n + 1 => CountAt(c, Append(t, b), j) = CountAt(c, t, j)
           /\ \A j \in 1..c.texts : j <= n + 1 => CountAt(c, t, j) \in Nat \ {0}
<1> DEFINE s == Append(t, b)
<1>1. Len(t) \in Nat
  BY OneMoreByte
<1>2. Len(s) = Len(t) + 1
  BY OneMoreByte
<1>3. \A i \in 1..Len(t) : At(s, i) = At(t, i) /\ At(t, i) \in 0..255
  BY OneMoreByte
<1>4. Lead(c) \in 0..1 /\ c.texts \in 0..2
  BY SizeFacts DEF IsList
<1> DEFINE k == Lead(c) + 1
<1>5. k \in Nat \ {0}
  BY <1>4
<1>6. CountAt(c, s, 1) = k /\ CountAt(c, t, 1) = k
  BY DEF CountAt
<1>7. n >= 1 => /\ TextIn(Sub(p, CountOf(c, 1) + 1), t, k)
                /\ CountAt(c, t, 2) = After(t, k) /\ CountAt(c, s, 2) = After(s, k)
  BY <1>4, <1>6 DEF CountAt, ListIn
<1> HIDE DEF k, s
<1>8. n >= 1 => CountAt(c, s, 2) = CountAt(c, t, 2) /\ CountAt(c, t, 2) \in Nat \ {0}
  <2> SUFFICES ASSUME n >= 1 PROVE CountAt(c, s, 2) = CountAt(c, t, 2) /\ CountAt(c, t, 2) \in Nat \ {0}
    OBVIOUS
  <2>1. After(s, k) = After(t, k)
    BY <1>5, <1>7, TextOn DEF s
  <2>2. After(t, k) = k + At(t, k) + 1
    BY AfterAt
  <2>3. Len(t) >= k
    BY <1>7 DEF TextIn
  <2>4. k \in 1..Len(t)
    BY <1>1, <1>5, <2>3
  <2>5. At(t, k) \in 0..255
    BY <1>3, <2>4
  <2> QED
    BY <1>5, <1>7, <2>1, <2>2, <2>5
<1>9. ASSUME NEW j \in 1..c.texts, j <= n + 1
      PROVE  CountAt(c, s, j) = CountAt(c, t, j) /\ CountAt(c, t, j) \in Nat \ {0}
  <2>1. j = 1 \/ (j = 2 /\ n >= 1)
    BY <1>4, <1>9
  <2> QED
    BY <1>5, <1>6, <1>8, <2>1
<1>10. ASSUME NEW j \in 1..n PROVE TextIn(Sub(q, CountOf(c, j) + 1), s, CountAt(c, s, j))
  <2>1. j \in 1..c.texts /\ j <= n + 1
    BY <1>4
  <2>2. TextIn(Sub(p, CountOf(c, j) + 1), t, CountAt(c, t, j))
    BY DEF ListIn
  <2>3. CountAt(c, s, j) = CountAt(c, t, j) /\ CountAt(c, t, j) \in Nat \ {0}
    BY <1>9, <2>1
  <2> QED
    BY <2>2, <2>3, TextOn DEF s
<1>11. c.lead => /\ Len(s) >= 1 /\ 0 \in DOMAIN Sub(q, 1).result
                 /\ At(Sub(q, 1).result, 0) = At(s, 1) /\ (c.check # {} => At(s, 1) \in c.check)
  <2> SUFFICES ASSUME c.lead
               PROVE  /\ Len(s) >= 1 /\ 0 \in DOMAIN Sub(q, 1).result
                      /\ At(Sub(q, 1).result, 0) = At(s, 1) /\ (c.check # {} => At(s, 1) \in c.check)
    OBVIOUS
  <2>1. Len(t) >= 1 /\ 0 \in DOMAIN Sub(p, 1).result
        /\ At(Sub(p, 1).result, 0) = At(t, 1) /\ (c.check # {} => At(t, 1) \in c.check)
    BY DEF ListIn
  <2>2. At(s, 1) = At(t, 1) /\ Len(s) >= 1
    BY <1>1, <1>2, <1>3, <2>1
  <2> QED
    BY <2>1, <2>2
<1> QED
  BY <1>9, <1>10, <1>11 DEF ListIn, s

\* The phases of a list, for the parser q after the bytes s.
AtCount(c, q, s, j) ==
    /\ q.index = CountOf(c, j) /\ q.current = "read_N"
    /\ ListIn(c, q, s, j - 1) /\ Len(s) + 1 = CountAt(c, s, j)
AtText(c, q, s, j) ==
    LET sub == Sub(q, q.index)
        k == CountAt(c, s, j)
    IN /\ q.index = CountOf(c, j) + 1 /\ q.current = "long_read"
       /\ ListIn(c, q, s, j - 1) /\ Len(s) >= k
       /\ sub.size = At(s, k) /\ sub.remaining \in 1..255 /\ Len(s) + sub.remaining + 1 = After(s, k)
       /\ Cells(sub.result, s, k + 1, Len(s) - k)
AtEnd(c, q, s) ==
    /\ q.index = Size(c) + 1 /\ q.current = "done_read"
    /\ ListIn(c, q, s, c.texts)
    /\ Len(s) + 1 = IF c.texts = 0 THEN 2 ELSE After(s, CountAt(c, s, c.texts))

LEMMA ListPhases ==
    ASSUME NEW c, NEW q, NEW s
    PROVE  ListGood(c, q, s) <=>
              /\ ListParser(c, q)
              /\ \/ /\ c.lead /\ q.index = 1 /\ q.current = "long_read" /\ s = << >>
                    /\ Sub(q, 1).size = 1 /\ Sub(q, 1).remaining = 1 /\ Sub(q, 1).result = << >>
                 \/ \E j \in 1..c.texts : AtCount(c, q, s, j)
                 \/ \E j \in 1..c.texts : AtText(c, q, s, j)
                 \/ AtEnd(c, q, s)
                 \/ c.lead /\ c.check # {} /\ q.index = 1 /\ q.current = "error_read" /\ s # << >>
BY Zenon DEF ListGood, AtCount, AtText, AtEnd

\* After text j stands the count of the next one, or the list is at its end.
LEMMA NextText ==
    ASSUME NEW c, IsList(c), NEW p, NEW q, NEW s, NEW j \in 0..c.texts, ListParser(c, p),
           Len(s) \in Nat, ListIn(c, q, s, j),
           j = 0 => c.lead /\ Len(s) = 1,
           j # 0 => Len(s) + 1 = After(s, CountAt(c, s, j)),
           LeadsTo(c, p, q, Lead(c) + 2 * j + 1)
    PROVE  AtEnd(c, q, s) \/ \E i \in 1..c.texts : AtCount(c, q, s, i)
<1>1. Lead(c) \in 0..1 /\ c.texts \in 0..2 /\ Size(c) = Lead(c) + 2 * c.texts
  BY SizeFacts DEF IsList
<1>2. CASE j = c.texts
  <2>1. Lead(c) + 2 * j + 1 = Size(c) + 1 /\ Size(c) + 1 > Size(c)
    BY <1>1, <1>2
  <2>2. q.index = Size(c) + 1 /\ q.current = "done_read"
    BY <2>1 DEF LeadsTo
  <2>3. Len(s) + 1 = IF c.texts = 0 THEN 2 ELSE After(s, CountAt(c, s, c.texts))
    <3>1. CASE j = 0
      <4>1. Len(s) = 1 /\ c.texts = 0
        BY <1>2, <3>1
      <4> QED
        BY <4>1
    <3>2. CASE j # 0
      BY <1>2, <3>2
    <3> QED
      BY <3>1, <3>2
  <2> QED
    BY <1>2, <2>2, <2>3 DEF AtEnd
<1>3. CASE j # c.texts
  <2>1. j + 1 \in 1..c.texts
    BY <1>1, <1>3
  <2>2. CountOf(c, j + 1) = Lead(c) + 2 * j + 1 /\ CountOf(c, j + 1) \in 1..Size(c)
    <3>1. CountOf(c, j + 1) = Lead(c) + 2 * (j + 1) - 1 /\ CountOf(c, j + 1) \in 1..Size(c)
      BY <2>1, SizeFacts
    <3> QED
      BY <1>1, <3>1
  <2>3. Sub(p, CountOf(c, j + 1)).state = "read_N"
    <3>1. \A i \in 1..c.texts : Sub(p, CountOf(c, i)).state = "read_N"
      BY DEF ListParser
    <3> QED
      BY <2>1, <3>1
  <2>4. ~(CountOf(c, j + 1) > Size(c))
    BY <1>1, <2>2
  <2>5. q.index = CountOf(c, j + 1) /\ q.current = "read_N"
    BY <2>2, <2>3, <2>4 DEF LeadsTo
  <2>6. Len(s) + 1 = CountAt(c, s, j + 1)
    <3>1. CASE j = 0
      <4>1. Lead(c) = 1 /\ j + 1 = 1 /\ Len(s) = 1
        BY <3>1 DEF Lead
      <4> QED
        BY <4>1 DEF CountAt
    <3>2. CASE j # 0
      <4>1. j = 1
        BY <1>1, <1>3, <3>2
      <4>2. j + 1 # 1
        BY <4>1
      <4>3. CountAt(c, s, j) = Lead(c) + 1 /\ CountAt(c, s, j + 1) = After(s, Lead(c) + 1)
        BY <4>1, <4>2 DEF CountAt
      <4> QED
        BY <3>2, <4>3
    <3> QED
      BY <3>1, <3>2
  <2>7. (j + 1) - 1 = j
    BY <1>1
  <2>8. AtCount(c, q, s, j + 1)
    BY <2>5, <2>6, <2>7 DEF AtCount
  <2> QED
    BY <2>1, <2>8
<1> QED
  BY <1>2, <1>3


\* The lead byte of a list.
LEMMA LeadFeeds ==
    ASSUME NEW c, NEW p, NEW b \in Byte, IsList(c), ListParser(c, p),
           c.lead, p.index = 1, p.current = "long_read",
           Sub(p, 1).size = 1, Sub(p, 1).remaining = 1, Sub(p, 1).result = << >>
    PROVE  ListGood(c, parser_feed(p, b), Append(<< >>, b))
<1> DEFINE s == Append(<< >>, b)
           q == parser_feed(p, b)
           text == Store(Store(<< >>, 0, b), 1, 0)
<1>1. << >> \in Streams /\ b \in 0..255
  BY ByteAssumption DEF Streams
<1>2. Len(s) = 1 /\ s # << >> /\ At(s, 1) = b
  BY DEF At
<1>3. q = long_read(p, b)
  BY DEF parser_feed
<1>4. 1 \in 1..Size(c) /\ Lead(c) = 1 /\ Size(c) \in Nat
  BY SizeFacts
<1>5. p.index \in 1..Size(c) /\ Sub(p, p.index).remaining \in 1..255
  BY <1>4
<1>6. Sub(p, 1).check = c.check
  BY DEF ListParser
<1> HIDE DEF q, s
<1>7. /\ OthersStay(c, p, q, 1) /\ Sub(q, 1).size = 1 /\ Sub(q, 1).result = text
      /\ IF c.check # {} /\ At(text, 0) \notin c.check
         THEN q.index = 1 /\ q.current = "error_read"
         ELSE LeadsTo(c, p, q, 2)
  <2>1. 1 - 1 = 0 /\ 1 + 1 = 2 /\ ~(1 > 1)
    OBVIOUS
  <2>2. LET sub == Sub(p, p.index)
            put == Store(sub.result, sub.size - sub.remaining, b)
            cells == IF sub.remaining > 1 THEN put ELSE Store(put, sub.size, 0)
        IN /\ OthersStay(c, p, q, p.index) /\ Sub(q, p.index).size = sub.size
           /\ Sub(q, p.index).result = cells
           /\ ~(sub.remaining > 1) =>
                IF sub.check # {} /\ At(cells, 0) \notin sub.check
                THEN q.index = p.index /\ q.current = "error_read"
                ELSE LeadsTo(c, p, q, p.index + 1)
    BY <1>1, <1>3, <1>5, LongRead
  <2>3. Sub(p, p.index).size - Sub(p, p.index).remaining = 0 /\ p.index + 1 = 2
        /\ ~(Sub(p, p.index).remaining > 1)
    BY <2>1
  <2> QED
    BY <1>6, <2>2, <2>3
<1>8. DOMAIN text = {0, 1} /\ IsCells(text) /\ At(text, 0) = b
  <2>1. DOMAIN Store(<< >>, 0, b) = {0}
    <3>1. DOMAIN Store(<< >>, 0, b) = DOMAIN << >> \cup {0}
      BY StoredDomain
    <3> QED
      BY <3>1
  <2>2. DOMAIN text = DOMAIN Store(<< >>, 0, b) \cup {1}
    <3> DEFINE inner == Store(<< >>, 0, b)
    <3> HIDE DEF inner
    <3>1. DOMAIN Store(inner, 1, 0) = DOMAIN inner \cup {1}
      BY StoredDomain
    <3> QED
      BY <3>1 DEF inner
  <2>3. At(Store(<< >>, 0, b), 0) = b
    BY StoredCell
  <2>4. 0 \in DOMAIN Store(<< >>, 0, b) /\ 0 # 1
    BY <2>1
  <2>5. At(text, 0) = At(Store(<< >>, 0, b), 0)
    BY <2>4, OtherCells
  <2>6. IsCells(text)
    BY StoredIsCells
  <2> HIDE DEF text
  <2> QED
    BY <2>1, <2>2, <2>3, <2>5, <2>6
<1> HIDE DEF text
<1>9. ListParser(c, q)
  <2>1. DOMAIN Sub(q, 1).result \subseteq 0..Sub(q, 1).size
    BY <1>7, <1>8
  <2> QED
    BY <1>4, <1>7, <1>8, <2>1, StaysList
<1>10. CASE c.check # {} /\ b \notin c.check
  BY <1>2, <1>7, <1>8, <1>9, <1>10, ListPhases DEF q, s
<1>11. CASE ~(c.check # {} /\ b \notin c.check)
  <2>1. LeadsTo(c, p, q, 2)
    BY <1>7, <1>8, <1>11
  <2>2. ListIn(c, q, s, 0)
    BY <1>2, <1>7, <1>8, <1>11 DEF ListIn
  <2>3. 0 \in 0..c.texts /\ 2 = Lead(c) + 2 * 0 + 1 /\ Len(s) \in Nat
    BY <1>2, <1>4 DEF IsList
  <2>4. AtEnd(c, q, s) \/ \E i \in 1..c.texts : AtCount(c, q, s, i)
    BY <1>2, <2>1, <2>2, <2>3, NextText
  <2> QED
    BY <1>9, <2>4, ListPhases DEF q, s
<1> QED
  BY <1>10, <1>11

\* The count of text j.
LEMMA CountFeeds ==
    ASSUME NEW c, NEW p, NEW t \in Streams, NEW b \in Byte, IsList(c), ListParser(c, p),
           NEW j \in 1..c.texts, AtCount(c, p, t, j)
    PROVE  ListGood(c, parser_feed(p, b), Append(t, b))
<1> DEFINE s == Append(t, b)
           q == parser_feed(p, b)
           i == CountOf(c, j) + 1
           k == CountAt(c, s, j)
<1>1. Len(t) \in Nat /\ Len(s) = Len(t) + 1 /\ b \in 0..255
  BY OneMoreByte
<1>2. At(s, Len(t) + 1) = b
  BY OneMoreByte
<1>3. p.index = CountOf(c, j) /\ p.current = "read_N" /\ ListIn(c, p, t, j - 1)
      /\ Len(t) + 1 = CountAt(c, t, j)
  BY DEF AtCount
<1>4. c.texts \in 0..2 /\ j \in 1..2 /\ Lead(c) \in 0..1
  BY SizeFacts DEF IsList
<1>5. CountOf(c, j) = Lead(c) + 2 * j - 1 /\ CountOf(c, j) \in 1..Size(c)
      /\ i \in 1..Size(c) /\ (c.lead => Lead(c) = 1)
  BY SizeFacts
<1>6. q = read_N(p, b)
  BY <1>3 DEF parser_feed
<1> HIDE DEF q, s
<1>7. /\ OthersStay(c, p, q, i) /\ Sub(q, i).size = b /\ Sub(q, i).remaining = b
      /\ Sub(q, i).result = IF b = 0 THEN Store(<< >>, 0, 0) ELSE << >>
      /\ LeadsTo(c, p, q, IF b = 0 THEN i + 1 ELSE i)
  <2>1. p.index \in Nat /\ p.index + 1 \in 1..Size(c) /\ p.index + 1 = i
    BY <1>3, <1>5
  <2>2. /\ OthersStay(c, p, q, p.index + 1) /\ Sub(q, p.index + 1).size = b
        /\ Sub(q, p.index + 1).remaining = b
        /\ Sub(q, p.index + 1).result = IF b = 0 THEN Store(<< >>, 0, 0) ELSE << >>
        /\ LeadsTo(c, p, q, IF b = 0 THEN p.index + 1 + 1 ELSE p.index + 1)
    BY <1>1, <1>6, <2>1, ReadN
  <2> HIDE DEF i
  <2> QED
    BY <2>1, <2>2
<1> HIDE DEF i
<1>8. /\ ListIn(c, q, s, j - 1) /\ CountAt(c, s, j) = CountAt(c, t, j)
  <2>1. j - 1 \in 0..c.texts /\ j <= (j - 1) + 1
    BY <1>4
  <2>2. c.lead => 1 \in 1..Size(c) /\ 1 # i
    <3>1. i # 1
      BY <1>4, <1>5 DEF i
    <3> QED
      BY <3>1, SizeFacts
  <2>3. \A h \in 1..(j - 1) : CountOf(c, h) + 1 \in 1..Size(c) /\ CountOf(c, h) + 1 # i
    <3> SUFFICES ASSUME NEW h \in 1..(j - 1)
                 PROVE  CountOf(c, h) + 1 \in 1..Size(c) /\ CountOf(c, h) + 1 # i
      OBVIOUS
    <3>1. h \in 1..c.texts /\ h # j
      BY <1>4
    <3>2. CountOf(c, h) = Lead(c) + 2 * h - 1 /\ CountOf(c, h) + 1 \in 1..Size(c)
      BY <3>1, SizeFacts
    <3> QED
      BY <1>4, <1>5, <3>1, <3>2 DEF i
  <2>4. c.lead => Sub(q, 1) = Sub(p, 1)
    BY <1>7, <2>2 DEF OthersStay
  <2>5. \A h \in 1..(j - 1) : Sub(q, CountOf(c, h) + 1) = Sub(p, CountOf(c, h) + 1)
    BY <1>7, <2>3 DEF OthersStay
  <2> QED
    BY <1>3, <2>1, <2>4, <2>5, ListInOn DEF s
<1>9. k = Len(t) + 1 /\ k \in Nat \ {0} /\ Len(s) = k /\ At(s, k) = b /\ After(s, k) = k + b + 1
  BY <1>1, <1>2, <1>3, <1>8, AfterAt
<1> HIDE DEF k
<1>10. ListParser(c, q) /\ (b = 0 => 0 \in DOMAIN Sub(q, i).result /\ At(Sub(q, i).result, 0) = 0)
  <2>1. CASE b = 0
    <3>1. DOMAIN Store(<< >>, 0, 0) = DOMAIN << >> \cup {0}
      BY StoredDomain
    <3>2. DOMAIN Store(<< >>, 0, 0) = {0}
      BY <3>1
    <3>3. At(Store(<< >>, 0, 0), 0) = 0
      BY StoredCell
    <3>4. IsCells(Store(<< >>, 0, 0))
      BY StoredIsCells
    <3>5. Sub(q, i).result = Store(<< >>, 0, 0) /\ Sub(q, i).size = 0
      BY <1>7, <2>1
    <3>6. DOMAIN Sub(q, i).result \subseteq 0..Sub(q, i).size
      BY <3>2, <3>5
    <3> QED
      BY <1>5, <1>7, <3>2, <3>3, <3>4, <3>5, <3>6, StaysList
  <2>2. CASE b # 0
    <3>1. Sub(q, i).result = << >>
      BY <1>7, <2>2
    <3>2. IsCells(<< >>) /\ DOMAIN << >> = {}
      BY DEF IsCells
    <3>3. DOMAIN Sub(q, i).result \subseteq 0..Sub(q, i).size
      BY <3>1, <3>2
    <3> QED
      BY <1>5, <1>7, <2>2, <3>1, <3>2, <3>3, StaysList
  <2> QED
    BY <2>1, <2>2
<1>11. CASE b = 0
  <2>1. TextIn(Sub(q, i), s, k)
    <3>1. Cells(Sub(q, i).result, s, k + 1, 0)
      BY DEF Cells
    <3>2. Len(s) >= k /\ Len(s) + 1 >= After(s, k) /\ At(s, k) = 0 /\ Sub(q, i).size = 0
      BY <1>7, <1>9, <1>11
    <3> QED
      BY <1>10, <1>11, <3>1, <3>2 DEF TextIn
  <2>2. ListIn(c, q, s, j)
    <3>1. \A h \in 1..j : h = j \/ h \in 1..(j - 1)
      BY <1>4
    <3>2. \A h \in 1..(j - 1) : TextIn(Sub(q, CountOf(c, h) + 1), s, CountAt(c, s, h))
      BY <1>8 DEF ListIn
    <3>3. TextIn(Sub(q, CountOf(c, j) + 1), s, CountAt(c, s, j))
      BY <2>1 DEF i, k
    <3>4. \A h \in 1..j : TextIn(Sub(q, CountOf(c, h) + 1), s, CountAt(c, s, h))
      BY <3>1, <3>2, <3>3
    <3> QED
      BY <1>8, <3>4 DEF ListIn
  <2>3. Len(s) + 1 = After(s, CountAt(c, s, j))
    BY <1>9, <1>11 DEF k
  <2>4. i + 1 = Lead(c) + 2 * j + 1 /\ j \in 0..c.texts /\ j # 0 /\ Len(s) \in Nat
    BY <1>4, <1>5, <1>9 DEF i
  <2>5. LeadsTo(c, p, q, i + 1)
    BY <1>7, <1>11
  <2>6. AtEnd(c, q, s) \/ \E h \in 1..c.texts : AtCount(c, q, s, h)
    BY <2>2, <2>3, <2>4, <2>5, NextText
  <2> QED
    BY <1>10, <2>6, ListPhases DEF q, s
<1>12. CASE b # 0
  <2>1. LeadsTo(c, p, q, i) /\ ~(i > Size(c))
    BY <1>4, <1>5, <1>7, <1>12 DEF Size
  <2>2. Sub(p, i).state = "long_read"
    BY DEF ListParser, i
  <2>3. q.index = i /\ q.current = "long_read"
    BY <2>1, <2>2 DEF LeadsTo
  <2>4. Cells(Sub(q, i).result, s, k + 1, Len(s) - k)
    <3>1. Len(s) - k = 0
      BY <1>9
    <3> QED
      BY <3>1 DEF Cells
  <2>5. b \in 1..255 /\ Len(s) + b + 1 = After(s, k)
    BY <1>1, <1>9, <1>12
  <2>6. /\ Sub(q, i).size = At(s, k) /\ Sub(q, i).remaining \in 1..255
        /\ Len(s) + Sub(q, i).remaining + 1 = After(s, k)
    BY <1>7, <1>9, <2>5
  <2>7. Len(s) >= k
    BY <1>9
  <2>8. AtText(c, q, s, j)
    BY <1>8, <2>3, <2>4, <2>6, <2>7 DEF AtText, i, k
  <2> QED
    BY <1>10, <2>8, ListPhases DEF q, s
<1> QED
  BY <1>11, <1>12

\* A byte of text j.
LEMMA TextFeeds ==
    ASSUME NEW c, NEW p, NEW t \in Streams, NEW b \in Byte, IsList(c), ListParser(c, p),
           NEW j \in 1..c.texts, AtText(c, p, t, j)
    PROVE  ListGood(c, parser_feed(p, b), Append(t, b))
<1> DEFINE s == Append(t, b)
           q == parser_feed(p, b)
           i == CountOf(c, j) + 1
           k == CountAt(c, t, j)
           L == Len(t)
           z == Sub(p, i).size
           r == Sub(p, i).remaining
           old == Sub(p, i).result
           new == Sub(q, i).result
           n == L - k
           put == Store(old, n, b)
<1>1. L \in Nat /\ Len(s) = L + 1 /\ b \in 0..255
  BY OneMoreByte
<1>2. At(s, L + 1) = b
  BY OneMoreByte
<1>3. \A h \in 1..L : At(s, h) = At(t, h) /\ At(t, h) \in 0..255
  BY OneMoreByte
<1>4. p.index = i /\ p.current = "long_read" /\ ListIn(c, p, t, j - 1)
  BY DEF AtText
<1>5. L >= k /\ z = At(t, k) /\ r \in 1..255 /\ L + r + 1 = After(t, k) /\ Cells(old, t, k + 1, n)
  BY <1>4 DEF AtText
<1>6. c.texts \in 0..2 /\ j \in 1..2 /\ Lead(c) \in 0..1
  BY SizeFacts DEF IsList
<1>7. CountOf(c, j) = Lead(c) + 2 * j - 1 /\ i \in 1..Size(c)
  BY SizeFacts
<1>8. (c.lead => Lead(c) = 1 /\ 1 \in 1..Size(c)) /\ Size(c) \in Nat
  BY SizeFacts
<1>9. q = long_read(p, b)
  BY <1>4 DEF parser_feed
<1>10. Sub(p, i).check = {} /\ IsSub(Sub(p, i))
  BY <1>7 DEF ListParser
<1>11. k \in Nat \ {0}
  <2>1. j - 1 \in 0..c.texts /\ j <= (j - 1) + 1
    BY <1>6
  <2>2. c.lead => Sub(p, 1) = Sub(p, 1)
    OBVIOUS
  <2> QED
    BY <1>4, <2>1, ListInOn
<1>12. After(t, k) = k + z + 1
  BY <1>5, AfterAt
<1>13. z \in 0..255
  <2>1. k \in 1..L
    BY <1>1, <1>5, <1>11
  <2> QED
    BY <1>3, <1>5, <2>1
<1> HIDE DEF q, s, i, k, L, z, r
<1>14. r \in 1..255 /\ z - r = n /\ n \in Nat /\ r = z - n /\ n < z
  <2>1. r \in 1..255
    BY <1>5
  <2>2. L + r + 1 = k + z + 1
    BY <1>5, <1>12
  <2> QED
    BY <1>1, <1>5, <1>11, <1>13, <2>1, <2>2
<1>15. /\ OthersStay(c, p, q, i) /\ Sub(q, i).size = z /\ Sub(q, i).remaining = r - 1
       /\ new = IF r > 1 THEN put ELSE Store(put, z, 0)
       /\ IF r > 1 THEN q.index = i /\ q.current = p.current ELSE LeadsTo(c, p, q, i + 1)
  <2>1. p.index \in 1..Size(c) /\ Sub(p, p.index).remaining \in 1..255
    BY <1>4, <1>7, <1>14 DEF r, i
  <2>2. LET sub == Sub(p, p.index)
            first == Store(sub.result, sub.size - sub.remaining, b)
            text == IF sub.remaining > 1 THEN first ELSE Store(first, sub.size, 0)
        IN /\ OthersStay(c, p, q, p.index) /\ Sub(q, p.index).size = sub.size
           /\ Sub(q, p.index).remaining = sub.remaining - 1 /\ Sub(q, p.index).result = text
           /\ IF sub.remaining > 1 THEN q.index = p.index /\ q.current = p.current
              ELSE IF sub.check # {} /\ At(text, 0) \notin sub.check
              THEN q.index = p.index /\ q.current = "error_read"
              ELSE LeadsTo(c, p, q, p.index + 1)
    BY <1>1, <1>9, <2>1, LongRead
  <2>3. Sub(p, p.index) = Sub(p, i) /\ Sub(p, i).size - Sub(p, i).remaining = n
    BY <1>4, <1>14 DEF z, r
  <2> HIDE DEF n
  <2> QED
    BY <1>4, <1>10, <2>2, <2>3 DEF z, r
<1>16. /\ ListIn(c, q, s, j - 1) /\ CountAt(c, s, j) = k
  <2>1. j - 1 \in 0..c.texts /\ j <= (j - 1) + 1
    BY <1>6
  <2>2. c.lead => 1 # i
    <3>1. i = Lead(c) + 2 * j - 1 + 1
      BY <1>7 DEF i
    <3> QED
      BY <1>6, <3>1
  <2>3. \A h \in 1..(j - 1) : CountOf(c, h) + 1 \in 1..Size(c) /\ CountOf(c, h) + 1 # i
    <3> SUFFICES ASSUME NEW h \in 1..(j - 1)
                 PROVE  CountOf(c, h) + 1 \in 1..Size(c) /\ CountOf(c, h) + 1 # i
      OBVIOUS
    <3>1. h \in 1..c.texts /\ h # j
      BY <1>6
    <3>2. CountOf(c, h) = Lead(c) + 2 * h - 1 /\ CountOf(c, h) + 1 \in 1..Size(c)
      BY <3>1, SizeFacts
    <3> QED
      BY <1>6, <1>7, <3>1, <3>2 DEF i
  <2>4. c.lead => Sub(q, 1) = Sub(p, 1)
    BY <1>8, <1>15, <2>2 DEF OthersStay
  <2>5. \A h \in 1..(j - 1) : Sub(q, CountOf(c, h) + 1) = Sub(p, CountOf(c, h) + 1)
    BY <1>15, <2>3 DEF OthersStay
  <2> QED
    BY <1>4, <2>1, <2>4, <2>5, ListInOn DEF s, k
<1>17. At(s, k) = z /\ After(s, k) = k + z + 1
  <2>1. k \in 1..L
    BY <1>1, <1>5, <1>11
  <2>2. At(s, k) = z
    BY <1>3, <1>5, <2>1
  <2> QED
    BY <2>2, AfterAt
<1>18. Cells(put, s, k + 1, n + 1)
  <2>1. \A h \in 0..(n - 1) : k + 1 + h \in 1..L
    BY <1>1, <1>11, <1>14
  <2>2. \A h \in 0..(n - 1) : At(s, k + 1 + h) = At(t, k + 1 + h)
    BY <1>3, <2>1
  <2>3. k + 1 + n = L + 1 /\ k + 1 \in Nat
    BY <1>1, <1>11
  <2>4. At(s, k + 1 + n) = b
    BY <1>2, <2>3
  <2> HIDE DEF n
  <2> QED
    BY <1>5, <1>14, <2>2, <2>3, <2>4, StoredNext
<1>19. DOMAIN put \subseteq 0..z /\ IsCells(put)
  <2>1. DOMAIN put = DOMAIN old \cup {n}
    BY StoredDomain
  <2>2. DOMAIN old \subseteq 0..z
    BY <1>10 DEF IsSub, z
  <2>3. n \in 0..z
    BY <1>13, <1>14
  <2>4. IsCells(put)
    BY StoredIsCells
  <2> HIDE DEF put, n
  <2> QED
    BY <2>1, <2>2, <2>3, <2>4
<1>20. Len(s) = k + n + 1 /\ Len(s) \in Nat
  BY <1>1, <1>11, <1>14
<1> HIDE DEF put, n, old, new
<1>21. CASE r > 1
  <2>1. new = put /\ q.index = i /\ q.current = "long_read"
    BY <1>4, <1>15, <1>21
  <2>2. ListParser(c, q)
    <3>1. DOMAIN Sub(q, i).result \subseteq 0..Sub(q, i).size /\ IsCells(Sub(q, i).result)
      BY <1>15, <1>19, <2>1 DEF new
    <3> QED
      BY <1>7, <1>15, <3>1, StaysList DEF i
  <2>3. Len(s) >= k /\ r - 1 \in 1..255 /\ Len(s) + (r - 1) + 1 = k + z + 1 /\ Len(s) - k = n + 1
    BY <1>11, <1>13, <1>14, <1>20, <1>21
  <2>4. Cells(Sub(q, i).result, s, k + 1, Len(s) - k)
    BY <1>18, <2>1, <2>3 DEF new
  <2>5. /\ Sub(q, i).size = At(s, k) /\ Sub(q, i).remaining \in 1..255
        /\ Len(s) + Sub(q, i).remaining + 1 = After(s, k)
    BY <1>15, <1>17, <2>3
  <2>6. AtText(c, q, s, j)
    BY <1>16, <2>1, <2>3, <2>4, <2>5 DEF AtText, i
  <2> QED
    BY <2>2, <2>6, ListPhases DEF q, s
<1>22. CASE ~(r > 1)
  <2>1. new = Store(put, z, 0) /\ LeadsTo(c, p, q, i + 1)
    BY <1>15, <1>22
  <2>2. n + 1 = z
    BY <1>13, <1>14, <1>22
  <2>3. DOMAIN new = DOMAIN put \cup {z} /\ IsCells(new)
    BY <2>1, StoredDomain, StoredIsCells
  <2>4. z \in DOMAIN new /\ DOMAIN new \subseteq 0..z
    BY <1>13, <1>19, <2>3
  <2>5. At(new, z) = 0
    BY <2>1, StoredCell
  <2>6. Cells(new, s, k + 1, z)
    <3>1. \A h \in 0..(z - 1) : h \in DOMAIN put /\ At(put, h) = At(s, k + 1 + h)
      BY <1>18, <2>2 DEF Cells
    <3>2. \A h \in 0..(z - 1) : h # z
      BY <1>13
    <3>3. \A h \in 0..(z - 1) : At(new, h) = At(put, h) /\ h \in DOMAIN new
      BY <2>1, <2>3, <3>1, <3>2, OtherCells
    <3> QED
      BY <3>1, <3>3 DEF Cells
  <2>7. ListParser(c, q)
    <3>1. DOMAIN Sub(q, i).result \subseteq 0..Sub(q, i).size /\ IsCells(Sub(q, i).result)
      BY <1>15, <2>3, <2>4 DEF new
    <3> QED
      BY <1>7, <1>15, <3>1, StaysList DEF i
  <2>8. Len(s) >= k /\ Len(s) + 1 = k + z + 1
    BY <1>11, <1>13, <1>14, <1>20, <2>2
  <2>9. TextIn(Sub(q, i), s, k)
    <3>1. Len(s) + 1 >= After(s, k)
      BY <1>17, <1>20, <2>8
    <3> QED
      BY <1>15, <1>17, <2>4, <2>5, <2>6, <2>8, <3>1 DEF TextIn, new
  <2>10. ListIn(c, q, s, j)
    <3>1. \A h \in 1..j : h = j \/ h \in 1..(j - 1)
      BY <1>6
    <3>2. \A h \in 1..(j - 1) : TextIn(Sub(q, CountOf(c, h) + 1), s, CountAt(c, s, h))
      BY <1>16 DEF ListIn
    <3>3. TextIn(Sub(q, CountOf(c, j) + 1), s, CountAt(c, s, j))
      BY <1>16, <2>9 DEF i
    <3>4. \A h \in 1..j : TextIn(Sub(q, CountOf(c, h) + 1), s, CountAt(c, s, h))
      BY <3>1, <3>2, <3>3
    <3> QED
      BY <1>16, <3>4 DEF ListIn
  <2>11. Len(s) + 1 = After(s, CountAt(c, s, j))
    BY <1>16, <1>17, <2>8
  <2>12. i + 1 = Lead(c) + 2 * j + 1 /\ j \in 0..c.texts /\ j # 0
    BY <1>6, <1>7 DEF i
  <2>13. AtEnd(c, q, s) \/ \E h \in 1..c.texts : AtCount(c, q, s, h)
    BY <1>20, <2>1, <2>10, <2>11, <2>12, NextText
  <2> QED
    BY <2>7, <2>13, ListPhases DEF q, s
<1> QED
  BY <1>21, <1>22

LEMMA ListFeeds ==
    ASSUME NEW c, NEW p, NEW t \in Streams, NEW b \in Byte, IsList(c), ListGood(c, p, t), ~is_done(p)
    PROVE  ListGood(c, parser_feed(p, b), Append(t, b))
<1>1. ListParser(c, p)
  BY ListPhases
<1>2. CASE /\ c.lead /\ p.index = 1 /\ p.current = "long_read" /\ t = << >>
           /\ Sub(p, 1).size = 1 /\ Sub(p, 1).remaining = 1 /\ Sub(p, 1).result = << >>
  BY <1>1, <1>2, LeadFeeds
<1>3. ASSUME NEW j \in 1..c.texts, AtCount(c, p, t, j) PROVE ListGood(c, parser_feed(p, b), Append(t, b))
  BY <1>1, <1>3, CountFeeds
<1>4. ASSUME NEW j \in 1..c.texts, AtText(c, p, t, j) PROVE ListGood(c, parser_feed(p, b), Append(t, b))
  BY <1>1, <1>4, TextFeeds
<1>5. ~AtEnd(c, p, t) /\ p.current # "error_read"
  BY DEF AtEnd, is_done
<1> QED
  BY <1>2, <1>3, <1>4, <1>5, ListPhases

-----------------------------------------------------------------------------
(* A whole read *)

LEMMA HelloReads ==
    ASSUME NEW c, c.kind = "hello", NEW p, NEW s \in Streams, NEW bytes \in Streams, HelloGood(c, p, s)
    PROVE  LET r == hello_consume(p, bytes)
           IN /\ r.taken \in 0..Len(bytes)
              /\ HelloGood(c, r.parser, s \o SubSeq(bytes, 1, r.taken))
<1> DEFINE r == hello_consume(p, bytes)
<1>1. Consumed(r, c.kind, p, bytes)
  BY HelloConsumed
<1>2. \A q, t : Good(c, q, t) <=> HelloGood(c, q, t)
  BY DEF Good
<1>3. ASSUME NEW q, NEW b \in Byte, NEW t \in Streams, Good(c, q, t), ~Done(c.kind, q)
      PROVE  Good(c, Feed(c.kind, q, b), Append(t, b))
  BY <1>2, <1>3, HelloFeeds DEF Feed, Done
<1> HIDE DEF r
<1>4. r.taken \in 0..Len(bytes) /\ Good(c, r.parser, s \o SubSeq(bytes, 1, r.taken))
  BY <1>1, <1>2, <1>3, RunGood
<1> QED
  BY <1>2, <1>4 DEF r

LEMMA ListReads ==
    ASSUME NEW c, c.kind = "list", IsList(c), NEW p, NEW s \in Streams, NEW bytes \in Streams,
           ListGood(c, p, s)
    PROVE  LET r == consume(p, bytes)
           IN /\ r.taken \in 0..Len(bytes)
              /\ ListGood(c, r.parser, s \o SubSeq(bytes, 1, r.taken))
<1> DEFINE r == consume(p, bytes)
<1>1. Consumed(r, c.kind, p, bytes)
  BY ListConsumed
<1>2. \A q, t : Good(c, q, t) <=> ListGood(c, q, t)
  BY DEF Good
<1>3. ASSUME NEW q, NEW b \in Byte, NEW t \in Streams, Good(c, q, t), ~Done(c.kind, q)
      PROVE  Good(c, Feed(c.kind, q, b), Append(t, b))
  BY <1>2, <1>3, ListFeeds DEF Feed, Done
<1> HIDE DEF r
<1>4. r.taken \in 0..Len(bytes) /\ Good(c, r.parser, s \o SubSeq(bytes, 1, r.taken))
  BY <1>1, <1>2, <1>3, RunGood
<1> QED
  BY <1>2, <1>4 DEF r

LEMMA RequestReads ==
    ASSUME NEW p, NEW s \in Streams, NEW bytes \in Streams, RequestGood(p, s)
    PROVE  LET r == request_consume(p, bytes)
           IN /\ r.taken \in 0..Len(bytes)
              /\ RequestGood(r.parser, s \o SubSeq(bytes, 1, r.taken))
<1> DEFINE r == request_consume(p, bytes)
           c == Request
<1>1. Consumed(r, c.kind, p, bytes) /\ c.kind = "request" /\ ~c.stuck
  BY RequestConsumed DEF Request
<1> HIDE DEF r, c
<1>2. \A q, t : Good(c, q, t) <=> RequestGood(q, t)
  BY <1>1 DEF Good
<1>3. ASSUME NEW q, NEW b \in Byte, NEW t \in Streams, Good(c, q, t), ~Done(c.kind, q)
      PROVE  Good(c, Feed(c.kind, q, b), Append(t, b))
  BY <1>1, <1>2, <1>3, RequestFeeds DEF Feed, Done
<1>4. r.taken \in 0..Len(bytes) /\ Good(c, r.parser, s \o SubSeq(bytes, 1, r.taken))
  BY <1>1, <1>2, <1>3, RunGood
<1> QED
  BY <1>2, <1>4 DEF r

\* A refused request ignores what follows.
LEMMA RefusedReads ==
    ASSUME NEW p, NEW bytes \in Streams, p.state \in ErrorStates
    PROVE  LET r == request_consume(p, bytes)
           IN r.taken \in 0..Len(bytes) /\ r.parser = p
<1> DEFINE r == request_consume(p, bytes)
           c == [kind |-> "request", stuck |-> TRUE, parser |-> p]
<1>1. Consumed(r, c.kind, p, bytes) /\ c.kind = "request" /\ c.stuck /\ c.parser = p
  BY RequestConsumed
<1> HIDE DEF r, c
<1>2. \A q, t : Good(c, q, t) <=> q = p
  BY <1>1 DEF Good
<1>3. ASSUME NEW q, NEW b \in Byte, NEW t \in Streams, Good(c, q, t), ~Done(c.kind, q)
      PROVE  Good(c, Feed(c.kind, q, b), Append(t, b))
  <2>1. request_parser_feed(p, b) = p
    BY DEF request_parser_feed, ErrorStates
  <2> QED
    BY <1>1, <1>2, <1>3, <2>1 DEF Feed
<1>4. << >> \in Streams
  BY DEF Streams
<1>5. r.taken \in 0..Len(bytes) /\ Good(c, r.parser, << >> \o SubSeq(bytes, 1, r.taken))
  BY <1>1, <1>2, <1>3, <1>4, RunGood
<1> QED
  BY <1>2, <1>5 DEF r

-----------------------------------------------------------------------------
(* The buffers *)

LEMMA EmptyBuffer ==
    ASSUME NEW size \in Nat
    PROVE  Buffered(Empty, size) /\ Empty.bytes = << >> /\ Empty.write = 0
BY DEF Buffered, Empty

LEMMA Pended ==
    ASSUME NEW size \in Nat, NEW bytes \in Seq(0..255), NEW w \in 0..size, Len(bytes) <= w
    PROVE  /\ Buffered(Pend(bytes, w), size) /\ Pend(bytes, w).bytes = bytes
           /\ Pend(bytes, w).write = IF bytes = << >> THEN 0 ELSE w
<1>1. CASE bytes = << >>
  BY <1>1, EmptyBuffer DEF Pend
<1>2. CASE bytes # << >>
  <2> DEFINE b == [bytes |-> bytes, write |-> w]
  <2>1. Pend(bytes, w) = b
    BY <1>2 DEF Pend
  <2>2. b.bytes = bytes /\ b.write = w /\ b = [g \in {"bytes", "write"} |-> b[g]]
    OBVIOUS
  <2> HIDE DEF b
  <2> QED
    BY <1>2, <2>1, <2>2 DEF Buffered
<1> QED
  BY <1>1, <1>2

\* What is cut off the front of a sequence, and what is left of it.
LEMMA CutFront ==
    ASSUME NEW S, NEW s \in Seq(S), NEW n \in 0..Len(s)
    PROVE  /\ SubSeq(s, 1, n) \in Seq(S) /\ SubSeq(s, n + 1, Len(s)) \in Seq(S)
           /\ Len(SubSeq(s, n + 1, Len(s))) = Len(s) - n
           /\ SubSeq(s, 1, n) \o SubSeq(s, n + 1, Len(s)) = s
<1>1. Len(s) \in Nat /\ n \in Nat
  OBVIOUS
<1>2. \A i \in 1..Len(s) : s[i] \in S
  BY ElementOfSeq
<1>3. SubSeq(s, 1, n) \in Seq(S)
  <2>1. \A i \in 1..n : s[i] \in S
    BY <1>1, <1>2
  <2> QED
    BY <1>1, <2>1, SubSeqProperties
<1>4. SubSeq(s, n + 1, Len(s)) \in Seq(S)
      /\ Len(SubSeq(s, n + 1, Len(s))) = Len(s) - n
  <2>1. \A i \in (n + 1)..Len(s) : s[i] \in S
    BY <1>1, <1>2
  <2>2. Len(SubSeq(s, n + 1, Len(s))) = IF n + 1 <= Len(s) THEN Len(s) - (n + 1) + 1 ELSE 0
    BY <1>1, <2>1, SubSeqProperties
  <2>3. SubSeq(s, n + 1, Len(s)) \in Seq(S)
    BY <1>1, <2>1, SubSeqProperties
  <2> QED
    BY <1>1, <2>2, <2>3
<1>5. SubSeq(s, 1, n) \o SubSeq(s, n + 1, Len(s)) = SubSeq(s, 1, Len(s))
  <2>1. 1 \in 1..(Len(s) + 1) /\ n \in (1 - 1)..Len(s) /\ Len(s) \in n..Len(s)
    BY <1>1
  <2> QED
    BY <2>1, ConcatAdjacentSubSeq
<1> QED
  BY <1>3, <1>4, <1>5, SubSeqFull

LEMMA ByteSeqs == Streams \subseteq Seq(0..255)
<1>1. \A s \in Seq(Byte) : s \in Seq(0..255)
  BY ByteAssumption, SeqMonotonic
<1> QED
  BY <1>1 DEF Streams

LEMMA StreamConcat ==
    ASSUME NEW s \in Streams, NEW t \in Streams
    PROVE  s \o t \in Streams /\ Len(s \o t) = Len(s) + Len(t) /\ Len(s) \in Nat /\ Len(t) \in Nat
BY ConcatProperties DEF Streams

LEMMA StreamCut ==
    ASSUME NEW s \in Streams, NEW n \in 0..Len(s)
    PROVE  /\ SubSeq(s, 1, n) \in Streams /\ SubSeq(s, n + 1, Len(s)) \in Streams
           /\ Len(SubSeq(s, n + 1, Len(s))) = Len(s) - n /\ Len(s) \in Nat
BY CutFront DEF Streams

\* A recv() of data, of which the parser takes a part.
LEMMA Received ==
    ASSUME Buffered(rb, RbSize), rb.bytes \in Streams, NEW data \in Streams, Len(data) <= Room,
           NEW r, r.taken \in 0..Len(rb.bytes \o data), Receives(r, data)
    PROVE  /\ Buffered(rb, RbSize)' /\ (rb.bytes \in Streams)' /\ got' = << >>
           /\ Taken(r, data) \in Streams
<1> DEFINE bytes == rb.bytes \o data
           left == SubSeq(bytes, r.taken + 1, Len(bytes))
           n == r.taken
<1>1. bytes \in Streams /\ Len(bytes) = Len(rb.bytes) + Len(data) /\ Len(rb.bytes) \in Nat
      /\ Len(data) \in Nat
  BY StreamConcat
<1>2. n \in 0..Len(bytes)
  OBVIOUS
<1> HIDE DEF bytes
<1>3. left \in Streams /\ Len(left) = Len(bytes) - n /\ SubSeq(bytes, 1, n) \in Streams
  BY <1>1, <1>2, StreamCut
<1>4. rb.write \in 0..RbSize /\ Len(rb.bytes) <= rb.write /\ RbSize \in Nat
      /\ Len(data) <= RbSize - rb.write
  BY BoundsAssumption DEF Buffered, Room
<1>5. rb.write + Len(data) \in 0..RbSize /\ Len(left) <= rb.write + Len(data)
  <2> DEFINE w == rb.write
  <2> HIDE DEF left, w, n
  <2>1. w \in 0..RbSize /\ Len(rb.bytes) <= w /\ Len(data) <= RbSize - w /\ RbSize \in Nat
    BY <1>4 DEF w
  <2>2. w + Len(data) \in 0..RbSize /\ Len(left) <= w + Len(data)
    BY <1>1, <1>2, <1>3, <2>1
  <2> QED
    BY <2>2 DEF w
<1>6. rb' = Pend(left, rb.write + Len(data)) /\ got' = << >>
  BY DEF Receives, bytes
<1>7. left \in Seq(0..255)
  BY <1>3, ByteSeqs
<1> HIDE DEF left
<1>8. Buffered(Pend(left, rb.write + Len(data)), RbSize)
      /\ Pend(left, rb.write + Len(data)).bytes = left
  BY <1>4, <1>5, <1>7, Pended
<1>9. Buffered(rb', RbSize) /\ rb'.bytes \in Streams
  BY <1>3, <1>6, <1>8
<1> QED
  BY <1>3, <1>6, <1>9 DEF Taken, bytes, n

\* send() takes n bytes.
LEMMA SentPart ==
    ASSUME NEW size \in Nat, NEW b, Buffered(b, size), NEW n \in 0..Len(b.bytes)
    PROVE  /\ Buffered(Sent(b, n), size) /\ SubSeq(b.bytes, 1, n) \in Seq(0..255)
           /\ Sent(b, n).bytes \in Seq(0..255)
           /\ SubSeq(b.bytes, 1, n) \o Sent(b, n).bytes = b.bytes
           /\ n = Len(b.bytes) => Sent(b, n) = Empty
<1> DEFINE s == b.bytes
           left == SubSeq(s, n + 1, Len(s))
<1>1. s \in Seq(0..255) /\ b.write \in 0..size /\ Len(s) <= b.write /\ Len(s) \in Nat
  BY DEF Buffered
<1>2. left \in Seq(0..255) /\ Len(left) = Len(s) - n /\ SubSeq(s, 1, n) \in Seq(0..255)
      /\ SubSeq(s, 1, n) \o left = s
  BY <1>1, CutFront
<1>3. Len(left) <= b.write
  <2> DEFINE w == b.write
  <2>1. w \in 0..size /\ Len(s) <= w /\ Len(s) \in Nat
    BY <1>1
  <2> HIDE DEF w, s, left
  <2> QED
    BY <1>2, <2>1 DEF w
<1>4. Sent(b, n) = Pend(left, b.write)
  BY DEF Sent
<1>5. n = Len(s) => left = << >>
  <2>1. n = Len(s) => Len(left) = 0
    BY <1>1, <1>2
  <2> QED
    BY <1>2, <2>1, EmptySeq
<1> HIDE DEF left, s
<1>6. Buffered(Pend(left, b.write), size) /\ Pend(left, b.write).bytes = left
  BY <1>1, <1>2, <1>3, Pended
<1>7. n = Len(s) => Sent(b, n) = Empty
  BY <1>4, <1>5 DEF Pend
<1> QED
  BY <1>2, <1>4, <1>6, <1>7 DEF s

\* A reply is marshalled where it fits.
LEMMA WrittenMore ==
    ASSUME NEW size \in Nat, NEW b, Buffered(b, size), NEW m \in Seq(0..255),
           Len(m) <= size - b.write
    PROVE  Buffered(Written(b, m), size) /\ Written(b, m).bytes = b.bytes \o m
<1> DEFINE s == b.bytes
           w == b.write
<1>1. s \in Seq(0..255) /\ w \in 0..size /\ Len(s) <= w /\ Len(s) \in Nat /\ Len(m) \in Nat
      /\ Len(m) <= size - w
  BY DEF Buffered
<1>2. s \o m \in Seq(0..255) /\ Len(s \o m) = Len(s) + Len(m)
  BY <1>1, ConcatProperties
<1>3. Written(b, m) = Pend(s \o m, w + Len(m))
  BY DEF Written
<1> HIDE DEF s, w
<1>4. w + Len(m) \in 0..size /\ Len(s \o m) <= w + Len(m)
  BY <1>1, <1>2
<1>5. Buffered(Pend(s \o m, w + Len(m)), size) /\ Pend(s \o m, w + Len(m)).bytes = s \o m
  BY <1>2, <1>4, Pended
<1> QED
  BY <1>3, <1>5 DEF s

-----------------------------------------------------------------------------
(* The stages begin *)

LEMMA Contexts ==
    /\ Greeting.kind = "hello" /\ Greeting.version = Version /\ Greeting.wanted = Wanted
    /\ Login.kind = "list" /\ IsList(Login) /\ Login.lead /\ Login.texts = 2
    /\ Login.check = checkVersion
    /\ \A index : /\ Command(index).kind = "list" /\ IsList(Command(index))
                  /\ Command(index).check = {} /\ Command(index).lead = (index \in OnOff)
                  /\ index = add_user => Command(index).texts = 2
                  /\ index = delete_user => Command(index).texts = 1
                  /\ index \in OnOff => Command(index).texts = 0
BY DEF Greeting, Login, Command, IsList, add_user, delete_user, OnOff

\* A list begins with its lead byte or with a count.
LEMMA Begun ==
    ASSUME NEW c, IsList(c), NEW p, ListParser(c, p), p.index = 1, p.current = Sub(p, 1).state,
           c.lead => Sub(p, 1).size = 1 /\ Sub(p, 1).remaining = 1 /\ Sub(p, 1).result = << >>,
           ~c.lead => c.texts # 0
    PROVE  ListGood(c, p, << >>) /\ ~is_done(p)
<1>1. CASE c.lead
  <2>1. p.current = "long_read"
    BY <1>1 DEF ListParser
  <2> QED
    BY <1>1, <2>1, ListPhases DEF is_done
<1>2. CASE ~c.lead
  <2>1. 1 \in 1..c.texts /\ Lead(c) = 0
    BY <1>2 DEF IsList, Lead
  <2>2. CountOf(c, 1) = 1 /\ CountAt(c, << >>, 1) = 1
    BY <2>1 DEF CountOf, CountAt
  <2>3. p.current = "read_N"
    BY <2>1, <2>2 DEF ListParser
  <2>4. ListIn(c, p, << >>, 1 - 1)
    BY <1>2 DEF ListIn
  <2>5. AtCount(c, p, << >>, 1)
    BY <2>2, <2>3, <2>4 DEF AtCount
  <2> QED
    BY <2>1, <2>3, <2>5, ListPhases DEF is_done
<1> QED
  BY <1>1, <1>2

LEMMA LoginBegins == ListGood(Login, auth_read_init, << >>) /\ ~is_done(auth_read_init)
<1> DEFINE p == auth_read_init
           c == Login
<1>1. p = [states |-> <<OneByte(checkVersion), Count, Counted, Count, Counted>>, index |-> 1,
           current |-> "long_read"]
  BY DEF auth_read_init, parser_init, OneByte, Substate
<1> HIDE DEF p
<1>2. /\ Sub(p, 1) = OneByte(checkVersion) /\ Sub(p, 2) = Count /\ Sub(p, 3) = Counted
      /\ Sub(p, 4) = Count /\ Sub(p, 5) = Counted
  BY <1>1 DEF Sub
<1>3. Size(c) = 5 /\ c.texts = 2 /\ c.lead /\ Lead(c) = 1 /\ c.check = checkVersion
  BY DEF Size, Lead, Login
<1>4. p.states = [i \in 1..5 |-> Sub(p, i)]
  BY <1>1 DEF Sub
<1>5. IsSub(Count) /\ IsSub(Counted) /\ IsSub(OneByte(checkVersion))
  BY DEF IsSub, Count, Counted, OneByte, Substate, SubFields, IsCells
<1>6. \A i \in 1..5 : IsSub(Sub(p, i))
  BY <1>2, <1>5
<1>7. /\ CountOf(c, 1) = 2 /\ CountOf(c, 2) = 4
  BY <1>3 DEF CountOf
<1>8. /\ Count.state = "read_N" /\ Counted.state = "long_read" /\ Counted.check = {}
      /\ OneByte(checkVersion).state = "long_read" /\ OneByte(checkVersion).check = checkVersion
      /\ OneByte(checkVersion).size = 1 /\ OneByte(checkVersion).remaining = 1
      /\ OneByte(checkVersion).result = << >>
  BY DEF Count, Counted, OneByte, Substate
<1>9. \A j \in 1..2 :
          /\ Sub(p, CountOf(c, j)).state = "read_N"
          /\ Sub(p, CountOf(c, j) + 1).state = "long_read"
          /\ Sub(p, CountOf(c, j) + 1).check = {}
  <2>1. \A j \in 1..2 : j = 1 \/ j = 2
    OBVIOUS
  <2> QED
    BY <1>2, <1>7, <1>8, <2>1
<1>10. p = [g \in {"states", "index", "current"} |-> p[g]] /\ p.index = 1 /\ p.current = "long_read"
  BY <1>1
<1>11. ListParser(c, p)
  BY <1>2, <1>3, <1>4, <1>6, <1>8, <1>9, <1>10 DEF ListParser
<1> HIDE DEF c
<1> QED
  BY <1>2, <1>3, <1>8, <1>10, <1>11, Begun, Contexts DEF c, p

LEMMA CommandBegins ==
    ASSUME NEW index \in {add_user, delete_user} \cup OnOff
    PROVE  ListGood(Command(index), mng_request_init(index), << >>)
           /\ ~is_done(mng_request_init(index))
<1> DEFINE p == mng_request_init(index)
           c == Command(index)
<1>0. IsList(c)
  BY Contexts
<1>1. /\ IsSub(Count) /\ IsSub(Counted) /\ IsSub(OneByte({})) /\ Count.state = "read_N"
      /\ Counted.state = "long_read" /\ Counted.check = {} /\ OneByte({}).state = "long_read"
      /\ OneByte({}).check = {} /\ OneByte({}).size = 1 /\ OneByte({}).remaining = 1
      /\ OneByte({}).result = << >>
  BY DEF IsSub, Count, Counted, OneByte, Substate, SubFields, IsCells
<1>2. CASE index = add_user
  <2>1. p = [states |-> <<Count, Counted, Count, Counted>>, index |-> 1, current |-> "read_N"]
    BY <1>1, <1>2 DEF mng_request_init, parser_init, add_user, delete_user
  <2>2. ~c.lead /\ c.check = {} /\ c.texts = 2 /\ Lead(c) = 0 /\ Size(c) = 4
    <3>1. ~c.lead /\ c.check = {} /\ c.texts = 2
      <4>1. ~(index \in OnOff)
        BY <1>2 DEF add_user, delete_user, OnOff
      <4> QED
        BY <1>2, <4>1, Contexts
    <3> HIDE DEF c
    <3> QED
      BY <3>1 DEF Lead, Size
  <2> HIDE DEF p, c
  <2>3. Sub(p, 1) = Count /\ Sub(p, 2) = Counted /\ Sub(p, 3) = Count /\ Sub(p, 4) = Counted
    BY <2>1 DEF Sub
  <2>4. p.states = [i \in 1..4 |-> Sub(p, i)]
    BY <2>1 DEF Sub
  <2>5. \A i \in 1..4 : IsSub(Sub(p, i))
    BY <1>1, <2>3
  <2>6. CountOf(c, 1) = 1 /\ CountOf(c, 2) = 3
    BY <2>2 DEF CountOf
  <2>7. \A j \in 1..2 :
          /\ Sub(p, CountOf(c, j)).state = "read_N"
          /\ Sub(p, CountOf(c, j) + 1).state = "long_read"
          /\ Sub(p, CountOf(c, j) + 1).check = {}
    <3>1. \A j \in 1..2 : j = 1 \/ j = 2
      OBVIOUS
    <3> QED
      BY <1>1, <2>3, <2>6, <3>1
  <2>8. p = [g \in {"states", "index", "current"} |-> p[g]] /\ p.index = 1 /\ p.current = "read_N"
    BY <2>1
  <2>9. ListParser(c, p)
    BY <2>2, <2>4, <2>5, <2>7, <2>8 DEF ListParser
  <2>10. IsList(c)
    BY <1>0 DEF c
  <2>11. ListGood(c, p, << >>) /\ ~is_done(p)
    BY <1>1, <2>2, <2>3, <2>8, <2>9, <2>10, Begun
  <2> QED
    BY <2>11 DEF c, p
<1>3. CASE index = delete_user
  <2>1. p = [states |-> <<Count, Counted>>, index |-> 1, current |-> "read_N"]
    BY <1>1, <1>3 DEF mng_request_init, parser_init, add_user, delete_user
  <2>2. ~c.lead /\ c.check = {} /\ c.texts = 1 /\ Lead(c) = 0 /\ Size(c) = 2
    <3>1. ~c.lead /\ c.check = {} /\ c.texts = 1
      <4>1. ~(index \in OnOff)
        BY <1>3 DEF add_user, delete_user, OnOff
      <4> QED
        BY <1>3, <4>1, Contexts
    <3> HIDE DEF c
    <3> QED
      BY <3>1 DEF Lead, Size
  <2> HIDE DEF p, c
  <2>3. Sub(p, 1) = Count /\ Sub(p, 2) = Counted
    BY <2>1 DEF Sub
  <2>4. p.states = [i \in 1..2 |-> Sub(p, i)]
    BY <2>1 DEF Sub
  <2>5. \A i \in 1..2 : IsSub(Sub(p, i))
    BY <1>1, <2>3
  <2>6. CountOf(c, 1) = 1
    BY <2>2 DEF CountOf
  <2>7. \A j \in 1..1 :
          /\ Sub(p, CountOf(c, j)).state = "read_N"
          /\ Sub(p, CountOf(c, j) + 1).state = "long_read"
          /\ Sub(p, CountOf(c, j) + 1).check = {}
    <3>1. \A j \in 1..1 : j = 1
      OBVIOUS
    <3> QED
      BY <1>1, <2>3, <2>6, <3>1
  <2>8. p = [g \in {"states", "index", "current"} |-> p[g]] /\ p.index = 1 /\ p.current = "read_N"
    BY <2>1
  <2>9. ListParser(c, p)
    BY <2>2, <2>4, <2>5, <2>7, <2>8 DEF ListParser
  <2>10. IsList(c)
    BY <1>0 DEF c
  <2>11. ListGood(c, p, << >>) /\ ~is_done(p)
    BY <1>1, <2>2, <2>3, <2>8, <2>9, <2>10, Begun
  <2> QED
    BY <2>11 DEF c, p
<1>4. CASE index \in OnOff
  <2>1. p = [states |-> <<OneByte({})>>, index |-> 1, current |-> "long_read"]
    BY <1>1, <1>4 DEF mng_request_init, parser_init, add_user, delete_user, OnOff
  <2>2. c.lead /\ c.check = {} /\ c.texts = 0 /\ Lead(c) = 1 /\ Size(c) = 1
    <3>1. c.lead /\ c.check = {} /\ c.texts = 0
      <4>1. (index \in OnOff)
        BY <1>4 DEF add_user, delete_user, OnOff
      <4> QED
        BY <1>4, <4>1, Contexts
    <3> HIDE DEF c
    <3> QED
      BY <3>1 DEF Lead, Size
  <2> HIDE DEF p, c
  <2>3. Sub(p, 1) = OneByte({})
    BY <2>1 DEF Sub
  <2>4. p.states = [i \in 1..1 |-> Sub(p, i)]
    BY <2>1 DEF Sub
  <2>5. \A i \in 1..1 : IsSub(Sub(p, i))
    BY <1>1, <2>3
  <2>8. p = [g \in {"states", "index", "current"} |-> p[g]] /\ p.index = 1 /\ p.current = "long_read"
    BY <2>1
  <2>9. ListParser(c, p)
    BY <1>1, <2>2, <2>3, <2>4, <2>5, <2>8 DEF ListParser
  <2>10. IsList(c)
    BY <1>0 DEF c
  <2>11. ListGood(c, p, << >>) /\ ~is_done(p)
    BY <1>1, <2>2, <2>3, <2>8, <2>9, <2>10, Begun
  <2> QED
    BY <2>11 DEF c, p
<1> QED
  BY <1>2, <1>3, <1>4

LEMMA RequestBegins ==
    RequestGood(request_parser_init, << >>) /\ request_parser_init.state = "request_version"
BY DEF request_parser_init, RequestGood, Begins, RequestFields

-----------------------------------------------------------------------------
(* The steps of the handshake *)

\* What recv() may return.
LEMMA ReadData ==
    ASSUME Types, stage \in ReadStages, NEW data \in BoundedSeq(Sendable[stage], Room)
    PROVE  data \in Streams /\ Len(data) <= Room
<1>1. Sendable[stage] \subseteq Byte
  BY BoundsAssumption
<1>2. PICK m \in 0..Room : data \in [1..m -> Sendable[stage]]
  BY DEF BoundedSeq, SeqOf
<1>3. data \in [1..m -> Byte] /\ m \in Nat
  BY <1>1, <1>2
<1>4. data \in Seq(Byte) /\ Len(data) = m
  BY <1>3
<1> QED
  BY <1>2, <1>4 DEF Streams

LEMMA InitInv == Init => HandshakeInv
<1> SUFFICES ASSUME Init PROVE HandshakeInv
  OBVIOUS
<1>1. RbSize \in Nat /\ WbSize \in Nat
  BY BoundsAssumption
<1>2. Buffered(rb, RbSize) /\ Buffered(wb, WbSize) /\ rb.bytes = << >>
  BY <1>1, EmptyBuffer DEF Init
<1>3. << >> \in Streams /\ << >> \in Seq(0..255)
  BY DEF Streams
<1>4. Types
  BY <1>2, <1>3 DEF Init, Types, ReadStages
<1>5. HelloGood(Greeting, parser, fed) /\ ~hello_is_done(parser)
  <2>1. /\ parser = hello_read_init(Version, Wanted) /\ fed = << >>
    BY DEF Init
  <2>2. /\ parser \in HelloParser(Greeting) /\ parser.state = "hello_version"
        /\ parser.method = METHOD_NO_ACCEPTABLE_METHODS
    BY <2>1 DEF hello_read_init, HelloParser, Greeting
  <2> QED
    BY <2>1, <2>2 DEF HelloGood, hello_is_done
<1>6. HelloReading
  BY <1>5 DEF Init, HelloReading
<1> QED
  BY <1>4, <1>6 DEF Init, HandshakeInv, Stages

\* What every step of reading does with the bytes.
LEMMA ReadStep ==
    ASSUME Types, stage \in ReadStages, NEW data \in BoundedSeq(Sendable[stage], Room),
           NEW r, r.taken \in 0..Len(rb.bytes \o data), Receives(r, data)
    PROVE  /\ Buffered(rb, RbSize)' /\ (rb.bytes \in Streams)' /\ got' = << >>
           /\ Taken(r, data) \in Streams /\ fed \o Taken(r, data) \in Streams
<1>1. data \in Streams /\ Len(data) <= Room
  BY ReadData
<1>2. /\ Buffered(rb, RbSize)' /\ (rb.bytes \in Streams)' /\ got' = << >>
      /\ Taken(r, data) \in Streams
  BY <1>1, Received DEF Types
<1> QED
  BY <1>2, StreamConcat DEF Types

LEMMA PendingRead ==
    ASSUME Types, stage \in ReadStages, NEW data \in BoundedSeq(Sendable[stage], Room)
    PROVE  rb.bytes \o data \in Streams
BY ReadData, StreamConcat DEF Types

LEMMA Methods ==
    ASSUME Types
    PROVE  Version \in {1, 5} /\ Wanted \in {0, 2} /\ (Wanted = 0 => isSocks /\ auth_method = 0)
BY DEF Types, Wanted, Version, VERSION, MNG_VERSION, METHOD_NO_AUTHENTICATION_REQUIRED,
       METHOD_USERNAME_PASSWORD, MNG_AUTH_METHOD

LEMMA HelloReadKeeps ==
    ASSUME HandshakeInv, stage \in ReadStages, NEW data \in BoundedSeq(Sendable[stage], Room),
           hello_read(data)
    PROVE  HandshakeInv'
<1> DEFINE bytes == rb.bytes \o data
           r == hello_consume(parser, bytes)
<1>1. Types /\ HelloReading /\ stage = "HELLO_READ"
  BY DEF HandshakeInv, Stages, hello_read
<1>2. bytes \in Streams /\ fed \in Streams
  BY <1>1, PendingRead DEF Types
<1>3. r.taken \in 0..Len(bytes) /\ HelloGood(Greeting, r.parser, fed \o SubSeq(bytes, 1, r.taken))
  BY <1>1, <1>2, HelloReads, Contexts DEF HelloReading
<1>4. /\ Receives(r, data) /\ parser' = r.parser /\ fed' = fed \o Taken(r, data)
      /\ wb' = IF hello_is_done(r.parser) THEN Written(wb, hello_marshal(r.parser)) ELSE wb
      /\ stage' = CASE r.parser.state = "hello_done" -> "HELLO_WRITE"
                    [] r.parser.state = "hello_error_unsupported_version" -> "ERROR"
                    [] OTHER -> stage
      /\ UNCHANGED <<isSocks, auth_method, authentication, result>>
  BY DEF hello_read, connection
<1> HIDE DEF r, bytes
<1>5. /\ Buffered(rb, RbSize)' /\ (rb.bytes \in Streams)' /\ got' = << >>
      /\ fed' \in Streams
  BY <1>1, <1>3, <1>4, ReadStep DEF bytes
<1>6. HelloGood(Greeting, parser', fed') /\ Greeting' = Greeting /\ Version' = Version
  BY <1>3, <1>4 DEF Taken, bytes, Greeting, Version, Wanted
<1>7. parser'.method \in 0..255 /\ Version \in 0..255
      /\ parser'.state \in {"hello_version", "hello_nmethods", "hello_methods", "hello_done",
                            "hello_error_unsupported_version"}
  <2>1. parser' \in HelloParser(Greeting)
    BY <1>6 DEF HelloGood
  <2>2. parser'.method \in {Wanted, METHOD_NO_ACCEPTABLE_METHODS}
        /\ parser'.state \in {"hello_version", "hello_nmethods", "hello_methods", "hello_done",
                              "hello_error_unsupported_version"}
    BY <2>1, Contexts DEF HelloParser
  <2> QED
    BY <1>1, <2>2, Methods DEF METHOD_NO_ACCEPTABLE_METHODS
<1> DEFINE m == <<Version, parser'.method>>
<1>8. m \in Seq(0..255) /\ Len(m) = 2
  BY <1>7
<1>9. wb = Empty /\ WbSize \in Nat /\ WbSize >= 2
  BY <1>1, BoundsAssumption DEF HelloReading
<1>10. hello_is_done(parser') => wb' = Written(Empty, m)
  BY <1>4, <1>9 DEF hello_marshal
<1> HIDE DEF m
<1>11. Buffered(Written(Empty, m), WbSize) /\ Written(Empty, m).bytes = m
  <2>1. Buffered(Empty, WbSize) /\ Empty.bytes = << >> /\ Empty.write = 0
    BY <1>9, EmptyBuffer
  <2>2. Len(m) <= WbSize - Empty.write
    BY <1>8, <1>9, <2>1
  <2>3. Buffered(Written(Empty, m), WbSize) /\ Written(Empty, m).bytes = << >> \o m
    BY <1>8, <1>9, <2>1, <2>2, WrittenMore
  <2> QED
    BY <1>8, <2>3, ConcatEmptySeq
<1>12. Buffered(wb, WbSize)'
  BY <1>4, <1>10, <1>11, <1>1 DEF Types
<1>13. stage' \in {"HELLO_READ", "HELLO_WRITE", "ERROR"}
  BY <1>1, <1>4
<1>14. << >> \in Seq(0..255)
  OBVIOUS
<1>15. Types'
  BY <1>1, <1>4, <1>5, <1>12, <1>13, <1>14 DEF Types, ReadStages, WriteStages, LastStages
<1>16. CASE stage' = "HELLO_READ"
  <2>1. ~hello_is_done(parser')
    BY <1>1, <1>4, <1>16 DEF hello_is_done
  <2>2. HelloReading'
    BY <1>1, <1>4, <1>5, <1>6, <2>1 DEF HelloReading
  <2> QED
    BY <1>15, <1>16, <2>2 DEF HandshakeInv, Stages
<1>17. CASE stage' = "HELLO_WRITE"
  <2>1. parser'.state = "hello_done"
    BY <1>1, <1>4, <1>17
  <2>2. wb'.bytes = m
    BY <1>10, <1>11, <2>1 DEF hello_is_done
  <2>3. Said' = m
    BY <1>5, <1>8, <2>2, ConcatEmptySeq DEF Said
  <2>4. HelloAnswering'
    BY <1>1, <1>4, <1>6, <2>1, <2>3 DEF HelloAnswering, HelloReading, m
  <2> QED
    BY <1>15, <1>17, <2>4 DEF HandshakeInv, Stages
<1>18. CASE stage' = "ERROR"
  BY <1>15, <1>18 DEF HandshakeInv, Stages
<1> QED
  BY <1>13, <1>16, <1>17, <1>18

\* send() changes nothing of what was said and is to be said.
LEMMA SaidOn ==
    ASSUME got \in Seq(0..255), NEW b, Buffered(b, WbSize), NEW n \in 1..WbSize, n <= Len(b.bytes),
           Sends(b, n)
    PROVE  /\ Buffered(wb, WbSize)' /\ got' \in Seq(0..255) /\ Said' = got \o b.bytes
           /\ n = Len(b.bytes) => wb' = Empty /\ got' = got \o b.bytes
<1> DEFINE u == SubSeq(b.bytes, 1, n)
           v == Sent(b, n).bytes
<1>1. n \in 0..Len(b.bytes) /\ WbSize \in Nat
  <2>1. Len(b.bytes) \in Nat
    BY DEF Buffered
  <2> QED
    BY <2>1, BoundsAssumption
<1>2. /\ Buffered(Sent(b, n), WbSize) /\ u \in Seq(0..255) /\ v \in Seq(0..255) /\ u \o v = b.bytes
      /\ n = Len(b.bytes) => Sent(b, n) = Empty
  BY <1>1, SentPart
<1>3. wb' = Sent(b, n) /\ got' = got \o u
  BY DEF Sends
<1> HIDE DEF u, v
<1>4. (got \o u) \o v = got \o (u \o v) /\ got \o u \in Seq(0..255)
  <2>1. u \in Seq(0..255) /\ v \in Seq(0..255)
    BY <1>2
  <2>2. (got \o u) \o v = got \o (u \o v)
    BY <2>1, ConcatAssociative
  <2>3. got \o u \in Seq(0..255)
    BY <2>1, ConcatProperties
  <2> QED
    BY <2>2, <2>3
<1>5. Said' = got \o b.bytes
  BY <1>2, <1>3, <1>4 DEF Said, v
<1>6. n = Len(b.bytes) => wb' = Empty /\ got' = got \o b.bytes
  <2> SUFFICES ASSUME n = Len(b.bytes) PROVE wb' = Empty /\ got' = got \o b.bytes
    OBVIOUS
  <2>1. wb' = Empty /\ v = << >>
    BY <1>2, <1>3 DEF Empty, v
  <2>2. u = b.bytes
    BY <1>2, <2>1, ConcatEmptySeq
  <2> QED
    BY <1>3, <2>1, <2>2
<1> QED
  BY <1>2, <1>3, <1>4, <1>5, <1>6

\* The request, or a command, begins.
LEMMA EntersRequestKeeps ==
    ASSUME Types, Types', EntersRequest, Admitted', result' = None
    PROVE  HandshakeInv'
<1>1. << >> \in Streams
  BY DEF Streams
<1>2. CASE isSocks
  <2>1. stage' = "REQUEST_READ" /\ parser' = request_parser_init /\ fed' = << >>
    BY <1>2 DEF EntersRequest, Enters
  <2>2. RequestReading'
    BY <2>1, RequestBegins DEF RequestReading
  <2> QED
    BY <2>1, <2>2 DEF HandshakeInv, Stages
<1>3. CASE ~isSocks
  <2>1. /\ stage' = "MNG_REQUEST_READ_INDEX" /\ parser' = parser_init(<<OneByte(checkIndex)>>)
        /\ fed' = << >>
    BY <1>3 DEF EntersRequest, Enters
  <2>2. IndexReading'
    BY <2>1 DEF IndexReading
  <2> QED
    BY <2>1, <2>2 DEF HandshakeInv, Stages
<1> QED
  BY <1>2, <1>3

LEMMA HelloWriteKeeps ==
    ASSUME HandshakeInv, NEW n \in 1..WbSize, hello_write(n)
    PROVE  HandshakeInv'
<1> DEFINE m == <<Version, parser.method>>
<1>1. Types /\ HelloAnswering /\ stage = "HELLO_WRITE"
  BY DEF HandshakeInv, Stages, hello_write
<1>2. n <= Len(wb.bytes) /\ Sends(wb, n) /\ UNCHANGED <<isSocks, auth_method, rb, authentication, result>>
  BY DEF hello_write, connection
<1>3. Version' = Version /\ Wanted' = Wanted /\ Greeting' = Greeting
  BY <1>2 DEF Version, Wanted, Greeting
<1>4. /\ Buffered(wb, WbSize)' /\ got' \in Seq(0..255) /\ Said' = Said
      /\ n = Len(wb.bytes) => wb' = Empty /\ got' = Said
  BY <1>1, <1>2, SaidOn DEF Types, Said
<1>5. Said = m /\ result = None
  BY <1>1 DEF HelloAnswering
<1>6. << >> \in Streams
  BY DEF Streams
<1>7. /\ isSocks' \in BOOLEAN
      /\ auth_method' \in {METHOD_NO_AUTHENTICATION_REQUIRED, METHOD_USERNAME_PASSWORD}
      /\ Buffered(rb, RbSize)' /\ (rb.bytes \in Streams)' /\ authentication' \in {0, 1}
  BY <1>1, <1>2 DEF Types
<1>8. ASSUME stage' \in ReadStages \cup WriteStages \cup LastStages, fed' \in Streams
      PROVE  Types'
  BY <1>4, <1>7, <1>8 DEF Types
<1>11. Len(wb.bytes) \in Nat
  BY <1>1 DEF Types, Buffered
<1>9. CASE n < Len(wb.bytes)
  <2>1. UNCHANGED <<stage, parser, fed>>
    <3>1. n # Len(wb.bytes)
      BY <1>9, <1>11
    <3> QED
      BY <3>1 DEF hello_write
  <2>2. Types'
    BY <1>1, <1>8, <2>1 DEF Types
  <2>3. HelloAnswering'
    BY <1>1, <1>2, <1>3, <1>4, <2>1 DEF HelloAnswering
  <2> QED
    BY <1>1, <2>1, <2>2, <2>3 DEF HandshakeInv, Stages
<1>10. CASE n = Len(wb.bytes)
  <2>1. wb' = Empty /\ got' = m
    BY <1>4, <1>5, <1>10
  <2>2. \/ /\ parser.method = METHOD_NO_ACCEPTABLE_METHODS
           /\ stage' = "DONE" /\ UNCHANGED <<parser, fed>>
        \/ parser.method = METHOD_NO_AUTHENTICATION_REQUIRED /\ EntersRequest
        \/ parser.method = METHOD_USERNAME_PASSWORD /\ Enters("USERPASS_READ", auth_read_init)
    <3>1. parser.method \in {Wanted, METHOD_NO_ACCEPTABLE_METHODS}
      <4>1. parser \in HelloParser(Greeting)
        BY <1>1 DEF HelloAnswering, HelloGood
      <4> QED
        BY <4>1, Contexts DEF HelloParser
    <3>2. parser.method \in {0, 2, 255}
      BY <1>1, <3>1, Methods DEF METHOD_NO_ACCEPTABLE_METHODS
    <3>6. ~(n < Len(wb.bytes))
      BY <1>10, <1>11
    <3>7. (CASE parser.method = METHOD_NO_ACCEPTABLE_METHODS ->
                  stage' = "DONE" /\ UNCHANGED <<parser, fed>>
             [] parser.method = METHOD_NO_AUTHENTICATION_REQUIRED -> EntersRequest
             [] parser.method = METHOD_USERNAME_PASSWORD ->
                  Enters("USERPASS_READ", auth_read_init))
      BY <3>6 DEF hello_write
    <3>3. CASE parser.method = METHOD_NO_ACCEPTABLE_METHODS
      BY <3>3, <3>7 DEF METHOD_NO_ACCEPTABLE_METHODS,
         METHOD_NO_AUTHENTICATION_REQUIRED, METHOD_USERNAME_PASSWORD
    <3>4. CASE parser.method = METHOD_NO_AUTHENTICATION_REQUIRED
      BY <3>4, <3>7 DEF METHOD_NO_ACCEPTABLE_METHODS,
         METHOD_NO_AUTHENTICATION_REQUIRED, METHOD_USERNAME_PASSWORD
    <3>5. CASE parser.method = METHOD_USERNAME_PASSWORD
      BY <3>5, <3>7 DEF METHOD_NO_ACCEPTABLE_METHODS,
         METHOD_NO_AUTHENTICATION_REQUIRED, METHOD_USERNAME_PASSWORD
    <3> QED
      BY <3>2, <3>3, <3>4, <3>5 DEF METHOD_NO_ACCEPTABLE_METHODS,
         METHOD_NO_AUTHENTICATION_REQUIRED, METHOD_USERNAME_PASSWORD
  <2>3. CASE /\ parser.method = METHOD_NO_ACCEPTABLE_METHODS
             /\ stage' = "DONE" /\ UNCHANGED <<parser, fed>>
    <3>1. Types'
      BY <1>1, <1>8, <2>3 DEF Types, LastStages
    <3>2. Refused'
      BY <1>3, <1>4, <1>5, <2>3 DEF Refused
    <3> QED
      BY <2>3, <3>1, <3>2 DEF HandshakeInv, Stages
  <2>4. CASE parser.method = METHOD_NO_AUTHENTICATION_REQUIRED /\ EntersRequest
    <3>1. stage' \in {"REQUEST_READ", "MNG_REQUEST_READ_INDEX"} /\ fed' = << >>
      BY <2>4 DEF EntersRequest, Enters
    <3>2. Types'
      BY <1>6, <1>8, <3>1 DEF ReadStages
    <3>3. parser.method = 0 /\ parser.method \in {Wanted, METHOD_NO_ACCEPTABLE_METHODS}
      <4>1. parser \in HelloParser(Greeting)
        BY <1>1 DEF HelloAnswering, HelloGood
      <4> QED
        BY <2>4, <4>1, Contexts DEF HelloParser, METHOD_NO_AUTHENTICATION_REQUIRED
    <3>4. isSocks /\ auth_method = 0
      BY <1>1, <3>3, Methods DEF METHOD_NO_ACCEPTABLE_METHODS
    <3>5. Admitted'
      BY <1>2, <1>3, <2>1, <3>3, <3>4 DEF Admitted
    <3> QED
      BY <1>1, <1>2, <1>5, <2>4, <3>2, <3>5, EntersRequestKeeps
  <2>5. CASE parser.method = METHOD_USERNAME_PASSWORD /\ Enters("USERPASS_READ", auth_read_init)
    <3>1. stage' = "USERPASS_READ" /\ parser' = auth_read_init /\ fed' = << >>
      BY <2>5 DEF Enters
    <3>2. Types'
      BY <1>6, <1>8, <3>1 DEF ReadStages
    <3>3. Wanted' = METHOD_USERNAME_PASSWORD
      <4>1. parser \in HelloParser(Greeting)
        BY <1>1 DEF HelloAnswering, HelloGood
      <4>2. parser.method \in {Wanted, METHOD_NO_ACCEPTABLE_METHODS}
        BY <4>1, Contexts DEF HelloParser
      <4> QED
        BY <1>3, <2>5, <4>2 DEF METHOD_NO_ACCEPTABLE_METHODS, METHOD_USERNAME_PASSWORD
    <3>4. got' = <<Version', METHOD_USERNAME_PASSWORD>>
      BY <1>3, <2>1, <2>5
    <3>5. LoginReading'
      BY <1>2, <1>5, <2>1, <3>1, <3>3, <3>4, LoginBegins DEF LoginReading
    <3> QED
      BY <3>1, <3>2, <3>5 DEF HandshakeInv, Stages
  <2> QED
    BY <2>2, <2>3, <2>4, <2>5
<1> QED
  BY <1>2, <1>9, <1>10, <1>11

LEMMA EvenOn == ASSUME NEW k \in Nat, k % 2 = 0 PROVE (k + 2) % 2 = 0 /\ (k + 1) % 2 = 1
OBVIOUS

\* One verdict more.
LEMMA RepeatsMore ==
    ASSUME NEW s \in Seq(0..255), NEW a \in 0..255, s = << >> \/ Repeats(s, <<1, a>>)
    PROVE  Repeats(s \o <<1, a>>, <<1, a>>)
<1> DEFINE m == <<1, a>>
           u == s \o m
           L == Len(s)
<1>1. m \in Seq(0..255) /\ Len(m) = 2 /\ m[1] = 1 /\ m[2] = a /\ L \in Nat
  OBVIOUS
<1>2. Len(u) = L + 2 /\ \A i \in 1..(L + 2) : u[i] = IF i <= L THEN s[i] ELSE m[i - L]
  BY <1>1, ConcatProperties
<1>3. L % 2 = 0 /\ \A i \in 1..L : s[i] = m[((i - 1) % 2) + 1]
  BY <1>1 DEF Repeats
<1> HIDE DEF m, u, L
<1>4. (L + 2) % 2 = 0 /\ L % 2 = 0 /\ (L + 1) % 2 = 1
  <2>1. L \in Nat /\ L % 2 = 0
    BY <1>1, <1>3
  <2> QED
    BY <2>1, EvenOn
<1>5. ASSUME NEW i \in 1..(L + 2) PROVE u[i] = m[((i - 1) % 2) + 1]
  <2>1. i <= L \/ i = L + 1 \/ i = L + 2
    BY <1>1
  <2>2. CASE i <= L
    <3>1. i \in 1..L
      BY <1>1, <2>2
    <3> QED
      BY <1>2, <1>3, <2>2, <3>1
  <2>3. CASE i = L + 1
    <3>1. i - 1 = L /\ i - L = 1 /\ ~(i <= L)
      BY <1>1, <2>3
    <3>2. u[i] = m[1]
      BY <1>2, <3>1
    <3>3. (i - 1) % 2 = 0
      BY <1>4, <3>1
    <3>4. ((i - 1) % 2) + 1 = 1
      BY <3>3
    <3> QED
      BY <3>2, <3>4
  <2>4. CASE i = L + 2
    <3>1. i - 1 = L + 1 /\ i - L = 2 /\ ~(i <= L)
      BY <1>1, <2>4
    <3>2. u[i] = m[2]
      BY <1>2, <3>1
    <3>3. (i - 1) % 2 = 1
      BY <1>4, <3>1
    <3>4. ((i - 1) % 2) + 1 = 2
      BY <3>3
    <3> QED
      BY <3>2, <3>4
  <2> QED
    BY <2>1, <2>2, <2>3, <2>4
<1>6. Repeats(u, m)
  BY <1>1, <1>2, <1>4, <1>5 DEF Repeats
<1> QED
  BY <1>6 DEF u, m

\* The verdict once more, if it fits.
LEMMA ReplyAgain ==
    ASSUME Types, LoginAnswering
    PROVE  LET b == auth_reply(wb, authentication)
               said == got \o b.bytes
           IN /\ Buffered(b, WbSize)
              /\ said = << >> \/ Repeats(said, <<1, authentication>>)
<1> DEFINE m == <<1, authentication>>
           b == auth_reply(wb, authentication)
<1>1. Buffered(wb, WbSize) /\ wb.bytes \in Seq(0..255) /\ got \in Seq(0..255)
      /\ authentication \in 0..255 /\ WbSize \in Nat /\ wb.write \in 0..WbSize
  BY BoundsAssumption DEF Types, Buffered
<1>2. Said = << >> \/ Repeats(Said, m)
  BY DEF LoginAnswering
<1>3. CASE WbSize - wb.write < 2
  <2>1. b = wb
    BY <1>3 DEF auth_reply
  <2> QED
    BY <1>1, <1>2, <2>1 DEF Said
<1>4. CASE ~(WbSize - wb.write < 2)
  <2>1. b = Written(wb, m)
    BY <1>4 DEF auth_reply, USERPASS_METHOD_VERSION
  <2>2. m \in Seq(0..255) /\ Len(m) = 2
    BY <1>1
  <2> HIDE DEF m
  <2>3. 2 <= WbSize - wb.write
    <3> DEFINE w == wb.write
    <3>1. w \in 0..WbSize /\ WbSize \in Nat /\ ~(WbSize - w < 2)
      BY <1>1, <1>4
    <3> HIDE DEF w
    <3>2. 2 <= WbSize - w
      BY <3>1
    <3> QED
      BY <3>2 DEF w
  <2>4. Buffered(b, WbSize) /\ b.bytes = wb.bytes \o m
    BY <1>1, <2>1, <2>2, <2>3, WrittenMore
  <2>5. Said \in Seq(0..255)
    BY <1>1, ConcatProperties DEF Said
  <2>6. got \o (wb.bytes \o m) = Said \o m
    <3>1. (got \o wb.bytes) \o m = got \o (wb.bytes \o m)
      <4>1. \A x, y, z \in Seq(0..255) : (x \o y) \o z = x \o (y \o z)
        BY ConcatAssociative
      <4> QED
        BY <1>1, <2>2, <4>1
    <3> QED
      BY <3>1 DEF Said
  <2>7. Repeats(Said \o m, m)
    BY <1>1, <1>2, <2>5, RepeatsMore DEF m
  <2> QED
    BY <2>4, <2>6, <2>7 DEF m
<1> QED
  BY <1>3, <1>4

LEMMA AuthReadKeeps ==
    ASSUME HandshakeInv, stage \in ReadStages, NEW data \in BoundedSeq(Sendable[stage], Room),
           auth_read(data)
    PROVE  HandshakeInv'
<1> DEFINE bytes == rb.bytes \o data
           r == consume(parser, bytes)
           table == IF isSocks THEN Users ELSE Admins
<1>1. Types /\ LoginReading /\ stage = "USERPASS_READ"
  BY DEF HandshakeInv, Stages, auth_read
<1>2. bytes \in Streams /\ fed \in Streams
  BY <1>1, PendingRead DEF Types
<1>3. r.taken \in 0..Len(bytes) /\ ListGood(Login, r.parser, fed \o SubSeq(bytes, 1, r.taken))
  BY <1>1, <1>2, ListReads, Contexts DEF LoginReading
<1>4. /\ Receives(r, data) /\ parser' = r.parser /\ fed' = fed \o Taken(r, data)
      /\ stage' = CASE r.parser.current = "done_read" -> "USERPASS_WRITE"
                    [] r.parser.current = "error_read" ->
                         IF table = << >> THEN "ERROR" ELSE "NULL_READ"
                    [] OTHER -> stage
      /\ authentication' =
            CASE r.parser.current = "done_read" ->
                   checkCredentials(CString(r.parser, 3), CString(r.parser, 5))
              [] r.parser.current = "error_read" /\ table = << >> -> 1
              [] OTHER -> authentication
      /\ UNCHANGED <<isSocks, auth_method, wb, result>>
  BY DEF auth_read, connection
<1> HIDE DEF r, bytes, table
<1>5. /\ Buffered(rb, RbSize)' /\ (rb.bytes \in Streams)' /\ got' = << >>
      /\ fed' \in Streams
  BY <1>1, <1>3, <1>4, ReadStep DEF bytes
<1>6. ListGood(Login, parser', fed') /\ Wanted' = Wanted /\ Version' = Version
  BY <1>3, <1>4 DEF Taken, bytes, Version, Wanted
<1>7. /\ Buffered(wb, WbSize)' /\ isSocks' \in BOOLEAN
      /\ auth_method' \in {METHOD_NO_AUTHENTICATION_REQUIRED, METHOD_USERNAME_PASSWORD}
  BY <1>1, <1>4 DEF Types
<1>8. authentication' \in {0, 1}
  <2>1. checkCredentials(CString(r.parser, 3), CString(r.parser, 5)) \in {0, 1}
    BY DEF checkCredentials
  <2>2. authentication \in {0, 1}
    BY <1>1 DEF Types
  <2> QED
    BY <1>4, <2>1, <2>2
<1>9. stage' \in {"USERPASS_READ", "USERPASS_WRITE", "ERROR", "NULL_READ"}
  BY <1>1, <1>4
<1>10. << >> \in Seq(0..255)
  OBVIOUS
<1>11. Types'
  BY <1>5, <1>7, <1>8, <1>9, <1>10 DEF Types, ReadStages, WriteStages, LastStages
<1>12. CASE stage' = "USERPASS_READ"
  <2>1. ~is_done(parser')
    BY <1>1, <1>4, <1>12 DEF is_done
  <2>2. LoginReading'
    BY <1>1, <1>4, <1>5, <1>6, <2>1 DEF LoginReading
  <2> QED
    BY <1>11, <1>12, <2>2 DEF HandshakeInv, Stages
<1>13. CASE stage' = "USERPASS_WRITE"
  <2>1. parser'.current = "done_read"
    BY <1>1, <1>4, <1>13
  <2>2. Said' = << >>
    <3>1. wb'.bytes = << >>
      BY <1>1, <1>4 DEF LoginReading, Empty
    <3> QED
      BY <1>5, <3>1 DEF Said
  <2>3. authentication' = checkCredentials(CString(parser', 3), CString(parser', 5))
    BY <1>4, <2>1
  <2>4. authentication' = checkCredentials(CString(parser, 3), CString(parser, 5))'
    BY <1>4, <2>3 DEF checkCredentials
  <2>5. LoginAnswering'
    BY <1>1, <1>4, <1>6, <2>1, <2>2, <2>4 DEF LoginAnswering, LoginReading
  <2> QED
    BY <1>11, <1>13, <2>5 DEF HandshakeInv, Stages
<1>14. CASE stage' \in {"ERROR", "NULL_READ"}
  BY <1>11, <1>14 DEF HandshakeInv, Stages
<1> QED
  BY <1>9, <1>12, <1>13, <1>14

LEMMA AuthWriteKeeps ==
    ASSUME HandshakeInv, NEW n \in 1..WbSize, auth_write(n)
    PROVE  HandshakeInv'
<1> DEFINE b == auth_reply(wb, authentication)
           said == got \o b.bytes
<1>1. Types /\ LoginAnswering /\ stage = "USERPASS_WRITE"
  BY DEF HandshakeInv, Stages, auth_write
<1>2. /\ n <= Len(b.bytes) /\ Sends(b, n)
      /\ \/ n < Len(b.bytes) /\ UNCHANGED <<stage, parser, fed>>
         \/ n = Len(b.bytes) /\ authentication = 0 /\ EntersRequest
         \/ n = Len(b.bytes) /\ authentication # 0 /\ stage' = "DONE" /\ UNCHANGED <<parser, fed>>
      /\ UNCHANGED <<isSocks, auth_method, rb, authentication, result>>
  BY DEF auth_write, connection
<1>3. Buffered(b, WbSize) /\ (said = << >> \/ Repeats(said, <<1, authentication>>))
  BY <1>1, ReplyAgain
<1> HIDE DEF b
<1>4. Version' = Version /\ Wanted' = Wanted
  BY <1>2 DEF Version, Wanted
<1>5. /\ Buffered(wb, WbSize)' /\ got' \in Seq(0..255) /\ Said' = said
      /\ n = Len(b.bytes) => wb' = Empty /\ got' = said
  BY <1>1, <1>2, <1>3, SaidOn DEF Types
<1>6. said # << >>
  <2>1. b.bytes \in Seq(0..255) /\ got \in Seq(0..255) /\ b.bytes # << >>
    <3>1. b.bytes \in Seq(0..255) /\ Len(b.bytes) \in Nat
      BY <1>3 DEF Buffered
    <3>2. Len(b.bytes) # 0
      BY <1>2, <3>1
    <3> QED
      BY <1>1, <3>1, <3>2 DEF Types
  <2> HIDE DEF said
  <2>2. said = << >> => b.bytes = << >>
    BY <2>1, ConcatEqualIffEmpty DEF said
  <2> QED
    BY <2>1, <2>2
<1> HIDE DEF said
<1>7. << >> \in Streams
  BY DEF Streams
<1>8. /\ isSocks' \in BOOLEAN
      /\ auth_method' \in {METHOD_NO_AUTHENTICATION_REQUIRED, METHOD_USERNAME_PASSWORD}
      /\ Buffered(rb, RbSize)' /\ (rb.bytes \in Streams)' /\ authentication' \in {0, 1}
  BY <1>1, <1>2 DEF Types
<1>9. ASSUME stage' \in ReadStages \cup WriteStages \cup LastStages, fed' \in Streams
      PROVE  Types'
  BY <1>5, <1>8, <1>9 DEF Types
<1>10. CASE UNCHANGED <<stage, parser, fed>>
  <2>1. Types'
    BY <1>1, <1>9, <1>10 DEF Types
  <2>2. authentication' = checkCredentials(CString(parser, 3), CString(parser, 5))'
    BY <1>1, <1>2, <1>10 DEF LoginAnswering, checkCredentials
  <2>3. LoginAnswering'
    BY <1>1, <1>2, <1>3, <1>4, <1>5, <1>10, <2>2 DEF LoginAnswering
  <2> QED
    BY <1>1, <1>10, <2>1, <2>3 DEF HandshakeInv, Stages
<1>11. CASE n = Len(b.bytes) /\ authentication = 0 /\ EntersRequest
  <2>1. stage' \in {"REQUEST_READ", "MNG_REQUEST_READ_INDEX"} /\ fed' = << >>
    BY <1>11 DEF EntersRequest, Enters
  <2>2. Types'
    BY <1>7, <1>9, <2>1 DEF ReadStages
  <2>3. Admitted'
    BY <1>1, <1>3, <1>4, <1>5, <1>6, <1>11 DEF Admitted, LoginAnswering
  <2>4. result' = None
    BY <1>1, <1>2 DEF LoginAnswering
  <2> QED
    BY <1>1, <1>11, <2>2, <2>3, <2>4, EntersRequestKeeps
<1>12. CASE n = Len(b.bytes) /\ authentication # 0 /\ stage' = "DONE" /\ UNCHANGED <<parser, fed>>
  <2>1. Types'
    BY <1>1, <1>9, <1>12 DEF Types, LastStages
  <2>2. authentication = 1
    BY <1>1, <1>12 DEF Types
  <2>3. Refused'
    BY <1>3, <1>5, <1>6, <2>2 DEF Refused
  <2> QED
    BY <1>12, <2>1, <2>3 DEF HandshakeInv, Stages
<1> QED
  BY <1>2, <1>10, <1>11, <1>12

\* A connection in LastStages stays; a failed recv() or send() ends it.
LEMMA ReadEndKeeps ==
    ASSUME HandshakeInv, read_end
    PROVE  HandshakeInv'
<1>1. stage' = "ERROR" /\ UNCHANGED <<isSocks, auth_method, rb, wb, authentication, fed, got>>
  BY DEF read_end, connection
<1>2. Types'
  BY <1>1 DEF HandshakeInv, Types, LastStages
<1> QED
  BY <1>1, <1>2 DEF HandshakeInv, Stages

LEMMA IndexFullKeeps ==
    ASSUME HandshakeInv, mng_request_index_full
    PROVE  HandshakeInv'
<1>1. /\ stage = "MNG_REQUEST_READ_INDEX" /\ stage' = "MNG_REQUEST_WRITE"
      /\ UNCHANGED <<isSocks, auth_method, rb, wb, authentication, result, fed, got>>
  BY DEF mng_request_index_full, connection
<1>2. Types'
  BY <1>1 DEF HandshakeInv, Types, LastStages
<1>3. result' = None
  BY <1>1 DEF HandshakeInv, Stages, IndexReading
<1> QED
  BY <1>1, <1>2, <1>3 DEF HandshakeInv, Stages, CommandDone

LEMMA WriteFailsKeeps ==
    ASSUME HandshakeInv, write_fails
    PROVE  HandshakeInv'
<1>1. /\ stage \in WriteStages /\ stage' = "ERROR"
      /\ wb' = IF stage = "USERPASS_WRITE" THEN auth_reply(wb, authentication) ELSE wb
      /\ UNCHANGED <<isSocks, auth_method, rb, authentication, fed, got>>
  BY DEF write_fails, connection
<1>2. Types
  BY DEF HandshakeInv
<1>3. Buffered(wb', WbSize)
  <2>1. CASE stage = "USERPASS_WRITE"
    <3>1. LoginAnswering
      BY <2>1 DEF HandshakeInv, Stages
    <3> QED
      BY <1>1, <1>2, <2>1, <3>1, ReplyAgain
  <2>2. CASE stage # "USERPASS_WRITE"
    BY <1>1, <1>2, <2>2 DEF Types
  <2> QED
    BY <2>1, <2>2
<1>4. Types'
  <2>1. Buffered(wb, WbSize)'
    BY <1>3
  <2> QED
    BY <1>1, <1>2, <2>1 DEF Types, LastStages
<1> QED
  BY <1>1, <1>4 DEF HandshakeInv, Stages

LEMMA RequestReadKeeps ==
    ASSUME HandshakeInv, stage \in ReadStages, NEW data \in BoundedSeq(Sendable[stage], Room),
           request_read(data)
    PROVE  HandshakeInv'
<1> DEFINE bytes == rb.bytes \o data
           r == request_consume(parser, bytes)
<1>1. Types /\ RequestReading /\ stage = "REQUEST_READ"
  BY DEF HandshakeInv, Stages, request_read
<1>2. bytes \in Streams /\ fed \in Streams
  BY <1>1, PendingRead DEF Types
<1>3. /\ Receives(r, data) /\ parser' = r.parser
      /\ fed' = IF parser.state \in ErrorStates THEN fed ELSE fed \o Taken(r, data)
      /\ IF r.parser.state = "request_done"
         THEN /\ stage' \in NextStages(r.parser)
              /\ result' = IF stage' = "REQUEST_WRITE" THEN result ELSE Destination(r.parser)
         ELSE UNCHANGED <<stage, result>>
      /\ UNCHANGED <<isSocks, auth_method, wb, authentication>>
  BY DEF request_read, connection
<1>4. r.taken \in 0..Len(bytes) /\ RequestGood(parser', fed')
  <2>1. CASE parser.state \in ErrorStates
    <3>1. r.taken \in 0..Len(bytes) /\ r.parser = parser
      BY <1>2, <2>1, RefusedReads
    <3>2. RequestGood(parser, fed)
      BY <1>1 DEF RequestReading
    <3> HIDE DEF r
    <3> QED
      BY <1>3, <2>1, <3>1, <3>2
  <2>2. CASE parser.state \notin ErrorStates
    <3>1. /\ r.taken \in 0..Len(bytes)
          /\ RequestGood(r.parser, fed \o SubSeq(bytes, 1, r.taken))
      BY <1>1, <1>2, RequestReads DEF RequestReading
    <3> HIDE DEF r
    <3>2. fed' = fed \o SubSeq(bytes, 1, r.taken)
      BY <1>3, <2>2 DEF Taken
    <3> QED
      BY <1>3, <3>1, <3>2
  <2> QED
    BY <2>1, <2>2
<1> HIDE DEF r
<1>5. /\ Buffered(rb, RbSize)' /\ (rb.bytes \in Streams)' /\ got' = << >>
      /\ fed \o Taken(r, data) \in Streams
  BY <1>1, <1>3, <1>4, ReadStep DEF bytes
<1>6. fed' \in Streams
  BY <1>2, <1>3, <1>5
<1>7. stage' \in {"REQUEST_READ", "REQUEST_CONNECTING", "REQUEST_RESOLV", "REQUEST_WRITE"}
      /\ (stage' = "REQUEST_READ" <=> parser'.state # "request_done")
  <2>1. NextStages(r.parser) \subseteq {"REQUEST_CONNECTING", "REQUEST_RESOLV", "REQUEST_WRITE"}
    BY DEF NextStages
  <2> QED
    BY <1>1, <1>3, <2>1
<1>8. << >> \in Seq(0..255)
  OBVIOUS
<1>9. Types'
  BY <1>1, <1>3, <1>5, <1>6, <1>7, <1>8 DEF Types, ReadStages, LastStages
<1>10. CASE stage' = "REQUEST_READ"
  <2>1. result' = None /\ wb' = Empty
    BY <1>1, <1>3, <1>7, <1>10 DEF RequestReading, Admitted
  <2>2. RequestReading'
    BY <1>4, <1>5, <1>7, <1>10, <2>1 DEF RequestReading, Admitted
  <2> QED
    BY <1>9, <1>10, <2>2 DEF HandshakeInv, Stages
<1>11. CASE stage' # "REQUEST_READ"
  <2>1. RequestDone'
    BY <1>4, <1>7, <1>11 DEF RequestDone
  <2>2. stage' \in {"REQUEST_CONNECTING", "REQUEST_RESOLV"} => result' = Destination(parser')
    BY <1>3, <1>7, <1>11
  <2>3. stage' \in {"REQUEST_CONNECTING", "REQUEST_RESOLV"} => (result = Destination(parser))'
    BY <2>2
  <2> QED
    BY <1>7, <1>9, <1>11, <2>1, <2>3 DEF HandshakeInv, Stages
<1> QED
  BY <1>10, <1>11

LEMMA IndexBegins ==
    LET p == parser_init(<<OneByte(checkIndex)>>)
    IN ListGood(Index, p, << >>) /\ Index.kind = "list" /\ IsList(Index)
<1> DEFINE p == parser_init(<<OneByte(checkIndex)>>)
           c == Index
<1>1. p = [states |-> <<OneByte(checkIndex)>>, index |-> 1, current |-> "long_read"]
  BY DEF parser_init, OneByte, Substate
<1>2. /\ IsSub(OneByte(checkIndex)) /\ OneByte(checkIndex).state = "long_read"
      /\ OneByte(checkIndex).check = checkIndex
      /\ OneByte(checkIndex).size = 1 /\ OneByte(checkIndex).remaining = 1
      /\ OneByte(checkIndex).result = << >>
  BY DEF IsSub, OneByte, Substate, SubFields, IsCells
<1>3. c.kind = "list" /\ c.lead /\ c.check = checkIndex /\ c.texts = 0
  BY DEF Index
<1> HIDE DEF p, c
<1>4. Lead(c) = 1 /\ Size(c) = 1 /\ IsList(c)
  BY <1>3 DEF Lead, Size, IsList
<1>5. Sub(p, 1) = OneByte(checkIndex)
  BY <1>1 DEF Sub
<1>6. p.states = [i \in 1..1 |-> Sub(p, i)]
  BY <1>1 DEF Sub
<1>7. \A i \in 1..1 : IsSub(Sub(p, i))
  BY <1>2, <1>5
<1>8. p = [g \in {"states", "index", "current"} |-> p[g]] /\ p.index = 1 /\ p.current = "long_read"
  BY <1>1
<1>9. ListParser(c, p)
  BY <1>2, <1>3, <1>4, <1>5, <1>6, <1>7, <1>8 DEF ListParser
<1>10. ListGood(c, p, << >>)
  BY <1>2, <1>3, <1>4, <1>5, <1>8, <1>9, Begun
<1> QED
  BY <1>3, <1>4, <1>10 DEF p, c

LEMMA IndexReadKeeps ==
    ASSUME HandshakeInv, stage \in ReadStages, NEW data \in BoundedSeq(Sendable[stage], Room),
           mng_request_index_read(data)
    PROVE  HandshakeInv'
<1> DEFINE bytes == rb.bytes \o data
           r == consume(parser, bytes)
           index == r.parser.states[1].result[0]
<1>1. Types /\ IndexReading /\ stage = "MNG_REQUEST_READ_INDEX"
  BY DEF HandshakeInv, Stages, mng_request_index_read
<1>2. bytes \in Streams /\ << >> \in Streams
  BY <1>1, PendingRead DEF Streams
<1>3. r.taken \in 0..Len(bytes)
  <2>1. ListGood(Index, parser, << >>) /\ Index.kind = "list" /\ IsList(Index)
    BY <1>1, IndexBegins DEF IndexReading
  <2> QED
    BY <1>2, <2>1, ListReads
<1>4. /\ Receives(r, data)
      /\ result' = [index |-> index, texts |-> << >>]
      /\ IF index \in {add_user, delete_user} \cup OnOff
         THEN Enters("MNG_REQUEST_READ", mng_request_init(index))
         ELSE stage' = "MNG_REQUEST_WRITE" /\ parser' = r.parser /\ fed' = Taken(r, data)
      /\ UNCHANGED <<isSocks, auth_method, wb, authentication>>
  BY DEF mng_request_index_read, connection
<1> HIDE DEF r, index
<1>5. /\ Buffered(rb, RbSize)' /\ (rb.bytes \in Streams)' /\ got' = << >>
      /\ Taken(r, data) \in Streams
  BY <1>1, <1>3, <1>4, ReadStep DEF bytes
<1>6. << >> \in Seq(0..255)
  OBVIOUS
<1>7. CASE index \in {add_user, delete_user} \cup OnOff
  <2>1. stage' = "MNG_REQUEST_READ" /\ parser' = mng_request_init(index) /\ fed' = << >>
    BY <1>4, <1>7 DEF Enters
  <2>2. Types'
    BY <1>1, <1>2, <1>4, <1>5, <1>6, <2>1 DEF Types, ReadStages
  <2>3. result'.index = index /\ result' = [index |-> result'.index, texts |-> << >>]
    BY <1>4
  <2>4. ListGood(Command(result'.index), parser', fed') /\ ~is_done(parser')
    BY <1>7, <2>1, <2>3, CommandBegins
  <2>5. CommandReading'
    <3>1. Command(result.index)' = Command(result'.index)
      BY DEF Command
    <3> QED
      BY <1>7, <2>3, <2>4, <3>1 DEF CommandReading
  <2> QED
    BY <2>1, <2>2, <2>5 DEF HandshakeInv, Stages
<1>8. CASE index \notin {add_user, delete_user} \cup OnOff
  <2>1. stage' = "MNG_REQUEST_WRITE" /\ fed' = Taken(r, data)
    BY <1>4, <1>8
  <2>2. Types'
    BY <1>1, <1>4, <1>5, <1>6, <2>1 DEF Types, LastStages
  <2>3. result'.texts = << >>
    BY <1>4
  <2>4. CommandDone'
    BY <2>3 DEF CommandDone
  <2> QED
    BY <2>1, <2>2, <2>4 DEF HandshakeInv, Stages
<1> QED
  BY <1>7, <1>8

LEMMA MngReadKeeps ==
    ASSUME HandshakeInv, stage \in ReadStages, NEW data \in BoundedSeq(Sendable[stage], Room),
           mng_request_read(data)
    PROVE  HandshakeInv'
<1> DEFINE bytes == rb.bytes \o data
           r == consume(parser, bytes)
           index == result.index
           c == Command(index)
<1>1. Types /\ CommandReading /\ stage = "MNG_REQUEST_READ"
  BY DEF HandshakeInv, Stages, mng_request_read
<1>2. bytes \in Streams /\ fed \in Streams
  BY <1>1, PendingRead DEF Types
<1>3. /\ result = [index |-> index, texts |-> << >>]
      /\ index \in {add_user, delete_user} \cup OnOff
      /\ ListGood(c, parser, fed)
  BY <1>1 DEF CommandReading
<1>4. c.kind = "list" /\ IsList(c) /\ c.check = {}
  BY Contexts
<1>5. /\ Receives(r, data) /\ parser' = r.parser /\ fed' = fed \o Taken(r, data)
      /\ IF is_done(r.parser)
         THEN /\ stage' = "MNG_REQUEST_WRITE"
              /\ result' = [result EXCEPT !.texts = Params(r.parser, index)]
         ELSE UNCHANGED <<stage, result>>
      /\ UNCHANGED <<isSocks, auth_method, wb, authentication>>
  BY DEF mng_request_read, connection
<1> HIDE DEF c
<1>6. r.taken \in 0..Len(bytes) /\ ListGood(c, r.parser, fed \o SubSeq(bytes, 1, r.taken))
  BY <1>2, <1>3, <1>4, ListReads
<1> HIDE DEF r, index, bytes
<1>7. /\ Buffered(rb, RbSize)' /\ (rb.bytes \in Streams)' /\ got' = << >>
      /\ fed' \in Streams
  BY <1>1, <1>5, <1>6, ReadStep DEF bytes
<1>8. ListGood(c, parser', fed')
  BY <1>5, <1>6 DEF Taken, bytes
<1>9. << >> \in Seq(0..255)
  OBVIOUS
<1>10. stage' \in {"MNG_REQUEST_READ", "MNG_REQUEST_WRITE"}
  BY <1>1, <1>5
<1>11. Types'
  BY <1>1, <1>5, <1>7, <1>9, <1>10 DEF Types, ReadStages, LastStages
<1>12. CASE ~is_done(parser')
  <2>1. stage' = stage /\ result' = result
    BY <1>5, <1>12
  <2>2. Command(result.index)' = c
    BY <2>1 DEF Command, c, index
  <2>3. CommandReading'
    BY <1>1, <1>3, <1>8, <1>12, <2>1, <2>2 DEF CommandReading, index
  <2> QED
    BY <1>1, <1>11, <2>1, <2>3 DEF HandshakeInv, Stages
<1>13. CASE is_done(parser')
  <2>1. stage' = "MNG_REQUEST_WRITE" /\ result' = [result EXCEPT !.texts = Params(parser', index)]
    BY <1>5, <1>13
  <2>2. result' = [index |-> index, texts |-> Params(parser', index)]
    BY <1>3, <2>1
  <2>3. result'.index = index /\ result'.texts = Params(parser', index)
    BY <2>2
  <2>4. parser'.current = "done_read"
    <3>1. parser'.current # "error_read"
      BY <1>4, <1>8, ListPhases DEF AtCount, AtText, AtEnd
    <3> QED
      BY <1>13, <3>1 DEF is_done
  <2>5. Command(result.index)' = c /\ Params(parser, result.index)' = Params(parser', index)
    BY <2>3 DEF Command, c, Params, CString
  <2>6. CommandDone'
    BY <1>3, <1>8, <2>3, <2>4, <2>5 DEF CommandDone
  <2> QED
    BY <1>11, <2>1, <2>6 DEF HandshakeInv, Stages
<1> QED
  BY <1>12, <1>13

LEMMA NextInv == HandshakeInv /\ [Next]_vars => HandshakeInv'
<1> SUFFICES ASSUME HandshakeInv, [Next]_vars PROVE HandshakeInv'
  OBVIOUS
<1>1. CASE /\ stage \in ReadStages
           /\ \E data \in BoundedSeq(Sendable[stage], Room) \ {<< >>} :
                 \/ hello_read(data)
                 \/ auth_read(data)
                 \/ request_read(data)
                 \/ mng_request_index_read(data)
                 \/ mng_request_read(data)
  BY <1>1, HelloReadKeeps, AuthReadKeeps, RequestReadKeeps, IndexReadKeeps, MngReadKeeps
<1>2. CASE \E n \in 1..WbSize : hello_write(n) \/ auth_write(n)
  BY <1>2, HelloWriteKeeps, AuthWriteKeeps
<1>3. CASE mng_request_index_full
  BY <1>3, IndexFullKeeps
<1>4. CASE read_end
  BY <1>4, ReadEndKeeps
<1>5. CASE write_fails
  BY <1>5, WriteFailsKeeps
<1>6. CASE UNCHANGED vars
  <2>1. /\ UNCHANGED <<isSocks, auth_method, stage, parser, rb, wb>>
        /\ UNCHANGED <<authentication, result, fed, got>>
    BY <1>6 DEF vars
  <2>2. Version' = Version /\ Wanted' = Wanted
    BY <2>1 DEF Version, Wanted
  <2>3. Greeting' = Greeting /\ Said' = Said
    BY <2>1, <2>2 DEF Greeting, Said
  <2>4. Types'
    BY <2>1 DEF HandshakeInv, Types
  <2>5. /\ HelloReading => HelloReading'
        /\ HelloAnswering => HelloAnswering'
        /\ LoginReading => LoginReading'
    BY <2>1, <2>2, <2>3 DEF HelloReading, HelloAnswering, LoginReading
  <2>6. LoginAnswering => LoginAnswering'
    <3>1. checkCredentials(CString(parser, 3), CString(parser, 5))'
          = checkCredentials(CString(parser, 3), CString(parser, 5))
      BY <2>1 DEF checkCredentials, CString
    <3> QED
      BY <2>1, <2>2, <2>3, <3>1 DEF LoginAnswering
  <2>7. Admitted => Admitted'
    BY <2>1, <2>2 DEF Admitted
  <2>8. /\ RequestReading => RequestReading'
        /\ RequestDone => RequestDone'
        /\ IndexReading => IndexReading'
    BY <2>1, <2>7 DEF RequestReading, RequestDone, IndexReading
  <2>9. /\ CommandReading => CommandReading'
        /\ CommandDone => CommandDone'
    <3>1. Command(result.index)' = Command(result.index)
      BY <2>1 DEF Command
    <3>2. Params(parser, result.index)' = Params(parser, result.index)
      BY <2>1 DEF Params, CString
    <3> QED
      BY <2>1, <3>1, <3>2 DEF CommandReading, CommandDone
  <2>10. Refused => Refused'
    BY <2>2, <2>3 DEF Refused
  <2>11. Destination(parser)' = Destination(parser)
    BY <2>1 DEF Destination
  <2> QED
    BY <2>1, <2>4, <2>5, <2>6, <2>8, <2>9, <2>10, <2>11 DEF HandshakeInv, Stages
<1> QED
  BY <1>1, <1>2, <1>3, <1>4, <1>5, <1>6 DEF Next, Left

-----------------------------------------------------------------------------
(* What the invariant says of the messages *)

\* A message at the start of a stream.
LEMMA Prefix ==
    ASSUME NEW s \in Streams, NEW n \in 0..Len(s)
    PROVE  Len(First(s, n)) = n /\ \A i \in 1..n : At(First(s, n), i) = At(s, i)
<1>1. s \in Seq(Byte) /\ n \in Nat /\ Len(s) \in Nat
  BY DEF Streams
<1>2. First(s, n) = SubSeq(s, 1, n)
  BY DEF First
<1> QED
  BY <1>1, <1>2 DEF At

LEMMA StreamBytes ==
    ASSUME NEW s \in Streams
    PROVE  Len(s) \in Nat /\ \A i \in 1..Len(s) : At(s, i) \in 0..255
<1>1. s \in Seq(0..255)
  BY ByteSeqs
<1>2. Len(s) \in Nat
  BY <1>1
<1>3. ASSUME NEW i \in 1..Len(s) PROVE At(s, i) \in 0..255
  BY <1>1, <1>3, ElementOfSeq DEF At
<1> QED
  BY <1>2, <1>3

LEMMA TextsLayout ==
    ASSUME NEW s, NEW k
    PROVE  /\ After(s, k) = k + At(s, k) + 1
           /\ EndsText(s, k) <=> Len(s) >= k /\ Len(s) + 1 = After(s, k)
           /\ EndsTwoTexts(s, k) <=> Len(s) >= k /\ Len(s) >= After(s, k) /\ EndsText(s, After(s, k))
BY DEF After, At, EndsText, EndsTwoTexts

\* A text that ends at the first n bytes of s has its count among them.
LEMMA PrefixEndsText ==
    ASSUME NEW s \in Streams, NEW n \in 0..Len(s), NEW k \in Nat \ {0}, EndsText(First(s, n), k)
    PROVE  n >= k /\ n + 1 = After(s, k)
<1> DEFINE t == First(s, n)
<1>1. Len(t) = n /\ \A i \in 1..n : At(t, i) = At(s, i)
  BY Prefix
<1>2. Len(t) >= k /\ Len(t) + 1 = After(t, k)
  BY TextsLayout
<1>3. n \in Nat
  BY StreamBytes
<1> HIDE DEF t
<1>4. At(t, k) = At(s, k)
  BY <1>1, <1>2, <1>3
<1>5. After(t, k) = k + At(t, k) + 1 /\ After(s, k) = k + At(s, k) + 1
  BY TextsLayout
<1> QED
  BY <1>1, <1>2, <1>4, <1>5

LEMMA PrefixEndsTwoTexts ==
    ASSUME NEW s \in Streams, NEW n \in 0..Len(s), NEW k \in Nat \ {0},
           EndsTwoTexts(First(s, n), k)
    PROVE  /\ n >= k /\ After(s, k) \in Nat \ {0} /\ n >= After(s, k)
           /\ n + 1 = After(s, After(s, k))
<1> DEFINE t == First(s, n)
<1>1. Len(t) = n /\ \A i \in 1..n : At(t, i) = At(s, i)
  BY Prefix
<1>2. Len(t) >= k /\ Len(t) >= After(t, k) /\ EndsText(t, After(t, k))
  BY TextsLayout
<1> HIDE DEF t
<1>3. n \in Nat /\ Len(s) \in Nat /\ \A i \in 1..Len(s) : At(s, i) \in 0..255
  BY StreamBytes
<1>4. n >= k
  BY <1>1, <1>2
<1>5. k \in 1..n /\ k \in 1..Len(s)
  BY <1>3, <1>4
<1>6. After(t, k) = k + At(t, k) + 1 /\ After(s, k) = k + At(s, k) + 1
  BY TextsLayout
<1>7. After(t, k) = After(s, k) /\ After(s, k) \in Nat \ {0}
  <2>1. At(t, k) = At(s, k) /\ At(s, k) \in 0..255
    BY <1>1, <1>3, <1>5
  <2> DEFINE a == At(s, k)
  <2>2. a \in 0..255
    BY <2>1
  <2>3. After(t, k) = k + a + 1 /\ After(s, k) = k + a + 1
    BY <1>6, <2>1
  <2> HIDE DEF a, t
  <2> QED
    BY <2>2, <2>3
<1>8. n >= After(s, k) /\ n + 1 = After(s, After(s, k))
  BY <1>1, <1>2, <1>7, PrefixEndsText DEF t
<1> QED
  BY <1>4, <1>7, <1>8

\* A list of two texts, or one, that is not done holds no whole message.
LEMMA TwoTextsShort ==
    ASSUME NEW c, IsList(c), c.texts = 2, NEW p, NEW s \in Streams, ListGood(c, p, s), ~is_done(p),
           NEW n \in 0..Len(s)
    PROVE  ~EndsTwoTexts(First(s, n), Lead(c) + 1)
<1> DEFINE k == Lead(c) + 1
           m == After(s, k)
<1>1. k \in Nat \ {0} /\ n \in Nat /\ Len(s) \in Nat /\ n <= Len(s)
  BY StreamBytes DEF Lead
<1>2. CountAt(c, s, 1) = k /\ CountAt(c, s, 2) = m
  BY DEF CountAt
<1>3. 1..c.texts = {1, 2}
  OBVIOUS
<1>4. c.lead => k = 2
  BY DEF Lead
<1> HIDE DEF k, m
<1> SUFFICES ASSUME EndsTwoTexts(First(s, n), k) PROVE FALSE
  BY DEF k
<1>5. n >= k /\ m \in Nat \ {0} /\ n >= m /\ n + 1 = After(s, m)
  BY <1>1, PrefixEndsTwoTexts DEF m
<1>6. CASE c.lead /\ s = << >>
  BY <1>1, <1>4, <1>5, <1>6
<1>7. ASSUME NEW j \in {1, 2}, AtCount(c, p, s, j) PROVE FALSE
  <2>1. Len(s) + 1 = CountAt(c, s, j)
    BY <1>7 DEF AtCount
  <2> QED
    BY <1>1, <1>2, <1>5, <2>1
<1>8. ASSUME NEW j \in {1, 2}, AtText(c, p, s, j) PROVE FALSE
  <2> DEFINE left == Sub(p, p.index).remaining
  <2>1. left \in 1..255 /\ Len(s) + left + 1 = After(s, CountAt(c, s, j))
    BY <1>8 DEF AtText
  <2> HIDE DEF left
  <2>2. Len(s) + left + 1 = m \/ Len(s) + left + 1 = After(s, m)
    BY <1>2, <2>1 DEF m
  <2> QED
    BY <1>1, <1>5, <2>1, <2>2
<1>9. ~AtEnd(c, p, s) /\ p.current # "error_read"
  BY DEF AtEnd, is_done
<1> QED
  BY <1>3, <1>6, <1>7, <1>8, <1>9, ListPhases

LEMMA OneTextShort ==
    ASSUME NEW c, IsList(c), c.texts = 1, NEW p, NEW s \in Streams, ListGood(c, p, s), ~is_done(p),
           NEW n \in 0..Len(s)
    PROVE  ~EndsText(First(s, n), Lead(c) + 1)
<1> DEFINE k == Lead(c) + 1
<1>1. k \in Nat \ {0} /\ n \in Nat /\ Len(s) \in Nat /\ n <= Len(s)
  BY StreamBytes DEF Lead
<1>2. CountAt(c, s, 1) = k
  BY DEF CountAt
<1>3. 1..c.texts = {1}
  OBVIOUS
<1>4. c.lead => k = 2
  BY DEF Lead
<1> HIDE DEF k
<1> SUFFICES ASSUME EndsText(First(s, n), k) PROVE FALSE
  BY DEF k
<1>5. n >= k /\ n + 1 = After(s, k)
  BY <1>1, PrefixEndsText
<1>6. CASE c.lead /\ s = << >>
  BY <1>1, <1>4, <1>5, <1>6
<1>7. ASSUME AtCount(c, p, s, 1) PROVE FALSE
  <2>1. Len(s) + 1 = k
    BY <1>2, <1>7 DEF AtCount
  <2> QED
    BY <1>1, <1>5, <2>1
<1>8. ASSUME AtText(c, p, s, 1) PROVE FALSE
  <2> DEFINE left == Sub(p, p.index).remaining
  <2>1. left \in 1..255 /\ Len(s) + left + 1 = After(s, k)
    BY <1>2, <1>8 DEF AtText
  <2> HIDE DEF left
  <2> QED
    BY <1>1, <1>5, <2>1
<1>9. ~AtEnd(c, p, s) /\ p.current # "error_read"
  BY DEF AtEnd, is_done
<1> QED
  BY <1>3, <1>6, <1>7, <1>8, <1>9, ListPhases

\* The end of a list is the end of the message, and its texts are in place.
LEMMA ListEnds ==
    ASSUME NEW c, NEW p, NEW s, ListGood(c, p, s), p.current = "done_read"
    PROVE  ListIn(c, p, s, c.texts)
           /\ Len(s) + 1 = IF c.texts = 0 THEN 2 ELSE After(s, CountAt(c, s, c.texts))
<1>1. AtEnd(c, p, s)
  BY ListPhases DEF AtCount, AtText
<1> QED
  BY <1>1 DEF AtEnd

LEMMA TwoTextsEnd ==
    ASSUME NEW c, IsList(c), c.texts = 2, NEW p, NEW s, ListGood(c, p, s), p.current = "done_read"
    PROVE  LET k == Lead(c) + 1
           IN /\ EndsTwoTexts(s, k)
              /\ TextIn(Sub(p, Lead(c) + 2), s, k)
              /\ TextIn(Sub(p, Lead(c) + 4), s, After(s, k))
<1> DEFINE k == Lead(c) + 1
           m == After(s, k)
<1>1. CountAt(c, s, 1) = k /\ CountAt(c, s, 2) = m
  BY DEF CountAt
<1>2. CountOf(c, 1) + 1 = Lead(c) + 2 /\ CountOf(c, 2) + 1 = Lead(c) + 4
  BY DEF CountOf, Lead
<1>3. ListIn(c, p, s, 2) /\ Len(s) + 1 = After(s, CountAt(c, s, 2))
  BY ListEnds
<1> HIDE DEF k, m
<1>4. \A j \in 1..2 : TextIn(Sub(p, CountOf(c, j) + 1), s, CountAt(c, s, j))
  BY <1>3 DEF ListIn
<1>5. TextIn(Sub(p, Lead(c) + 2), s, k) /\ TextIn(Sub(p, Lead(c) + 4), s, m)
  BY <1>1, <1>2, <1>4
<1>6. Len(s) >= k /\ Len(s) >= m
  BY <1>5 DEF TextIn
<1>7. EndsText(s, m)
  BY <1>1, <1>3, <1>6, TextsLayout
<1>8. EndsTwoTexts(s, k)
  BY <1>6, <1>7, TextsLayout DEF m
<1> QED
  BY <1>5, <1>8 DEF k, m

LEMMA OneTextEnd ==
    ASSUME NEW c, IsList(c), c.texts = 1, NEW p, NEW s, ListGood(c, p, s), p.current = "done_read"
    PROVE  LET k == Lead(c) + 1
           IN EndsText(s, k) /\ TextIn(Sub(p, Lead(c) + 2), s, k)
<1> DEFINE k == Lead(c) + 1
<1>1. CountAt(c, s, 1) = k
  BY DEF CountAt
<1>2. CountOf(c, 1) + 1 = Lead(c) + 2
  BY DEF CountOf, Lead
<1>3. ListIn(c, p, s, 1) /\ Len(s) + 1 = After(s, CountAt(c, s, 1))
  BY ListEnds
<1> HIDE DEF k
<1>4. \A j \in 1..1 : TextIn(Sub(p, CountOf(c, j) + 1), s, CountAt(c, s, j))
  BY <1>3 DEF ListIn
<1>5. TextIn(Sub(p, Lead(c) + 2), s, k)
  BY <1>1, <1>2, <1>4
<1>6. EndsText(s, k)
  BY <1>1, <1>3, <1>5, TextsLayout DEF TextIn
<1> QED
  BY <1>5, <1>6 DEF k

\* The memory of a text and the text on the wire hold one C string.
LEMMA CStringText ==
    ASSUME NEW p, NEW i, NEW s \in Streams, NEW k \in Nat \ {0},
           IsSub(Sub(p, i)), TextIn(Sub(p, i), s, k)
    PROVE  CString(p, i) = UpToNul(TextAt(s, k))
<1> DEFINE cells == Sub(p, i).result
           m == At(s, k)
           u == TextAt(s, k)
           nul == {j \in 1..m : u[j] = 0}
           Ends(x) == cells[x] = 0 /\ \A j \in 0..(x - 1) : cells[j] # 0
           Text0(x) == [j \in 1..x |-> cells[j - 1]]
<1>1. /\ Len(s) >= k /\ Len(s) + 1 >= After(s, k) /\ Sub(p, i).size = m
      /\ m \in DOMAIN cells /\ cells[m] = 0
  BY DEF TextIn, At
<1>2. \A j \in 0..(m - 1) : j \in DOMAIN cells /\ cells[j] = At(s, k + 1 + j)
  BY DEF TextIn, Cells, At
<1>3. DOMAIN cells \subseteq 0..m
  BY <1>1 DEF IsSub
<1>4. Len(s) \in Nat /\ m \in 0..255 /\ k + m <= Len(s)
  <2>1. Len(s) \in Nat /\ k \in 1..Len(s)
    BY <1>1, StreamBytes
  <2>2. m \in 0..255
    BY <2>1, StreamBytes
  <2>3. After(s, k) = k + m + 1
    BY TextsLayout
  <2> HIDE DEF m
  <2> QED
    BY <1>1, <2>1, <2>2, <2>3
<1>5. u \in Seq(Byte) /\ Len(u) = m /\ \A j \in 1..m : u[j] = At(s, k + j)
  <2>1. u = SubSeq(s, k + 1, k + m) /\ s \in Seq(Byte)
    BY DEF TextAt, At, Streams
  <2> HIDE DEF u, m
  <2>2. k + 1 \in 1..(Len(s) + 1) /\ k + m \in 0..Len(s) /\ m \in Nat
    BY <1>4
  <2>3. u \in Seq(Byte) /\ Len(u) = m
    BY <2>1, <2>2
  <2>4. ASSUME NEW j \in 1..m PROVE u[j] = s[k + j]
    BY <2>1, <2>2
  <2> QED
    BY <2>3, <2>4 DEF At
<1>6. CString(p, i) = Text0(CHOOSE x \in DOMAIN cells : Ends(x))
  BY DEF CString, Sub
<1> HIDE DEF cells, m, u
<1>7. \A j \in 1..m : u[j] = cells[j - 1]
  <2> TAKE j \in 1..m
  <2>1. j - 1 \in 0..(m - 1) /\ k + 1 + (j - 1) = k + j
    BY <1>4
  <2> QED
    BY <1>2, <1>5, <2>1
<1>8. ASSUME NEW q \in 0..m, Ends(q) PROVE CString(p, i) = Text0(q)
  <2>1. q \in DOMAIN cells
    <3>1. q = m \/ q \in 0..(m - 1)
      BY <1>4
    <3> QED
      BY <1>1, <1>2, <3>1
  <2>2. ASSUME NEW x \in DOMAIN cells, Ends(x) PROVE x = q
    <3>1. x \in 0..m
      BY <1>3
    <3>2. CASE x < q
      <4>1. x \in 0..(q - 1)
        BY <1>4, <3>1, <3>2
      <4> QED
        BY <1>8, <2>2, <4>1
    <3>3. CASE q < x
      <4>1. q \in 0..(x - 1)
        BY <1>4, <3>1, <3>3
      <4> QED
        BY <1>8, <2>2, <4>1
    <3> QED
      BY <1>4, <3>1, <3>2, <3>3
  <2> HIDE DEF Ends
  <2>3. (CHOOSE x \in DOMAIN cells : Ends(x)) = q
    BY <1>8, <2>1, <2>2
  <2> QED
    BY <1>6, <2>3
<1>9. CASE nul = {}
  <2>1. UpToNul(u) = u
    BY <1>5, <1>9 DEF UpToNul
  <2>2. Ends(m)
    <3>1. ASSUME NEW j \in 0..(m - 1) PROVE cells[j] # 0
      <4>1. j + 1 \in 1..m /\ (j + 1) - 1 = j
        BY <1>4
      <4> QED
        BY <1>7, <1>9, <4>1
    <3> QED
      BY <1>1, <3>1
  <2>3. CString(p, i) = Text0(m)
    <3>1. m \in 0..m
      BY <1>4
    <3> QED
      BY <1>8, <2>2, <3>1
  <2>4. Text0(m) = u
    <3>1. u = [j \in 1..m |-> u[j]]
      BY <1>5
    <3> QED
      BY <1>7, <3>1
  <2> QED
    BY <2>1, <2>3, <2>4 DEF u
<1>10. CASE nul # {}
  <2> DEFINE Least(x) == x \in nul /\ \A j \in nul : x <= j
             d == CHOOSE x \in nul : \A j \in nul : x <= j
  <2>1. nul \subseteq Nat
    OBVIOUS
  <2>2. d \in nul /\ \A j \in nul : d <= j
    <3>1. \E x \in nul : \A j \in nul : x <= j
      BY <1>10, <2>1, LeastNat
    <3> HIDE DEF nul
    <3> QED
      BY <3>1
  <2>3. UpToNul(u) = First(u, d - 1)
    BY <1>5, <1>10 DEF UpToNul
  <2> HIDE DEF d
  <2>4. d \in 1..m /\ u[d] = 0
    BY <2>2
  <2>5. \A j \in 1..m : j < d => u[j] # 0
    <3> TAKE j \in 1..m
    <3> SUFFICES ASSUME j < d, u[j] = 0 PROVE FALSE
      OBVIOUS
    <3>1. d <= j
      BY <2>2
    <3> QED
      BY <1>4, <2>4, <3>1
  <2>6. d - 1 \in 0..m /\ d - 1 \in 0..Len(u)
    BY <1>4, <1>5, <2>4
  <2>7. Ends(d - 1)
    <3>1. cells[d - 1] = 0
      BY <1>7, <2>4
    <3>2. ASSUME NEW j \in 0..((d - 1) - 1) PROVE cells[j] # 0
      <4>1. j + 1 \in 1..m /\ (j + 1) - 1 = j /\ j + 1 < d
        BY <1>4, <2>4
      <4> QED
        BY <1>7, <2>5, <4>1
    <3> QED
      BY <3>1, <3>2
  <2>8. CString(p, i) = Text0(d - 1)
    BY <1>8, <2>6, <2>7
  <2>9. First(u, d - 1) = Text0(d - 1)
    <3> DEFINE e == d - 1
    <3>1. e \in 0..Len(u) /\ e \in 0..m /\ e \in Nat
      BY <2>6
    <3> HIDE DEF e
    <3>2. SubSeq(u, 1, e) = [j \in 1..e |-> u[j]]
      BY <1>5, <3>1
    <3>3. \A j \in 1..e : j \in 1..m
      BY <1>4, <3>1
    <3>4. SubSeq(u, 1, e) = Text0(e)
      BY <1>7, <3>2, <3>3
    <3> QED
      BY <3>4 DEF First, e
  <2> QED
    BY <2>3, <2>8, <2>9 DEF u
<1> QED
  BY <1>9, <1>10

-----------------------------------------------------------------------------
(* From the invariant to the properties *)

LEMMA SecondByte == ASSUME NEW s \in Streams, Len(s) >= 2 PROVE At(s, 2) \in 0..255
<1>1. Len(s) \in Nat /\ \A i \in 1..Len(s) : At(s, i) \in 0..255
  BY StreamBytes
<1>2. 2 \in 1..Len(s)
  BY <1>1
<1> QED
  BY <1>1, <1>2

LEMMA GreetingHolds == HandshakeInv => GreetingExact
<1> SUFFICES ASSUME HandshakeInv PROVE GreetingExact
  OBVIOUS
<1> DEFINE s == fed
<1>1. s \in Streams /\ Len(s) \in Nat
  BY StreamBytes DEF HandshakeInv, Types
<1>2. ASSUME stage = "HELLO_READ" PROVE Short(fed, WholeGreeting)
  <2>1. HelloGood(Greeting, parser, s) /\ ~hello_is_done(parser)
    BY <1>2 DEF HandshakeInv, Stages, HelloReading
  <2>2. ASSUME NEW n \in 0..Len(s), EndsText(First(s, n), 2) PROVE FALSE
    <3>1. n >= 2 /\ n + 1 = After(s, 2) /\ After(s, 2) = 2 + At(s, 2) + 1
      BY <1>1, <2>2, PrefixEndsText, TextsLayout
    <3>2. Len(s) <= 1 \/ (parser.remaining \in 1..255 /\ Len(s) + parser.remaining = At(s, 2) + 2)
      <4>1. parser.remaining \in 0..255
        BY <2>1 DEF HelloGood, HelloParser
      <4>2. \/ s = << >> \/ Len(s) = 1
            \/ parser.remaining > 0 /\ Len(s) + parser.remaining = At(s, 2) + 2
        BY <2>1 DEF HelloGood, hello_is_done
      <4>3. s = << >> => Len(s) = 0
        OBVIOUS
      <4> DEFINE left == parser.remaining
      <4>4. left > 0 => left \in 1..255
        <5>1. left \in 0..255
          BY <4>1
        <5> HIDE DEF left
        <5> QED
          BY <5>1
      <4> HIDE DEF left, s
      <4>5. Len(s) <= 1 \/ (left \in 1..255 /\ Len(s) + left = At(s, 2) + 2)
        <5>1. \/ s = << >> \/ Len(s) = 1
              \/ left > 0 /\ Len(s) + left = At(s, 2) + 2
          BY <4>2 DEF left
        <5>2. Len(s) = 0 \/ Len(s) = 1 => Len(s) <= 1
          OBVIOUS
        <5> QED
          BY <4>3, <4>4, <5>1, <5>2
      <4> QED
        BY <4>5 DEF left
    <3> DEFINE a == At(s, 2)
               left == parser.remaining
    <3>4. Len(s) >= 2
      BY <1>1, <3>1
    <3>3. a \in 0..255
      BY <1>1, <3>4, SecondByte
    <3>5. left \in 1..255 /\ Len(s) + left = a + 2 /\ n + 1 = 2 + a + 1
      BY <1>1, <3>1, <3>2, <3>4
    <3>6. n \in Nat /\ n <= Len(s)
      BY <1>1
    <3> HIDE DEF a, left, s
    <3> QED
      BY <1>1, <3>3, <3>5, <3>6
  <2> QED
    BY <2>2 DEF Short, WholeGreeting
<1>3. ASSUME stage = "HELLO_WRITE"
      PROVE  /\ WholeGreeting(fed) /\ fed[1] = Version
             /\ parser.method = IF \E i \in 3..Len(fed) : fed[i] = Wanted
                                THEN Wanted ELSE METHOD_NO_ACCEPTABLE_METHODS
  <2>1. HelloGood(Greeting, parser, s) /\ parser.state = "hello_done"
    BY <1>3 DEF HandshakeInv, Stages, HelloAnswering
  <2>2. /\ Len(s) >= 2 /\ At(s, 1) = Version /\ Len(s) = At(s, 2) + 2
        /\ parser.method = Chosen(Greeting, s)
    BY <2>1, Contexts DEF HelloGood
  <2>3. EndsText(s, 2)
    <3>1. At(s, 2) \in 0..255
      BY <1>1, <2>2, SecondByte
    <3>2. After(s, 2) = 2 + At(s, 2) + 1
      BY TextsLayout
    <3> DEFINE a == At(s, 2)
    <3>3. a \in 0..255 /\ After(s, 2) = 2 + a + 1 /\ Len(s) = a + 2
      BY <2>2, <3>1, <3>2
    <3> HIDE DEF a
    <3>4. Len(s) + 1 = After(s, 2)
      BY <3>3
    <3> QED
      BY <2>2, <3>4, TextsLayout
  <2> QED
    BY <2>2, <2>3, Contexts DEF WholeGreeting, Chosen, At
<1> QED
  BY <1>2, <1>3 DEF GreetingExact

LEMMA LoginHolds == HandshakeInv => LoginExact
<1> SUFFICES ASSUME HandshakeInv PROVE LoginExact
  OBVIOUS
<1> DEFINE s == fed
           c == Login
           table == IF isSocks THEN Users ELSE Admins
           name == UpToNul(TextAt(fed, 2))
           pass == UpToNul(TextAt(fed, After(fed, 2)))
<1>1. s \in Streams
  BY DEF HandshakeInv, Types
<1>2. c.kind = "list" /\ IsList(c) /\ c.lead /\ c.texts = 2 /\ c.check = checkVersion
  BY Contexts
<1> HIDE DEF c
<1>3. Lead(c) = 1 /\ Size(c) = 5 /\ Lead(c) + 1 = 2 /\ Lead(c) + 2 = 3 /\ Lead(c) + 4 = 5
  BY <1>2 DEF Lead, Size
<1>4. ASSUME stage = "USERPASS_READ" PROVE Short(fed, WholeLogin)
  <2>1. ListGood(c, parser, s) /\ ~is_done(parser)
    BY <1>4 DEF HandshakeInv, Stages, LoginReading, c
  <2>2. ASSUME NEW n \in 0..Len(s) PROVE ~EndsTwoTexts(First(s, n), 2)
    BY <1>1, <1>2, <1>3, <2>1, TwoTextsShort
  <2> QED
    BY <2>2 DEF Short, WholeLogin
<1>5. ASSUME stage = "USERPASS_WRITE"
      PROVE  /\ WholeLogin(fed) /\ fed[1] = USERPASS_METHOD_VERSION
             /\ (authentication = 0) <=>
                   \E i \in 1..Len(table) : table[i] = [name |-> name, pass |-> pass]
  <2>1. /\ ListGood(c, parser, s) /\ parser.current = "done_read"
        /\ authentication = checkCredentials(CString(parser, 3), CString(parser, 5))
    BY <1>5 DEF HandshakeInv, Stages, LoginAnswering, c
  <2>2. /\ EndsTwoTexts(s, 2) /\ TextIn(Sub(parser, 3), s, 2)
        /\ TextIn(Sub(parser, 5), s, After(s, 2))
    BY <1>2, <1>3, <2>1, TwoTextsEnd
  <2>3. IsSub(Sub(parser, 3)) /\ IsSub(Sub(parser, 5))
    <3>1. ListParser(c, parser)
      BY <2>1, ListPhases
    <3> QED
      BY <1>3, <3>1 DEF ListParser
  <2>4. After(s, 2) \in Nat \ {0}
    <3> DEFINE a == At(s, 2)
    <3>1. Len(s) \in Nat /\ Len(s) >= 2
      BY <1>1, <2>2, StreamBytes, TextsLayout
    <3>2. a \in 0..255
      BY <1>1, <3>1, SecondByte
    <3>3. After(s, 2) = 2 + a + 1
      BY TextsLayout
    <3> HIDE DEF a
    <3> QED
      BY <3>2, <3>3
  <2>5. CString(parser, 3) = name /\ CString(parser, 5) = pass
    BY <1>1, <2>2, <2>3, <2>4, CStringText
  <2>6. fed[1] = USERPASS_METHOD_VERSION
    <3>1. ListIn(c, parser, s, c.texts)
      BY <2>1, ListEnds
    <3>2. At(s, 1) \in checkVersion
      <4>1. checkVersion # {}
        BY DEF checkVersion
      <4> QED
        BY <1>2, <3>1, <4>1 DEF ListIn
    <3> QED
      BY <3>2 DEF At, checkVersion
  <2> HIDE DEF name, pass
  <2>7. (authentication = 0) <=> \E i \in 1..Len(table) : table[i].name = name /\ table[i].pass = pass
    BY <2>1, <2>5 DEF checkCredentials
  <2>8. \A i \in 1..Len(table) : table[i] \in [name : Text, pass : Text]
    <3>1. table \in Seq([name : Text, pass : Text])
      BY TablesAssumption
    <3> HIDE DEF table
    <3> QED
      BY <3>1, ElementOfSeq
  <2> HIDE DEF table
  <2>9. \A i \in 1..Len(table) : /\ table[i].name = name /\ table[i].pass = pass
                                 <=> table[i] = [name |-> name, pass |-> pass]
    <3> SUFFICES ASSUME NEW x \in [name : Text, pass : Text]
                 PROVE  /\ x.name = name /\ x.pass = pass
                        <=> x = [name |-> name, pass |-> pass]
      BY <2>8
    <3> QED
      OBVIOUS
  <2> QED
    BY <2>2, <2>6, <2>7, <2>9 DEF WholeLogin
<1> QED
  BY <1>4, <1>5 DEF LoginExact

LEMMA CommandHolds == HandshakeInv => CommandExact
<1> SUFFICES ASSUME HandshakeInv PROVE CommandExact
  OBVIOUS
<1> DEFINE s == fed
           c == Command(result.index)
           p == parser
           k2 == After(fed, 1)
<1>1. s \in Streams /\ Len(s) \in Nat
  BY StreamBytes DEF HandshakeInv, Types
<1>2. /\ IsList(c) /\ c.check = {} /\ c.lead = (result.index \in OnOff)
      /\ result.index = add_user => c.texts = 2
      /\ result.index = delete_user => c.texts = 1
      /\ result.index \in OnOff => c.texts = 0
  BY Contexts
<1>3. /\ result.index \in OnOff => result.index # add_user /\ result.index # delete_user
      /\ result.index = delete_user => result.index # add_user
  BY DEF OnOff, add_user, delete_user
<1> HIDE DEF c, s, p
<1>4. /\ c.lead => Lead(c) = 1
      /\ ~c.lead => Lead(c) + 1 = 1 /\ Lead(c) + 2 = 2 /\ Lead(c) + 4 = 4
  BY DEF Lead
<1>5. ASSUME stage = "MNG_REQUEST_READ" PROVE Short(fed, WholeParams)
  <2>1. /\ result.index \in {add_user, delete_user} \cup OnOff
        /\ ListGood(c, p, s) /\ ~is_done(p)
    BY <1>5 DEF HandshakeInv, Stages, CommandReading, c, p, s
  <2>2. ASSUME NEW n \in 0..Len(s)
        PROVE  ~(CASE result.index = add_user -> EndsTwoTexts(First(s, n), 1)
                   [] result.index = delete_user -> EndsText(First(s, n), 1)
                   [] OTHER -> Len(First(s, n)) = 1)
    <3>1. CASE result.index = add_user
      <4>1. c.texts = 2 /\ Lead(c) + 1 = 1
        BY <1>2, <1>3, <1>4, <3>1
      <4>2. ~EndsTwoTexts(First(s, n), 1)
        BY <1>1, <1>2, <2>1, <4>1, TwoTextsShort
      <4> QED
        BY <1>3, <3>1, <4>2
    <3>2. CASE result.index = delete_user
      <4>1. c.texts = 1 /\ Lead(c) + 1 = 1
        BY <1>2, <1>3, <1>4, <3>2
      <4>2. ~EndsText(First(s, n), 1)
        BY <1>1, <1>2, <2>1, <4>1, OneTextShort
      <4> QED
        BY <1>3, <3>2, <4>2
    <3>3. CASE result.index \in OnOff
      <4>1. c.texts = 0 /\ 1..c.texts = {}
        <5>1. c.texts = 0
          BY <1>2, <3>3
        <5>2. 1..0 = {}
          OBVIOUS
        <5> QED
          BY <5>1, <5>2
      <4>2. s = << >>
        <5>1. ~AtEnd(c, p, s) /\ p.current # "error_read"
          BY <2>1 DEF AtEnd, is_done
        <5> QED
          BY <2>1, <4>1, <5>1, ListPhases
      <4>3. Len(s) = 0
        BY <4>2
      <4>4. n = 0
        BY <4>3
      <4>5. Len(First(s, n)) = n
        BY <1>1, Prefix
      <4>6. Len(First(s, n)) # 1
        BY <4>4, <4>5
      <4> QED
        BY <1>3, <3>3, <4>6
    <3> QED
      BY <2>1, <3>1, <3>2, <3>3
  <2> QED
    BY <2>2 DEF Short, WholeParams, s
<1>6. ASSUME stage = "MNG_REQUEST_WRITE", result # None, result.texts # << >>
      PROVE  /\ WholeParams(fed)
             /\ result.texts =
                   CASE result.index = add_user -> <<UpToNul(TextAt(fed, 1)),
                                                     UpToNul(TextAt(fed, After(fed, 1)))>>
                     [] result.index = delete_user -> <<UpToNul(TextAt(fed, 1))>>
                     [] OTHER -> fed
  <2>1. /\ result.index \in {add_user, delete_user} \cup OnOff
        /\ ListGood(c, p, s) /\ p.current = "done_read"
        /\ result.texts = Params(p, result.index)
    BY <1>6 DEF HandshakeInv, Stages, CommandDone, c, p, s
  <2>2. ListParser(c, p)
    BY <2>1, ListPhases
  <2>3. CASE result.index = add_user
    <3>1. c.texts = 2 /\ ~c.lead /\ Lead(c) + 1 = 1 /\ Lead(c) + 2 = 2 /\ Lead(c) + 4 = 4
      BY <1>2, <1>3, <1>4, <2>3
    <3>2. Size(c) = 4
      BY <3>1 DEF Size, Lead
    <3>3. /\ EndsTwoTexts(s, 1) /\ TextIn(Sub(p, 2), s, 1) /\ TextIn(Sub(p, 4), s, After(s, 1))
      BY <1>2, <2>1, <3>1, TwoTextsEnd
    <3>4. IsSub(Sub(p, 2)) /\ IsSub(Sub(p, 4))
      BY <2>2, <3>2 DEF ListParser
    <3>5. After(s, 1) \in Nat \ {0}
      <4> DEFINE a == At(s, 1)
      <4>1. Len(s) >= 1
        BY <3>3, TextsLayout
      <4>2. 1 \in 1..Len(s)
        BY <1>1, <4>1
      <4>3. a \in 0..255
        BY <1>1, <4>2, StreamBytes
      <4>4. After(s, 1) = 1 + a + 1
        BY TextsLayout
      <4> HIDE DEF a
      <4> QED
        BY <4>3, <4>4
    <3>6. CString(p, 2) = UpToNul(TextAt(s, 1)) /\ CString(p, 4) = UpToNul(TextAt(s, After(s, 1)))
      BY <1>1, <3>3, <3>4, <3>5, CStringText
    <3>7. Params(p, result.index) = <<CString(p, 2), CString(p, 4)>>
      BY <1>3, <2>3 DEF Params
    <3> QED
      BY <1>3, <2>1, <2>3, <3>3, <3>6, <3>7 DEF WholeParams, s
  <2>4. CASE result.index = delete_user
    <3>1. c.texts = 1 /\ ~c.lead /\ Lead(c) + 1 = 1 /\ Lead(c) + 2 = 2
      BY <1>2, <1>3, <1>4, <2>4
    <3>2. Size(c) = 2
      BY <3>1 DEF Size, Lead
    <3>3. EndsText(s, 1) /\ TextIn(Sub(p, 2), s, 1)
      BY <1>2, <2>1, <3>1, OneTextEnd
    <3>4. IsSub(Sub(p, 2))
      BY <2>2, <3>2 DEF ListParser
    <3>5. CString(p, 2) = UpToNul(TextAt(s, 1))
      BY <1>1, <3>3, <3>4, CStringText
    <3>6. Params(p, result.index) = <<CString(p, 2)>>
      BY <1>3, <2>4 DEF Params
    <3> QED
      BY <1>3, <2>1, <2>4, <3>3, <3>5, <3>6 DEF WholeParams, s
  <2>5. CASE result.index \in OnOff
    <3>1. c.texts = 0 /\ c.lead
      BY <1>2, <2>5
    <3>2. ListIn(c, p, s, c.texts) /\ Len(s) + 1 = 2
      BY <2>1, <3>1, ListEnds
    <3>3. At(Sub(p, 1).result, 0) = At(s, 1)
      BY <3>1, <3>2 DEF ListIn
    <3>4. Len(s) = 1
      <4>1. Len(s) \in Nat /\ Len(s) + 1 = 2
        BY <1>1, <3>2
      <4> QED
        BY <4>1
    <3>5. s = <<At(s, 1)>>
      <4>1. s \in Seq(Byte)
        BY <1>1 DEF Streams
      <4>2. s = [i \in 1..Len(s) |-> s[i]]
        BY <4>1
      <4>3. s = [i \in 1..1 |-> s[i]]
        BY <3>4, <4>2
      <4>4. \A i \in 1..1 : i = 1
        OBVIOUS
      <4>5. s = [i \in 1..1 |-> s[1]]
        BY <4>3, <4>4
      <4>6. <<s[1]>> = [i \in 1..1 |-> s[1]]
        OBVIOUS
      <4> QED
        BY <4>5, <4>6 DEF At
    <3>6. Params(p, result.index) = <<At(Sub(p, 1).result, 0)>>
      BY <1>3, <2>5 DEF Params, At, Sub
    <3> QED
      BY <1>3, <2>1, <2>5, <3>3, <3>4, <3>5, <3>6 DEF WholeParams, s
  <2> QED
    BY <2>1, <2>3, <2>4, <2>5
<1> QED
  BY <1>5, <1>6 DEF CommandExact

LEMMA RepliesHold == HandshakeInv => RepliesExact
<1> SUFFICES ASSUME HandshakeInv PROVE RepliesExact
  OBVIOUS
<1>1. got \in Seq(0..255)
  BY DEF HandshakeInv, Types
<1>2. wb = Empty => Said = got
  BY <1>1, ConcatEmptySeq DEF Said, Empty
<1>3. stage = "HELLO_WRITE" => Said = <<Version, parser.method>>
  BY DEF HandshakeInv, Stages, HelloAnswering
<1>4. stage = "USERPASS_READ" => Said \in {<< >>, <<Version, METHOD_USERNAME_PASSWORD>>}
  BY <1>2 DEF HandshakeInv, Stages, LoginReading
<1>5. stage = "USERPASS_WRITE" => Said = << >> \/ Repeats(Said, <<1, authentication>>)
  BY DEF HandshakeInv, Stages, LoginAnswering
<1>6. stage \in {"REQUEST_READ", "MNG_REQUEST_READ_INDEX"} =>
         \/ Said = << >>
         \/ isSocks /\ auth_method = 0 /\ Said = <<Version, 0>>
         \/ Wanted = METHOD_USERNAME_PASSWORD /\ Repeats(Said, <<1, 0>>)
  BY <1>2 DEF HandshakeInv, Stages, RequestReading, IndexReading, Admitted
<1>7. stage = "DONE" => Said = <<Version, METHOD_NO_ACCEPTABLE_METHODS>> \/ Repeats(Said, <<1, 1>>)
  BY DEF HandshakeInv, Stages, Refused
<1> QED
  BY <1>3, <1>4, <1>5, <1>6, <1>7 DEF RepliesExact, Said

\* A request that is refused is malformed, and no other.
LEMMA VerdictHolds ==
    ASSUME NEW p, NEW s \in Streams, RequestGood(p, s), ~EmptyName(s)
    PROVE  /\ (p.state \in ErrorStates) <=> Malformed(s)
           /\ LET complete == ~Malformed(s) /\ Len(s) >= 5 /\ Len(s) >= RequestLen(s)
              IN /\ (p.state = "request_done") <=> complete
                 /\ complete => Len(s) = RequestLen(s)
<1> DEFINE L == Len(s)
           complete == ~Malformed(s) /\ L >= 5 /\ L >= RequestLen(s)
           a == AddrStart(s)
           n == AddrLen(s)
<1>1. L \in Nat /\ \A i \in 1..L : At(s, i) \in 0..255
  BY StreamBytes
<1>2. RequestLen(s) = a + n + 1
  BY DEF RequestLen
<1>3. AddrBytes(s) = n /\ PortStart(s) = a + n
  BY DEF AddrBytes, PortStart
<1>4. a \in {5, 6}
  BY AddressLayout
<1>5. Addressed(s) => n \in 0..255
  <2> SUFFICES ASSUME Addressed(s) PROVE n \in 0..255
    OBVIOUS
  <2>1. IPV4_LEN \in 1..255 /\ IPV6_LEN \in 1..255
    BY SizesAssumption
  <2>2. CASE At(s, 4) = socks_req_addrtype_domain
    <3>1. L >= 5 /\ 5 \in 1..L
      BY <1>1, <2>2 DEF Addressed
    <3>2. At(s, 5) \in 0..255
      BY <1>1, <3>1
    <3> QED
      BY <2>2, <3>2, AddressLayout
  <2>3. CASE At(s, 4) # socks_req_addrtype_domain
    <3>1. At(s, 4) = socks_req_addrtype_ipv4 \/ At(s, 4) = socks_req_addrtype_ipv6
      BY <2>3 DEF Addressed
    <3>2. n = IPV4_LEN \/ n = IPV6_LEN
      BY <3>1, AddressLayout
    <3> HIDE DEF n
    <3> QED
      BY <2>1, <3>2
  <2> QED
    BY <2>2, <2>3
<1>6. Addressed(s) => ~Malformed(s)
  <2> SUFFICES ASSUME Addressed(s), Malformed(s) PROVE FALSE
    OBVIOUS
  <2>1. CASE L >= 5 /\ At(s, 4) = socks_req_addrtype_domain /\ At(s, 5) >= MAX_FQDN_SIZE
    <3>1. At(s, 5) < MAX_FQDN_SIZE
      BY <2>1 DEF Addressed
    <3>2. 5 \in 1..L
      BY <1>1, <2>1
    <3>3. At(s, 5) \in 0..255 /\ MAX_FQDN_SIZE \in 1..255
      BY <1>1, <3>2, SizesAssumption
    <3> DEFINE x == At(s, 5)
               max == MAX_FQDN_SIZE
    <3>4. x < max /\ x >= max /\ x \in 0..255 /\ max \in 1..255
      BY <2>1, <3>1, <3>3
    <3> HIDE DEF x, max
    <3> QED
      BY <3>4
  <2> QED
    BY <2>1, MalformedLayout DEF Addressed
<1> HIDE DEF L, a, n
<1>7. ASSUME p.state \in {"request_version", "request_cmd", "request_rsv", "request_atyp",
                          "request_dest_addr_fqdn"}
      PROVE  L < 5 /\ ~Malformed(s)
  <2>1. \/ \E k \in 0..3 : Begins(p, s, k)
        \/ /\ L = 4 /\ At(s, 1) = VERSION /\ At(s, 2) = socks_req_cmd_connect
           /\ At(s, 4) = socks_req_addrtype_domain
    BY <1>7 DEF RequestGood, ErrorStates, L
  <2>2. ASSUME NEW k \in 0..3, Begins(p, s, k) PROVE L < 5 /\ ~Malformed(s)
    <3>1. L = k /\ (k >= 1 => At(s, 1) = VERSION) /\ (k >= 2 => At(s, 2) = socks_req_cmd_connect)
      BY <2>2 DEF Begins, L
    <3>2. L < 4
      BY <3>1
    <3>3. ~(L >= 4) /\ ~(L >= 5)
      BY <3>2, <1>1
    <3> QED
      BY <3>1, <3>2, <3>3, MalformedLayout DEF L
  <2>3. ASSUME L = 4, At(s, 1) = VERSION, At(s, 2) = socks_req_cmd_connect,
               At(s, 4) = socks_req_addrtype_domain
        PROVE  L < 5 /\ ~Malformed(s)
    <3>1. ~(L >= 5) /\ L < 5
      BY <2>3
    <3>2. ~(Len(s) >= 5)
      BY <3>1 DEF L
    <3>3. ~Malformed(s)
      BY <2>3, <3>2, MalformedLayout
    <3> QED
      BY <3>1, <3>3
  <2> QED
    BY <2>1, <2>2, <2>3
<1>8. ASSUME p.state = "request_dest_addr"
      PROVE  Addressed(s) /\ L < a + n + 1
  <2> DEFINE k == p.read
  <2>1. Addressed(s) /\ k \in 0..(n - 1) /\ L = a - 1 + k
    BY <1>3, <1>8 DEF RequestGood, ErrorStates, L, a
  <2> HIDE DEF k
  <2>2. n \in 0..255
    BY <1>5, <2>1
  <2> QED
    BY <1>4, <2>1, <2>2
<1>9. ASSUME p.state = "request_dest_port"
      PROVE  Addressed(s) /\ L < a + n + 1
  <2> DEFINE k == p.read
  <2>1. Addressed(s) /\ k \in 0..1 /\ L = (a + n) - 1 + k
    BY <1>3, <1>9 DEF RequestGood, ErrorStates, L
  <2> HIDE DEF k
  <2>2. n \in 0..255
    BY <1>5, <2>1
  <2> QED
    BY <1>4, <2>1, <2>2
<1>10. ASSUME p.state = "request_done"
       PROVE  Addressed(s) /\ L = a + n + 1 /\ L >= 5
  <2>1. Addressed(s) /\ L = (a + n) + 1
    BY <1>3, <1>10 DEF RequestGood, ErrorStates, L
  <2>2. n \in 0..255
    BY <1>5, <2>1
  <2> QED
    BY <1>4, <2>1, <2>2
<1>11. p.state \in ErrorStates => Malformed(s)
  BY DEF RequestGood, ErrorStates
<1>12. \/ p.state \in {"request_version", "request_cmd", "request_rsv", "request_atyp",
                       "request_dest_addr_fqdn", "request_dest_addr", "request_dest_port"}
       \/ p.state = "request_done"
       \/ p.state \in ErrorStates
  BY DEF RequestGood
<1>13. /\ (p.state \in ErrorStates) <=> Malformed(s)
       /\ (p.state = "request_done") <=> complete
       /\ complete => L = RequestLen(s)
  <2>1. CASE p.state \in {"request_version", "request_cmd", "request_rsv", "request_atyp",
                          "request_dest_addr_fqdn"}
    <3>1. p.state \notin ErrorStates /\ p.state # "request_done"
      BY <2>1 DEF ErrorStates
    <3>2. ~Malformed(s) /\ ~(L >= 5)
      BY <1>1, <1>7, <2>1
    <3> QED
      BY <3>1, <3>2
  <2>2. CASE p.state \in {"request_dest_addr", "request_dest_port"}
    <3>1. p.state \notin ErrorStates /\ p.state # "request_done"
      BY <2>2 DEF ErrorStates
    <3>2. Addressed(s) /\ L < a + n + 1
      BY <1>8, <1>9, <2>2
    <3>3. ~(L >= RequestLen(s))
      <4>1. n \in 0..255
        BY <1>5, <3>2
      <4> QED
        BY <1>1, <1>2, <1>4, <3>2, <4>1
    <3> QED
      BY <1>6, <3>1, <3>2, <3>3
  <2>3. CASE p.state = "request_done"
    <3>1. p.state \notin ErrorStates
      BY <2>3 DEF ErrorStates
    <3>2. Addressed(s) /\ L = RequestLen(s) /\ L >= 5
      BY <1>2, <1>10, <2>3
    <3>3. L >= RequestLen(s)
      BY <1>1, <3>2
    <3> QED
      BY <1>6, <2>3, <3>1, <3>2, <3>3
  <2>4. CASE p.state \in ErrorStates
    <3>1. p.state # "request_done"
      BY <2>4 DEF ErrorStates
    <3> QED
      BY <1>11, <2>4, <3>1
  <2> QED
    BY <1>12, <2>1, <2>2, <2>3, <2>4
<1> QED
  BY <1>13 DEF L

\* What is read from the fields is what stands in the request.
LEMMA TargetHolds ==
    ASSUME NEW p, NEW s \in Streams, RequestGood(p, s), p.state = "request_done", ~EmptyName(s)
    PROVE  Destination(p) = [kind |-> s[4],
                             addr |-> Field(s, AddrStart(s), AddrLen(s)),
                             port |-> Field(s, AddrStart(s) + AddrLen(s), 2)]
<1> DEFINE a == AddrStart(s)
           n == AddrLen(s)
<1>1. /\ Addressed(s) /\ AddressIn(p, s, n) /\ PortIn(p, s, 2) /\ PortStart(s) = a + n
  BY DEF RequestGood, ErrorStates, AddrBytes, PortStart
<1>2. p.type = At(s, 4) /\ IsCells(p.addr) /\ Cells(p.addr, s, a, n)
  BY <1>1 DEF AddressIn
<1>3. IsCells(p.port) /\ DOMAIN p.port = 0..1 /\ Cells(p.port, s, a + n, 2)
  BY <1>1 DEF PortIn
<1> HIDE DEF a, n
<1>4. Field(s, a, n) = [i \in 0..(n - 1) |-> At(p.addr, i)]
  <2>1. \A i \in 0..(n - 1) : At(p.addr, i) = At(s, a + i)
    BY <1>2 DEF Cells
  <2> QED
    BY <2>1 DEF Field, At
<1>5. p.port = Field(s, a + n, 2)
  <2>1. \A i \in 0..(2 - 1) : At(p.port, i) = At(s, (a + n) + i)
    BY <1>3 DEF Cells
  <2>2. p.port = [i \in 0..1 |-> At(p.port, i)]
    BY <1>3 DEF IsCells, At
  <2>3. 0..(2 - 1) = 0..1
    OBVIOUS
  <2> QED
    BY <2>1, <2>2, <2>3 DEF Field, At
<1>6. (IF p.type = socks_req_addrtype_domain THEN ResolverName(p) ELSE p.addr) = Field(s, a, n)
  <2>1. CASE At(s, 4) = socks_req_addrtype_domain
    <3>1. p.size = n
      BY <1>1, <2>1, AddressLayout DEF AddressIn, n
    <3>2. ResolverName(p) = [i \in 0..(n - 1) |-> At(p.addr, i)]
      BY <3>1 DEF ResolverName, At
    <3> QED
      BY <1>2, <1>4, <2>1, <3>2
  <2>2. CASE At(s, 4) # socks_req_addrtype_domain
    <3>1. DOMAIN p.addr = 0..(n - 1)
      BY <1>1, <2>2 DEF AddressIn, n
    <3>2. p.addr = [i \in 0..(n - 1) |-> At(p.addr, i)]
      BY <1>2, <3>1 DEF IsCells, At
    <3> QED
      BY <1>2, <1>4, <2>2, <3>2
  <2> QED
    BY <2>1, <2>2
<1>7. p.type = s[4]
  BY <1>2 DEF At
<1> QED
  BY <1>5, <1>6, <1>7 DEF Destination, a, n

LEMMA RequestHolds == HandshakeInv => RequestExact
<1> SUFFICES ASSUME HandshakeInv PROVE RequestExact
  OBVIOUS
<1>1. fed \in Streams
  BY DEF HandshakeInv, Types
<1>2. stage \in {"REQUEST_READ", "REQUEST_CONNECTING", "REQUEST_RESOLV", "REQUEST_WRITE"} =>
         RequestGood(parser, fed)
  BY DEF HandshakeInv, Stages, RequestReading, RequestDone
<1>3. VerdictExact
  <2>1. stage \in {"REQUEST_READ", "REQUEST_CONNECTING", "REQUEST_RESOLV", "REQUEST_WRITE"} =>
           (stage # "REQUEST_READ" <=> parser.state = "request_done")
    BY DEF HandshakeInv, Stages, RequestReading, RequestDone
  <2> QED
    BY <1>1, <1>2, <2>1, VerdictHolds DEF VerdictExact
<1>4. stage \in {"REQUEST_CONNECTING", "REQUEST_RESOLV"} =>
         /\ RequestGood(parser, fed) /\ parser.state = "request_done"
         /\ result = Destination(parser)
  BY DEF HandshakeInv, Stages, RequestDone
<1>5. TargetExact
  BY <1>1, <1>4, TargetHolds DEF TargetExact
<1> QED
  BY <1>3, <1>5 DEF RequestExact

\* The fields of a request that is being read.
LEMMA RequestFieldsHold ==
    ASSUME NEW p, NEW s \in Streams, RequestGood(p, s)
    PROVE  /\ DOMAIN p.addr \subseteq OutsideHost(s) \cup
                 0..((CASE p.type = socks_req_addrtype_ipv4 -> IPV4_LEN
                        [] p.type = socks_req_addrtype_ipv6 -> IPV6_LEN
                        [] OTHER -> MAX_FQDN_SIZE) - 1)
           /\ DOMAIN p.port \subseteq 0..1
<1>1. DOMAIN None = {}
  BY DEF None
<1>2. p.port = None \/ \E n : PortIn(p, s, n)
  BY DEF RequestGood, Begins
<1>3. DOMAIN p.port \subseteq 0..1
  BY <1>1, <1>2 DEF PortIn
<1>4. p.addr = None \/ (Addressed(s) /\ \E n : AddressIn(p, s, n))
  BY DEF RequestGood, Begins
<1>5. CASE p.addr = None
  BY <1>1, <1>3, <1>5
<1>6. ASSUME Addressed(s), NEW n, AddressIn(p, s, n)
      PROVE  DOMAIN p.addr \subseteq OutsideHost(s) \cup
                0..((CASE p.type = socks_req_addrtype_ipv4 -> IPV4_LEN
                       [] p.type = socks_req_addrtype_ipv6 -> IPV6_LEN
                       [] OTHER -> MAX_FQDN_SIZE) - 1)
  <2>1. /\ p.type = At(s, 4)
        /\ IF At(s, 4) = socks_req_addrtype_domain
           THEN DOMAIN p.addr \subseteq OutsideHost(s) \cup 0..(MAX_FQDN_SIZE - 1)
           ELSE DOMAIN p.addr = 0..(AddrLen(s) - 1)
    BY <1>6 DEF AddressIn
  <2>2. CASE At(s, 4) = socks_req_addrtype_ipv4
    <3>1. p.type = socks_req_addrtype_ipv4 /\ DOMAIN p.addr = 0..(IPV4_LEN - 1)
      BY <2>1, <2>2, AddressLayout DEF socks_req_addrtype_ipv4, socks_req_addrtype_domain
    <3> QED
      BY <3>1 DEF socks_req_addrtype_ipv4, socks_req_addrtype_ipv6
  <2>3. CASE At(s, 4) = socks_req_addrtype_ipv6
    <3>1. p.type = socks_req_addrtype_ipv6 /\ DOMAIN p.addr = 0..(IPV6_LEN - 1)
      BY <2>1, <2>3, AddressLayout DEF socks_req_addrtype_ipv6, socks_req_addrtype_domain
    <3> QED
      BY <3>1 DEF socks_req_addrtype_ipv4, socks_req_addrtype_ipv6
  <2>4. CASE At(s, 4) = socks_req_addrtype_domain
    BY <2>1, <2>4 DEF socks_req_addrtype_ipv4, socks_req_addrtype_ipv6, socks_req_addrtype_domain
  <2> QED
    BY <1>6, <2>2, <2>3, <2>4 DEF Addressed
<1> QED
  BY <1>3, <1>4, <1>5, <1>6

LEMMA ListFieldsHold ==
    ASSUME NEW c, IsList(c), NEW p, ListParser(c, p)
    PROVE  \A i \in 1..Len(p.states) : DOMAIN p.states[i].result \subseteq 0..p.states[i].size
<1>1. p.states = [i \in 1..Size(c) |-> Sub(p, i)] /\ \A i \in 1..Size(c) : IsSub(Sub(p, i))
  BY DEF ListParser
<1>2. Size(c) \in Nat
  BY DEF Size, Lead, IsList
<1> DEFINE n == Size(c)
           states == p.states
<1> HIDE DEF n, states
<1>3. Len(states) = n
  <2>1. states = [i \in 1..n |-> Sub(p, i)] /\ n \in Nat
    BY <1>1, <1>2 DEF states, n
  <2> QED
    BY <2>1
<1>4. \A i \in 1..n : DOMAIN Sub(p, i).result \subseteq 0..Sub(p, i).size
  BY <1>1 DEF IsSub, n
<1> QED
  BY <1>3, <1>4 DEF states, Sub

LEMMA StoresHold == HandshakeInv => StoresInField
<1> SUFFICES ASSUME HandshakeInv PROVE StoresInField
  OBVIOUS
<1>1. fed \in Streams /\ Buffered(rb, RbSize) /\ Buffered(wb, WbSize)
  BY DEF HandshakeInv, Types
<1>2. /\ Len(rb.bytes) <= rb.write /\ rb.write <= RbSize
      /\ Len(wb.bytes) <= wb.write /\ wb.write <= WbSize
  <2>1. RbSize \in Nat /\ WbSize \in Nat
    BY BoundsAssumption
  <2>2. rb.write \in 0..RbSize /\ wb.write \in 0..WbSize
    BY <1>1 DEF Buffered
  <2>3. Len(rb.bytes) <= rb.write /\ Len(wb.bytes) <= wb.write
    BY <1>1 DEF Buffered
  <2>4. \A n \in Nat : \A k \in 0..n : k <= n
    OBVIOUS
  <2> QED
    BY <2>1, <2>2, <2>3, <2>4
<1>3. stage = "REQUEST_READ" => RequestGood(parser, fed)
  BY DEF HandshakeInv, Stages, RequestReading
<1>4. stage \in {"USERPASS_READ", "MNG_REQUEST_READ"} => \E c : IsList(c) /\ ListParser(c, parser)
  <2>1. stage = "USERPASS_READ" => ListParser(Login, parser)
    BY ListPhases DEF HandshakeInv, Stages, LoginReading
  <2>2. stage = "MNG_REQUEST_READ" => ListParser(Command(result.index), parser)
    BY ListPhases DEF HandshakeInv, Stages, CommandReading
  <2> QED
    BY <2>1, <2>2, Contexts
<1> QED
  BY <1>1, <1>2, <1>3, <1>4, RequestFieldsHold, ListFieldsHold DEF StoresInField

-----------------------------------------------------------------------------
(* The theorems *)

\* In every reachable state the parser of the stage is what the bytes fed since
\* the stage began make of it, the buffers keep their order, and what was said
\* is what the stage says: hello_read to mng_request_read together keep it.
THEOREM HandshakeInvariant == Spec => []HandshakeInv
<1> QED
  BY InitInv, NextInv, PTL DEF Spec

\* hello_read answers a greeting at its last byte, and with the method that
\* this service wants if and only if the greeting offers it, wherever recv()
\* cuts it and whatever follows.
THEOREM GreetingIsExact == Spec => []GreetingExact
<1> QED
  BY HandshakeInvariant, GreetingHolds, PTL

\* auth_read judges a login at its last byte, and grants it if and only if the
\* table has the name and the password of the message, read as C strings.
THEOREM LoginIsExact == Spec => []LoginExact
<1> QED
  BY HandshakeInvariant, LoginHolds, PTL

\* mng_request_read runs a command at its last byte, with the parameters that
\* stand in the message, read as C strings.
THEOREM CommandIsExact == Spec => []CommandExact
<1> QED
  BY HandshakeInvariant, CommandHolds, PTL

\* hello_write and auth_write send the method once and whole copies of one
\* verdict, however send() splits them, before the next stage begins.
THEOREM RepliesAreExact == Spec => []RepliesExact
<1> QED
  BY HandshakeInvariant, RepliesHold, PTL

\* request_read stops at the last byte of a request, refuses exactly the
\* malformed ones, and asks for the address and the port that stand in it, for
\* every request but those with an empty name.
THEOREM RequestIsExact == Spec => []RequestExact
<1> QED
  BY HandshakeInvariant, RequestHolds, PTL

\* The 8-bit counters of the parsers keep every store within its field, but for
\* the terminator of an empty name, one cell before it (dest_address_fqdn), and
\* neither buffer overflows, however many verdicts auth_write appends.
THEOREM StoresStayInField == Spec => []StoresInField
<1> QED
  BY HandshakeInvariant, StoresHold, PTL

=============================================================================
