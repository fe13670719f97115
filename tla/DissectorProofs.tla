--------------------------- MODULE DissectorProofs ---------------------------
(***************************************************************************)
(* The password dissector, for streams of any bytes, any words that share  *)
(* no first byte, texts of any maximal length and any step of growth.      *)
(*   Memory: what makes MemorySafe inductive is what each state of the     *)
(* automaton knows of its two strings: while one is written its memory is  *)
(* as long as checkSize made it for the bytes it has, and it is live from  *)
(* the first byte until it is freed.                                       *)
(*   Progress and reports: PlaceOf, the definition of what may become an   *)
(* exchange, is shown to be an automaton too (PlaceGrows), and every       *)
(* proper end of a candidate to stand beside it (Beside), so that when the *)
(* candidate can grow no more none of its ends but the last byte can       *)
(* (AdvanceMoves).  Then each handler goes where the candidate goes        *)
(* (Follows), with the candidate's texts in memory.                        *)
(***************************************************************************)
EXTENDS Dissector, DataLemmas

PointerFields == {"mem", "cap", "cells"}
IsPointer(ptr) == ptr = [g \in PointerFields |-> ptr[g]]

ParserFields == {"current", "current_index", "last", "username", "password", "fault", "out"}
IsParser(q) == q = [g \in ParserFields |-> q[g]]

\* A string with n bytes has memory in whole steps, with room for another byte
\* except at the end of a step, where checkSize comes first.
Grown(ptr, n) ==
    n > 0 => /\ ptr.mem = "live" /\ ptr.cap \in Nat /\ ptr.cap % BUFFER_SIZE = 0
             /\ n % BUFFER_SIZE # 0 => n < ptr.cap

\* The strings are what the state of the automaton relies on.
Strings(q) ==
    /\ q.current = "user_read" => Grown(q.username, q.current_index)
    /\ q.current \in {"pass_word_search", "pass_read"} => q.username.mem = "live"
    /\ q.current = "pass_read" => Grown(q.password, q.current_index)

Whole(q) ==
    /\ IsParser(q) /\ IsPointer(q.username) /\ IsPointer(q.password)
    /\ q.current_index \in Nat /\ q.fault = FALSE

States == {"user_word_search", "user_read", "pass_word_search", "pass_read"}

Sane(q) == Whole(q) /\ q.current \in States /\ Strings(q)

-----------------------------------------------------------------------------
(* The strings *)

\* checkSize makes room for the byte at index n.
LEMMA CheckSizeGrows ==
    ASSUME NEW ptr, IsPointer(ptr), NEW n \in Nat, Grown(ptr, n)
    PROVE  LET v == checkSize(ptr, n)
           IN /\ IsPointer(v) /\ v.mem = "live" /\ v.cap \in Nat
              /\ v.cap % BUFFER_SIZE = 0 /\ n < v.cap
<1> DEFINE v == checkSize(ptr, n)
<1>1. BUFFER_SIZE \in Nat /\ BUFFER_SIZE > 0
  BY SizeAssumption
<1>2. 0 % BUFFER_SIZE = 0 /\ BUFFER_SIZE % BUFFER_SIZE = 0
      /\ (n + BUFFER_SIZE) % BUFFER_SIZE = n % BUFFER_SIZE
  BY <1>1, ModZero, ModNext
<1>6. n = 0 => n % BUFFER_SIZE = 0
  BY <1>2
<1>3. CASE n % BUFFER_SIZE # 0
  <2>1. n > 0
    BY <1>3, <1>6
  <2>2. v = ptr
    BY <1>3 DEF checkSize
  <2> QED
    BY <1>3, <2>1, <2>2 DEF Grown
<1>4. CASE n = 0
  <2>1. v = [mem |-> "live", cap |-> BUFFER_SIZE, cells |-> << >>]
    BY <1>2, <1>4 DEF checkSize
  <2>2. IsPointer(v) /\ v.mem = "live" /\ v.cap = BUFFER_SIZE
    BY <2>1 DEF IsPointer, PointerFields
  <2> QED
    BY <1>1, <1>2, <1>4, <2>2
<1>5. CASE n % BUFFER_SIZE = 0 /\ n # 0
  <2>1. v = [ptr EXCEPT !.cap = n + BUFFER_SIZE]
    BY <1>5 DEF checkSize
  <2>2. IsPointer(v) /\ v.mem = ptr.mem /\ v.cap = n + BUFFER_SIZE
    BY <2>1 DEF IsPointer, PointerFields
  <2>3. ptr.mem = "live"
    BY <1>5 DEF Grown
  <2> QED
    BY <1>1, <1>2, <1>5, <2>2, <2>3
<1> QED
  BY <1>3, <1>4, <1>5

\* The string is then ready for the byte after it.
LEMMA RoomGrows ==
    ASSUME NEW ptr, NEW n \in Nat, ptr.mem = "live", ptr.cap \in Nat,
           ptr.cap % BUFFER_SIZE = 0, n < ptr.cap
    PROVE  Grown(ptr, n + 1)
<1>1. ASSUME (n + 1) % BUFFER_SIZE # 0 PROVE n + 1 < ptr.cap
  <2>1. n + 1 # ptr.cap
    BY <1>1
  <2> QED
    BY <2>1
<1> QED
  BY <1>1 DEF Grown

\* The byte is stored in the string that is being written.
LEMMA PutStores ==
    ASSUME NEW q, Whole(q), NEW f \in {"username", "password"}, NEW b,
           Grown(q[f], q.current_index)
    PROVE  LET v == Put(q, f, b)
           IN /\ Whole(v)
              /\ v.current = q.current /\ v.current_index = q.current_index
              /\ v.last = q.last /\ v.out = q.out
              /\ v[f].mem = "live" /\ Grown(v[f], q.current_index + 1)
              /\ \A g \in {"username", "password"} \ {f} : v[g] = q[g]
<1> DEFINE n == q.current_index
           ptr == checkSize(q[f], n)
           new == [ptr EXCEPT !.cells = Store(@, n, b)]
           v == Put(q, f, b)
<1>1. IsPointer(q[f]) /\ n \in Nat
  BY DEF Whole
<1>2. /\ IsPointer(ptr) /\ ptr.mem = "live" /\ ptr.cap \in Nat
      /\ ptr.cap % BUFFER_SIZE = 0 /\ n < ptr.cap
  BY <1>1, CheckSizeGrows
<1>3. v = [q EXCEPT ![f] = new,
                    !.fault = @ \/ (q[f].mem = "freed" /\ n # 0)
                                \/ ~(ptr.mem = "live" /\ n < ptr.cap)]
  BY DEF Put
<1>4. n # 0 => q[f].mem # "freed"
  BY <1>1 DEF Grown
<1> HIDE DEF ptr, v
<1>5. IsPointer(new) /\ new.mem = "live" /\ new.cap = ptr.cap
  BY <1>2 DEF IsPointer, PointerFields
<1> HIDE DEF new
<1>6. Grown(new, n + 1)
  BY <1>1, <1>2, <1>5, RoomGrows
<1>7. v = [q EXCEPT ![f] = new, !.fault = FALSE]
  BY <1>2, <1>3, <1>4 DEF Whole
<1>8. /\ IsParser(v) /\ v[f] = new /\ v.fault = FALSE
      /\ \A g \in ParserFields \ {f, "fault"} : v[g] = q[g]
  BY <1>7 DEF Whole, IsParser, ParserFields
<1>9. \A g \in {"current", "current_index", "last", "out"} :
        g \in ParserFields \ {f, "fault"}
  BY DEF ParserFields
<1>10. \A g \in {"username", "password"} \ {f} : v[g] = q[g]
  BY <1>8 DEF ParserFields
<1>11. IsPointer(v.username) /\ IsPointer(v.password)
  BY <1>5, <1>8, <1>10 DEF Whole
<1> QED
  BY <1>1, <1>5, <1>6, <1>8, <1>9, <1>10, <1>11 DEF v, Whole

\* A string that was not freed yet is freed.
LEMMA ReleaseFrees ==
    ASSUME NEW q, Whole(q), NEW f \in {"username", "password"}, q[f].mem # "freed"
    PROVE  LET v == release(q, f)
           IN /\ Whole(v) /\ v.current_index = q.current_index
              /\ \A g \in {"username", "password"} \ {f} : v[g] = q[g]
<1> DEFINE v == release(q, f)
<1>1. v = [q EXCEPT ![f] = Dangling, !.fault = FALSE]
  BY DEF release, Whole
<1>2. IsPointer(Dangling)
  BY DEF Dangling, IsPointer, PointerFields
<1> HIDE DEF v
<1>3. /\ IsParser(v) /\ v[f] = Dangling /\ v.fault = FALSE
      /\ \A g \in ParserFields \ {f, "fault"} : v[g] = q[g]
  BY <1>1 DEF Whole, IsParser, ParserFields
<1>4. v.current_index = q.current_index
  BY <1>3 DEF ParserFields
<1>5. \A g \in {"username", "password"} \ {f} : v[g] = q[g]
  BY <1>3 DEF ParserFields
<1>6. IsPointer(v.username) /\ IsPointer(v.password)
  BY <1>2, <1>3, <1>5 DEF Whole
<1> QED
  BY <1>3, <1>4, <1>5, <1>6 DEF v, Whole

-----------------------------------------------------------------------------
(* The automaton *)

\* The search may start over from anywhere: it relies on no string.
LEMMA RestartSane == ASSUME NEW q, Whole(q), NEW b PROVE Sane(Restart(q, b))
<1> DEFINE n == IF UserWord[1] = b THEN 1 ELSE 0
           v == Restart(q, b)
<1>1. n \in Nat
  OBVIOUS
<1>2. v = [q EXCEPT !.current = "user_word_search", !.last = FALSE, !.current_index = n]
  BY DEF Restart
<1> HIDE DEF n, v
<1>3. /\ IsParser(v) /\ v.current = "user_word_search" /\ v.current_index = n
      /\ v.username = q.username /\ v.password = q.password /\ v.fault = q.fault
  BY <1>2 DEF Whole, IsParser, ParserFields
<1> QED
  BY <1>1, <1>3 DEF v, Sane, Whole, Strings, States

\* v has the strings of q.
Keeps(q, v) ==
    /\ IsParser(v) /\ v.fault = q.fault
    /\ v.username = q.username /\ v.password = q.password

\* A change of the state, the index or last is sound if the strings allow it.
LEMMA MoveSane ==
    ASSUME NEW q, Whole(q), NEW v, Keeps(q, v), v.current \in States, v.current_index \in Nat,
           Strings(v)
    PROVE  Sane(v)
BY DEF Keeps, Sane, Whole

\* Looking for "user ": no string is begun when the word is complete.
LEMMA UserWordSane ==
    ASSUME NEW q, Sane(q), q.current = "user_word_search", NEW b
    PROVE  Sane(user_word_search_handler(q, b))
<1> DEFINE v == user_word_search_handler(q, b)
           n == q.current_index
<1>1. Whole(q) /\ IsParser(q) /\ n \in Nat
  BY DEF Sane, Whole
<1>2. CASE UserWord[n + 1] # b
  BY <1>1, <1>2, RestartSane DEF user_word_search_handler
<1>3. CASE UserWord[n + 1] = b /\ n + 1 = USER_L
  <2>1. v = [[q EXCEPT !.current_index = 0] EXCEPT !.current = "user_read"]
    BY <1>1, <1>3 DEF user_word_search_handler, Goto
  <2> HIDE DEF v
  <2>2. Keeps(q, v) /\ v.current = "user_read" /\ v.current_index = 0
    BY <1>1, <2>1 DEF Keeps, IsParser, ParserFields
  <2>3. Sane(v)
    BY <1>1, <2>2, MoveSane DEF States, Strings, Keeps, Grown
  <2> QED
    BY <2>3 DEF v
<1>4. CASE UserWord[n + 1] = b /\ n + 1 # USER_L
  <2>1. v = [q EXCEPT !.current_index = n + 1]
    BY <1>1, <1>4 DEF user_word_search_handler
  <2> HIDE DEF v
  <2>2. Keeps(q, v) /\ v.current = "user_word_search" /\ v.current_index = n + 1
    BY <1>1, <2>1 DEF Keeps, IsParser, ParserFields
  <2>3. Sane(v)
    BY <1>1, <2>2, MoveSane DEF States, Strings, Keeps
  <2> QED
    BY <2>3 DEF v
<1> QED
  BY <1>2, <1>3, <1>4

\* Looking for "pass ": the name is freed when the word does not follow.
LEMMA PassWordSane ==
    ASSUME NEW q, Sane(q), q.current = "pass_word_search", NEW b
    PROVE  Sane(pass_word_search_handler(q, b))
<1> DEFINE v == pass_word_search_handler(q, b)
           n == q.current_index
<1>1. Whole(q) /\ IsParser(q) /\ n \in Nat /\ q.username.mem = "live"
  BY DEF Sane, Whole, Strings
<1>2. CASE PassWord[n + 1] # b
  <2>1. Whole(release(q, "username"))
    BY <1>1, ReleaseFrees
  <2> QED
    BY <1>2, <2>1, RestartSane DEF pass_word_search_handler
<1>3. CASE PassWord[n + 1] = b /\ n + 1 = PASS_L
  <2>1. v = [[q EXCEPT !.current_index = 0] EXCEPT !.current = "pass_read"]
    BY <1>1, <1>3 DEF pass_word_search_handler, Goto
  <2> HIDE DEF v
  <2>2. Keeps(q, v) /\ v.current = "pass_read" /\ v.current_index = 0
    BY <1>1, <2>1 DEF Keeps, IsParser, ParserFields
  <2>3. Sane(v)
    BY <1>1, <2>2, MoveSane DEF States, Strings, Keeps, Grown
  <2> QED
    BY <2>3 DEF v
<1>4. CASE PassWord[n + 1] = b /\ n + 1 # PASS_L
  <2>1. v = [q EXCEPT !.current_index = n + 1]
    BY <1>1, <1>4 DEF pass_word_search_handler
  <2> HIDE DEF v
  <2>2. Keeps(q, v) /\ v.current = "pass_word_search" /\ v.current_index = n + 1
    BY <1>1, <2>1 DEF Keeps, IsParser, ParserFields
  <2>3. Sane(v)
    BY <1>1, <2>2, MoveSane DEF States, Strings, Keeps
  <2> QED
    BY <2>3 DEF v
<1> QED
  BY <1>2, <1>3, <1>4

\* Reading the name: it is live, if only for its NUL, when the line ends.
LEMMA UserReadSane ==
    ASSUME NEW q, Sane(q), q.current = "user_read", NEW b
    PROVE  Sane(user_read_handler(q, b))
<1> DEFINE v == user_read_handler(q, b)
           n == q.current_index
<1>1. /\ Whole(q) /\ IsParser(q) /\ n \in Nat /\ n + 1 \in Nat
      /\ Grown(q.username, n) /\ q.current \in States
  BY DEF Sane, Whole, Strings
<1>2. Sane(user_read_reset(q, b))
  BY <1>1, RestartSane DEF user_read_reset
<1>3. Sane([q EXCEPT !.last = TRUE])
  <2> DEFINE w == [q EXCEPT !.last = TRUE]
  <2>1. Keeps(q, w) /\ w.current = q.current /\ w.current_index = n
    BY <1>1 DEF Keeps, IsParser, ParserFields
  <2> HIDE DEF w
  <2>2. Strings(w)
    BY <2>1 DEF Sane, Strings, Keeps
  <2>3. Sane(w)
    BY <1>1, <2>1, <2>2, MoveSane
  <2> QED
    BY <2>3 DEF w
<1>4. ASSUME NEW x
      PROVE  LET u == Put(q, "username", x)
             IN /\ Sane([u EXCEPT !.current_index = @ + 1])
                /\ Sane(Goto([u EXCEPT !.current_index = 0, !.last = FALSE],
                             "pass_word_search"))
  <2> DEFINE u == Put(q, "username", x)
  <2>1. /\ Whole(u) /\ u.current = "user_read" /\ u.current_index = n
        /\ u.username.mem = "live" /\ Grown(u.username, n + 1)
    BY <1>1, PutStores
  <2> HIDE DEF u
  <2>2. IsParser(u)
    BY <2>1 DEF Whole
  <2> DEFINE r == [u EXCEPT !.current_index = n + 1]
  <2>3. Keeps(u, r) /\ r.current = u.current /\ r.current_index = n + 1
    BY <2>2 DEF Keeps, IsParser, ParserFields
  <2> HIDE DEF r
  <2>4. Sane(r)
    BY <1>1, <2>1, <2>3, MoveSane DEF States, Strings, Keeps
  <2> DEFINE t == Goto([u EXCEPT !.current_index = 0, !.last = FALSE], "pass_word_search")
  <2>5. Keeps(u, t) /\ t.current = "pass_word_search" /\ t.current_index = 0
    BY <2>2 DEF Goto, Keeps, IsParser, ParserFields
  <2> HIDE DEF t
  <2>6. Sane(t)
    BY <2>1, <2>5, MoveSane DEF States, Strings, Keeps
  <2> QED
    BY <2>1, <2>4, <2>6 DEF u, r, t
<1> QED
  BY <1>2, <1>3, <1>4 DEF user_read_handler

\* Reading the password: what is freed at the end of the line is the name and,
\* if it is not empty, the password.
LEMMA PassReadSane ==
    ASSUME NEW q, Sane(q), q.current = "pass_read", NEW b
    PROVE  Sane(pass_read_handler(q, b))
<1> DEFINE v == pass_read_handler(q, b)
           n == q.current_index
<1>1. /\ Whole(q) /\ IsParser(q) /\ n \in Nat /\ n + 1 \in Nat
      /\ Grown(q.password, n) /\ q.username.mem = "live" /\ q.current \in States
  BY DEF Sane, Whole, Strings
<1>2. Sane(user_read_reset(q, b))
  BY <1>1, RestartSane DEF user_read_reset
<1>3. Sane([q EXCEPT !.last = TRUE])
  <2> DEFINE w == [q EXCEPT !.last = TRUE]
  <2>1. Keeps(q, w) /\ w.current = q.current /\ w.current_index = n
    BY <1>1 DEF Keeps, IsParser, ParserFields
  <2> HIDE DEF w
  <2>2. Strings(w)
    BY <2>1 DEF Sane, Strings, Keeps
  <2>3. Sane(w)
    BY <1>1, <2>1, <2>2, MoveSane
  <2> QED
    BY <2>3 DEF w
<1>4. ASSUME NEW u, Whole(u), u.username.mem = "live",
             u.current_index # 0 => u.password.mem = "live"
      PROVE  Sane(pass_read_reset(u, b))
  <2> DEFINE w == IF u.current_index # 0 THEN release(u, "password") ELSE u
  <2>1. Whole(w) /\ w.username = u.username
    BY <1>4, ReleaseFrees
  <2> HIDE DEF w
  <2>2. Whole(release(w, "username"))
    BY <1>4, <2>1, ReleaseFrees
  <2> QED
    BY <2>2, RestartSane DEF pass_read_reset, w
<1>5. Sane(pass_read_reset(q, b))
  BY <1>1, <1>4 DEF Grown
<1>6. ASSUME NEW x
      PROVE  LET u == Put(q, "password", x)
             IN /\ Sane([u EXCEPT !.current_index = @ + 1])
                /\ Sane(pass_read_reset(Report(u), b))
  <2> DEFINE u == Put(q, "password", x)
             w == Report(u)
  <2>1. /\ Whole(u) /\ u.current = "pass_read" /\ u.current_index = n
        /\ u.password.mem = "live" /\ Grown(u.password, n + 1)
        /\ u.username = q.username
    BY <1>1, PutStores
  <2> HIDE DEF u
  <2>2. IsParser(u)
    BY <2>1 DEF Whole
  <2> DEFINE r == [u EXCEPT !.current_index = n + 1]
  <2>3. Keeps(u, r) /\ r.current = u.current /\ r.current_index = n + 1
    BY <2>2 DEF Keeps, IsParser, ParserFields
  <2> HIDE DEF r
  <2>4. Sane(r)
    BY <1>1, <2>1, <2>3, MoveSane DEF States, Strings, Keeps
  <2>5. /\ Whole(w) /\ w.username = u.username /\ w.password = u.password
        /\ w.current_index = n
    BY <2>1 DEF Report, Whole, IsParser, ParserFields
  <2> HIDE DEF w
  <2>6. Sane(pass_read_reset(w, b))
    BY <1>1, <1>4, <2>1, <2>5
  <2> QED
    BY <2>1, <2>4, <2>6 DEF u, w, r
<1> QED
  BY <1>2, <1>3, <1>5, <1>6 DEF pass_read_handler

\* One byte, in any state.
LEMMA FeedSane == ASSUME NEW q, Sane(q), NEW b PROVE Sane(dissec_parser_feed(q, b))
<1>1. CASE q.current = "user_word_search"
  BY <1>1, UserWordSane DEF dissec_parser_feed
<1>2. CASE q.current = "user_read"
  BY <1>2, UserReadSane DEF dissec_parser_feed
<1>3. CASE q.current = "pass_word_search"
  BY <1>3, PassWordSane DEF dissec_parser_feed
<1>4. CASE q.current = "pass_read"
  BY <1>4, PassReadSane DEF dissec_parser_feed
<1> QED
  BY <1>1, <1>2, <1>3, <1>4 DEF Sane, States

-----------------------------------------------------------------------------
(* A read: a recursive function of the number of bytes fed *)

\* g is what feeding the first n bytes makes of the parser.
Feeds(g, q, bytes, n) ==
    g = [k \in 0..n |-> IF k = 0 THEN [q EXCEPT !.out = << >>]
                        ELSE dissec_parser_feed(g[k - 1], bytes[k])]

\* There is one for every number of bytes.
LEMMA FeedsExist == ASSUME NEW q, NEW bytes, NEW n \in Nat PROVE \E g : Feeds(g, q, bytes, n)
<1> DEFINE Feed(x, k) == dissec_parser_feed(x, bytes[k])
           start == [q EXCEPT !.out = << >>]
           S == {k \in Nat : ~\E g : Feeds(g, q, bytes, k)}
<1>1. S = {}
  <2> SUFFICES ASSUME S # {} PROVE FALSE
    OBVIOUS
  <2>1. PICK m \in S : \A k \in S : m <= k
    BY LeastNat
  <2>2. CASE m = 0
    <3> DEFINE g == [k \in 0..0 |-> start]
    <3>1. \A k \in 0..0 : k = 0
      OBVIOUS
    <3>2. g = [k \in 0..0 |-> IF k = 0 THEN start ELSE Feed(g[k - 1], k)]
      BY <3>1
    <3> HIDE DEF g
    <3>3. Feeds(g, q, bytes, 0)
      BY <3>2 DEF Feeds
    <3> QED
      BY <2>2, <3>3
  <2>3. CASE m # 0
    <3>1. m - 1 \in Nat /\ m - 1 \notin S
      BY <2>1, <2>3
    <3>2. PICK g : Feeds(g, q, bytes, m - 1)
      BY <3>1
    <3>3. g = [k \in 0..(m - 1) |-> IF k = 0 THEN start ELSE Feed(g[k - 1], k)]
      BY <3>2 DEF Feeds
    <3> DEFINE h == [k \in 0..m |-> IF k = m THEN Feed(g[m - 1], m) ELSE g[k]]
    <3> HIDE DEF Feed, start
    <3>4. ASSUME NEW k \in 0..m
          PROVE  h[k] = IF k = 0 THEN start ELSE Feed(h[k - 1], k)
      <4>1. CASE k = m
        <5>1. h[k - 1] = g[m - 1] /\ k # 0
          BY <2>3, <3>1, <4>1
        <5> QED
          BY <4>1, <5>1
      <4>2. CASE k # m
        <5>1. k \in 0..(m - 1) /\ h[k] = g[k]
          BY <3>1, <4>2
        <5>2. g[k] = IF k = 0 THEN start ELSE Feed(g[k - 1], k)
          BY <3>3, <5>1
        <5>3. k # 0 => h[k - 1] = g[k - 1]
          BY <3>1, <5>1
        <5> QED
          BY <5>1, <5>2, <5>3
      <4> QED
        BY <4>1, <4>2
    <3>5. h = [k \in 0..m |-> h[k]]
      OBVIOUS
    <3> HIDE DEF h
    <3>6. h = [k \in 0..m |-> IF k = 0 THEN start ELSE Feed(h[k - 1], k)]
      BY <3>4, <3>5
    <3>7. Feeds(h, q, bytes, m)
      BY <3>6 DEF Feeds, Feed, start
    <3> QED
      BY <2>1, <3>7
  <2> QED
    BY <2>2, <2>3
<1> QED
  BY <1>1

\* Every state it goes through is sane.
LEMMA ConsumeSane ==
    ASSUME NEW q, Sane(q), NEW bytes, Len(bytes) \in Nat
    PROVE  Sane(dissec_consume(q, bytes))
<1> DEFINE n == Len(bytes)
           g == CHOOSE x : Feeds(x, q, bytes, n)
           start == [q EXCEPT !.out = << >>]
           Feed(x, k) == dissec_parser_feed(x, bytes[k])
           S == {k \in 0..n : ~Sane(g[k])}
<1>1. dissec_consume(q, bytes) = g[n]
  BY DEF dissec_consume, Feeds
<1>2. Feeds(g, q, bytes, n)
  BY FeedsExist
<1> HIDE DEF g
<1>3. g = [k \in 0..n |-> IF k = 0 THEN start ELSE Feed(g[k - 1], k)]
  BY <1>2 DEF Feeds
<1>4. Sane(start)
  <2>1. /\ Keeps(q, start) /\ start.current = q.current
        /\ start.current_index = q.current_index
    BY DEF Sane, Whole, Keeps, IsParser, ParserFields
  <2> HIDE DEF start
  <2>2. Strings(start)
    BY <2>1 DEF Sane, Strings, Keeps
  <2> QED
    BY <2>1, <2>2, MoveSane DEF Sane, Whole
<1>5. \A x, k : Sane(x) => Sane(Feed(x, k))
  BY FeedSane
<1> HIDE DEF start, Feed, n
<1>6. S = {}
  <2> SUFFICES ASSUME S # {} PROVE FALSE
    OBVIOUS
  <2>1. n \in Nat
    BY DEF n
  <2>2. S \subseteq Nat
    BY <2>1
  <2>3. PICK m \in S : \A k \in S : m <= k
    BY <2>2, LeastNat
  <2>4. CASE m = 0
    BY <1>3, <1>4, <2>1, <2>3, <2>4
  <2>5. CASE m # 0
    <3>1. m - 1 \in 0..n /\ m - 1 \notin S /\ m \in 0..n
      BY <2>1, <2>3, <2>5
    <3>2. Sane(g[m - 1]) /\ g[m] = Feed(g[m - 1], m)
      BY <1>3, <2>5, <3>1
    <3> QED
      BY <1>5, <2>3, <3>2
  <2> QED
    BY <2>4, <2>5
<1>7. n \in 0..n
  BY DEF n
<1> QED
  BY <1>1, <1>6, <1>7

-----------------------------------------------------------------------------
(* Memory *)

\* A cleared struct has no string.
LEMMA InitSane == Sane(dissec_parser_init)
<1> DEFINE q == dissec_parser_init
<1>1. /\ IsParser(q) /\ q.current = "user_word_search" /\ q.current_index = 0
      /\ q.username = NullPtr /\ q.password = NullPtr /\ q.fault = FALSE
  BY DEF dissec_parser_init, IsParser, ParserFields
<1>2. IsPointer(NullPtr)
  BY DEF NullPtr, IsPointer, PointerFields
<1> HIDE DEF q
<1>3. Sane(q)
  BY <1>1, <1>2 DEF Sane, Whole, Strings, States
<1> QED
  BY <1>3 DEF q

\* Whatever bytes the two ends send and however they are split into reads, and
\* for any length at which a text is given up and any step of growth, the name
\* and the password are written within their memory while it is live, and no
\* pointer is freed twice (checkSize, user_read_reset, pass_read_reset).
THEOREM MemoryStaysSafe == Spec => []MemorySafe
<1>1. Init => Sane(p)
  BY InitSane DEF Init
<1>2. Sane(p) /\ [Next]_vars => Sane(p)'
  <2> SUFFICES ASSUME Sane(p), [Next]_vars PROVE Sane(p')
    OBVIOUS
  <2>1. ASSUME NEW bytes \in BoundedSeq(Byte, MaxRead), copy_read(bytes) PROVE Sane(p')
    <3>1. Len(bytes) \in Nat
      BY SizeAssumption DEF BoundedSeq, SeqOf
    <3> QED
      BY <2>1, <3>1, ConsumeSane DEF copy_read
  <2>2. CASE socks5_new
    BY <2>2, InitSane DEF socks5_new
  <2>3. CASE UNCHANGED vars
    BY <2>3 DEF vars
  <2> QED
    BY <2>1, <2>2, <2>3 DEF Next
<1>3. Sane(p) => MemorySafe
  BY DEF Sane, Whole, MemorySafe
<1> QED
  BY <1>1, <1>2, <1>3, PTL DEF Spec

-----------------------------------------------------------------------------
(* Sequences of bytes *)

\* Appending a byte, and the front and the last of what it makes.
LEMMA AppendIs ==
    ASSUME NEW s \in Seq(Byte), NEW b \in Byte
    PROVE  /\ Append(s, b) \in Seq(Byte) /\ Len(Append(s, b)) = Len(s) + 1
           /\ Append(s, b) # << >>
           /\ \A i \in 1..Len(s) : Append(s, b)[i] = s[i]
           /\ Append(s, b)[Len(s) + 1] = b
           /\ Last(Append(s, b)) = b /\ Front(Append(s, b)) = s
<1> DEFINE u == Append(s, b)
<1>1. /\ u \in Seq(Byte) /\ Len(u) = Len(s) + 1 /\ u # << >> /\ Len(s) \in Nat
      /\ \A i \in 1..Len(s) : u[i] = s[i]
      /\ u[Len(s) + 1] = b
  OBVIOUS
<1> HIDE DEF u
<1>2. Last(u) = b
  BY <1>1 DEF Last
<1>3. Front(u) = s
  <2>1. Front(u) = SubSeq(u, 1, Len(s))
    BY <1>1 DEF Front
  <2>2. /\ Front(u) \in Seq(Byte) /\ Len(Front(u)) = Len(s)
        /\ \A i \in 1..Len(s) : Front(u)[i] = u[i]
    BY <1>1, <2>1
  <2> HIDE DEF u
  <2> QED
    BY <1>1, <2>2
<1> QED
  BY <1>1, <1>2, <1>3 DEF u

\* Sequences that agree everywhere are equal.
LEMMA SeqEqual ==
    ASSUME NEW s \in Seq(Byte), NEW t \in Seq(Byte), Len(s) = Len(t),
           \A i \in 1..Len(s) : s[i] = t[i]
    PROVE  s = t
OBVIOUS

\* What follows the first n bytes.
LEMMA AfterIs ==
    ASSUME NEW s \in Seq(Byte), NEW n \in Nat, n <= Len(s)
    PROVE  /\ After(s, n) \in Seq(Byte) /\ Len(After(s, n)) = Len(s) - n
           /\ \A i \in 1..(Len(s) - n) : After(s, n)[i] = s[n + i]
<1>1. Len(s) \in Nat /\ n + 1 \in 1..(Len(s) + 1)
  OBVIOUS
<1>2. After(s, n) = SubSeq(s, n + 1, Len(s))
  BY DEF After
<1>3. After(s, n) \in Seq(Byte) /\ Len(After(s, n)) = Len(s) - n
  BY <1>1, <1>2
<1>4. ASSUME NEW i \in 1..(Len(s) - n) PROVE After(s, n)[i] = s[n + i]
  BY <1>1, <1>2
<1> QED
  BY <1>3, <1>4

\* It grows with the sequence.
LEMMA AfterAppend ==
    ASSUME NEW s \in Seq(Byte), NEW b \in Byte, NEW n \in Nat, n <= Len(s)
    PROVE  After(Append(s, b), n) = Append(After(s, n), b)
<1> DEFINE u == Append(s, b)
           x == After(u, n)
           t == After(s, n)
           y == Append(t, b)
<1>1. /\ u \in Seq(Byte) /\ Len(u) = Len(s) + 1 /\ u[Len(s) + 1] = b
      /\ \A i \in 1..Len(s) : u[i] = s[i]
  BY AppendIs
<1> HIDE DEF u
<1>2. Len(s) \in Nat /\ n <= Len(u)
  BY <1>1
<1>3. /\ x \in Seq(Byte) /\ Len(x) = Len(s) + 1 - n
      /\ \A i \in 1..(Len(s) + 1 - n) : x[i] = u[n + i]
  <2>1. /\ x \in Seq(Byte) /\ Len(x) = Len(u) - n
        /\ \A i \in 1..(Len(u) - n) : x[i] = u[n + i]
    BY <1>1, <1>2, AfterIs
  <2>2. Len(u) - n = Len(s) + 1 - n
    BY <1>1
  <2> QED
    BY <2>1, <2>2
<1>4. /\ t \in Seq(Byte) /\ Len(t) = Len(s) - n
      /\ \A i \in 1..(Len(s) - n) : t[i] = s[n + i]
  BY AfterIs
<1> HIDE DEF x, t
<1>5. /\ y \in Seq(Byte) /\ Len(y) = Len(s) - n + 1 /\ y[Len(s) - n + 1] = b
      /\ \A i \in 1..(Len(s) - n) : y[i] = t[i]
  BY <1>4, AppendIs
<1> HIDE DEF y
<1>6. ASSUME NEW i \in 1..Len(x) PROVE x[i] = y[i]
  <2>1. CASE i = Len(s) - n + 1
    <3>1. n + i = Len(s) + 1 /\ i \in 1..(Len(s) + 1 - n)
      BY <1>2, <2>1
    <3> QED
      BY <1>1, <1>3, <1>5, <2>1, <3>1
  <2>2. CASE i # Len(s) - n + 1
    <3> DEFINE m == Len(s)
    <3>4. m \in Nat /\ n \in Nat /\ n <= m /\ i \in Nat /\ 1 <= i /\ i <= m + 1 - n
          /\ i # m - n + 1
      BY <1>3, <2>2
    <3> HIDE DEF m
    <3>5. i \in 1..(m - n) /\ n + i \in 1..m /\ i \in 1..(m + 1 - n)
      BY <3>4
    <3>1. i \in 1..(Len(s) - n) /\ n + i \in 1..Len(s) /\ i \in 1..(Len(s) + 1 - n)
      BY <3>5 DEF m
    <3>2. x[i] = u[n + i] /\ u[n + i] = s[n + i]
      BY <1>1, <1>3, <3>1
    <3>3. y[i] = t[i] /\ t[i] = s[n + i]
      BY <1>4, <1>5, <3>1
    <3> QED
      BY <3>2, <3>3
  <2> QED
    BY <2>1, <2>2
<1>7. Len(x) = Len(y)
  BY <1>2, <1>3, <1>5
<1>8. x = y
  BY <1>3, <1>5, <1>6, <1>7, SeqEqual
<1> QED
  BY <1>8 DEF x, y, t, u

\* Nothing follows the whole sequence, and all of it follows nothing.
LEMMA AfterEnds ==
    ASSUME NEW s \in Seq(Byte) PROVE After(s, Len(s)) = << >> /\ After(s, 0) = s
<1>1. Len(s) \in Nat /\ 0 <= Len(s)
  OBVIOUS
<1>5. \A n \in Nat : n <= Len(s) =>
        After(s, n) \in Seq(Byte) /\ Len(After(s, n)) = Len(s) - n
  BY AfterIs
<1>2. After(s, Len(s)) \in Seq(Byte) /\ Len(After(s, Len(s))) = 0
  BY <1>1, <1>5
<1>3. /\ After(s, 0) \in Seq(Byte) /\ Len(After(s, 0)) = Len(s)
      /\ \A i \in 1..Len(s) : After(s, 0)[i] = s[i]
  BY <1>1, AfterIs
<1>4. After(s, 0) = s
  BY <1>3, SeqEqual
<1> QED
  BY <1>2, <1>4

\* A prefix, byte by byte.
LEMMA PrefixIs ==
    ASSUME NEW s \in Seq(Byte), NEW t \in Seq(Byte)
    PROVE  IsPrefix(s, t) <=> Len(s) <= Len(t) /\ \A i \in 1..Len(s) : s[i] = t[i]
<1> DEFINE x == SubSeq(s, 1, Len(s))
           y == SubSeq(t, 1, Len(s))
<1>1. Len(s) \in Nat /\ Len(t) \in Nat
  OBVIOUS
<1>2. x \in Seq(Byte) /\ Len(x) = Len(s) /\ \A i \in 1..Len(s) : x[i] = s[i]
  BY <1>1
<1>3. Len(s) <= Len(t) =>
        y \in Seq(Byte) /\ Len(y) = Len(s) /\ \A i \in 1..Len(s) : y[i] = t[i]
  BY <1>1
<1>4. IsPrefix(s, t) <=> Len(s) <= Len(t) /\ x = y
  BY DEF IsPrefix
<1> HIDE DEF x, y
<1>5. ASSUME Len(s) <= Len(t), \A i \in 1..Len(s) : s[i] = t[i] PROVE x = y
  BY <1>2, <1>3, <1>5, SeqEqual
<1>6. ASSUME Len(s) <= Len(t), x = y PROVE \A i \in 1..Len(s) : s[i] = t[i]
  BY <1>2, <1>3, <1>6
<1> QED
  BY <1>4, <1>5, <1>6

\* A sequence shorter than a word stays a prefix with the word's next byte, and
\* one that has the word as its prefix keeps it.
LEMMA PrefixAppend ==
    ASSUME NEW s \in Seq(Byte), NEW word \in Seq(Byte), NEW b \in Byte
    PROVE  /\ Len(s) < Len(word) =>
                (IsPrefix(Append(s, b), word) <=> IsPrefix(s, word) /\ word[Len(s) + 1] = b)
           /\ Len(s) >= Len(word) => (IsPrefix(word, Append(s, b)) <=> IsPrefix(word, s))
           /\ Len(s) = Len(word) => (IsPrefix(word, s) <=> IsPrefix(s, word))
<1> DEFINE u == Append(s, b)
<1>1. /\ u \in Seq(Byte) /\ Len(u) = Len(s) + 1 /\ u[Len(s) + 1] = b
      /\ \A i \in 1..Len(s) : u[i] = s[i]
  BY AppendIs
<1> HIDE DEF u
<1>2. Len(s) \in Nat /\ Len(word) \in Nat
  OBVIOUS
<1>3. ASSUME Len(s) < Len(word)
      PROVE  IsPrefix(u, word) <=> IsPrefix(s, word) /\ word[Len(s) + 1] = b
  <2>1. /\ IsPrefix(u, word) <=> \A i \in 1..(Len(s) + 1) : u[i] = word[i]
        /\ IsPrefix(s, word) <=> \A i \in 1..Len(s) : s[i] = word[i]
    BY <1>1, <1>2, <1>3, PrefixIs
  <2>2. \A i : i \in 1..(Len(s) + 1) <=> i \in 1..Len(s) \/ i = Len(s) + 1
    BY <1>2
  <2> QED
    BY <1>1, <2>1, <2>2
<1>4. ASSUME Len(s) >= Len(word) PROVE IsPrefix(word, u) <=> IsPrefix(word, s)
  <2>1. \A i \in 1..Len(word) : i \in 1..Len(s)
    BY <1>2, <1>4
  <2>2. Len(word) <= Len(u)
    BY <1>1, <1>2, <1>4
  <2>3. /\ IsPrefix(word, u) <=> \A i \in 1..Len(word) : word[i] = u[i]
        /\ IsPrefix(word, s) <=> \A i \in 1..Len(word) : word[i] = s[i]
    BY <1>1, <1>2, <1>4, <2>2, PrefixIs
  <2> QED
    BY <1>1, <2>1, <2>3
<1>5. ASSUME Len(s) = Len(word) PROVE IsPrefix(word, s) <=> IsPrefix(s, word)
  BY <1>2, <1>5, PrefixIs
<1> QED
  BY <1>3, <1>4, <1>5 DEF u

\* The first occurrence of a byte is one, or there is none.
LEMMA FirstIs ==
    ASSUME NEW s \in Seq(Byte), NEW b
    PROVE  /\ FirstOf(s, b) \in 0..Len(s)
           /\ FirstOf(s, b) = 0 => \A i \in 1..Len(s) : s[i] # b
           /\ FirstOf(s, b) # 0 =>
                s[FirstOf(s, b)] = b /\ \A j \in 1..(FirstOf(s, b) - 1) : s[j] # b
<1> DEFINE S == {i \in 1..Len(s) : s[i] = b}
           IsFirst(i) == s[i] = b /\ \A j \in 1..(i - 1) : s[j] # b
<1>1. Len(s) \in Nat
  OBVIOUS
<1>2. CASE S = {}
  <2>1. FirstOf(s, b) = 0
    BY <1>2 DEF FirstOf
  <2> QED
    BY <1>1, <1>2, <2>1
<1>3. CASE S # {}
  <2>1. S \subseteq Nat
    BY <1>1
  <2>2. PICK m \in S : \A k \in S : m <= k
    BY <1>3, <2>1, LeastNat
  <2>3. m \in 1..Len(s) /\ s[m] = b
    BY <2>2
  <2>4. ASSUME NEW j \in 1..(m - 1) PROVE s[j] # b
    <3>1. j \in 1..Len(s) /\ ~(m <= j)
      BY <1>1, <2>3
    <3> QED
      BY <2>2, <3>1
  <2>5. IsFirst(m)
    BY <2>3, <2>4
  <2> HIDE DEF IsFirst
  <2>6. FirstOf(s, b) = CHOOSE i \in 1..Len(s) : IsFirst(i)
    BY <2>3 DEF FirstOf, IsFirst
  <2>7. FirstOf(s, b) \in 1..Len(s) /\ IsFirst(FirstOf(s, b))
    BY <2>3, <2>5, <2>6
  <2> QED
    BY <1>1, <2>7 DEF IsFirst
<1> QED
  BY <1>2, <1>3

\* There is only one first occurrence.
LEMMA FirstUnique ==
    ASSUME NEW s \in Seq(Byte), NEW b
    PROVE  /\ (\A i \in 1..Len(s) : s[i] # b) => FirstOf(s, b) = 0
           /\ \A n \in 1..Len(s) :
                s[n] = b /\ (\A j \in 1..(n - 1) : s[j] # b) => FirstOf(s, b) = n
<1>1. Len(s) \in Nat
  OBVIOUS
<1>2. (\A i \in 1..Len(s) : s[i] # b) => FirstOf(s, b) = 0
  BY DEF FirstOf
<1>3. ASSUME NEW n \in 1..Len(s), s[n] = b, \A j \in 1..(n - 1) : s[j] # b
      PROVE  FirstOf(s, b) = n
  <2> DEFINE m == FirstOf(s, b)
  <2>1. /\ m \in 0..Len(s)
        /\ m = 0 => \A i \in 1..Len(s) : s[i] # b
        /\ m # 0 => s[m] = b /\ \A j \in 1..(m - 1) : s[j] # b
    BY FirstIs
  <2> HIDE DEF m
  <2>2. m # 0
    BY <1>3, <2>1
  <2>3. ~(m < n)
    <3>1. m < n => m \in 1..(n - 1)
      BY <1>1, <2>1, <2>2
    <3> QED
      BY <1>3, <2>1, <2>2, <3>1
  <2>4. ~(n < m)
    <3>1. n < m => n \in 1..(m - 1)
      BY <1>1, <2>1, <2>2
    <3> QED
      BY <1>3, <2>1, <2>2, <3>1
  <2>5. m = n
    BY <1>1, <2>1, <2>3, <2>4
  <2> QED
    BY <2>5 DEF m
<1> QED
  BY <1>2, <1>3

\* A first occurrence stays; the appended byte may be the first one.
LEMMA FirstAppend ==
    ASSUME NEW s \in Seq(Byte), NEW c \in Byte, NEW b
    PROVE  FirstOf(Append(s, c), b) = IF FirstOf(s, b) # 0 THEN FirstOf(s, b)
                                      ELSE IF c = b THEN Len(s) + 1 ELSE 0
<1> DEFINE u == Append(s, c)
           n == FirstOf(s, b)
<1>1. /\ u \in Seq(Byte) /\ Len(u) = Len(s) + 1 /\ u[Len(s) + 1] = c
      /\ \A i \in 1..Len(s) : u[i] = s[i]
  BY AppendIs
<1>2. /\ n \in 0..Len(s)
      /\ n = 0 => \A i \in 1..Len(s) : s[i] # b
      /\ n # 0 => s[n] = b /\ \A j \in 1..(n - 1) : s[j] # b
  BY FirstIs
<1> HIDE DEF u, n
<1>3. /\ (\A i \in 1..Len(u) : u[i] # b) => FirstOf(u, b) = 0
      /\ \A k \in 1..Len(u) :
           u[k] = b /\ (\A j \in 1..(k - 1) : u[j] # b) => FirstOf(u, b) = k
  BY <1>1, FirstUnique
<1>4. Len(s) \in Nat
  OBVIOUS
<1>5. ASSUME n # 0 PROVE FirstOf(u, b) = n
  <2>1. n \in 1..Len(s) /\ n \in 1..Len(u)
    BY <1>1, <1>2, <1>4, <1>5
  <2>2. \A j \in 1..(n - 1) : j \in 1..Len(s)
    BY <1>4, <2>1
  <2>3. u[n] = b /\ \A j \in 1..(n - 1) : u[j] # b
    BY <1>1, <1>2, <1>5, <2>1, <2>2
  <2> QED
    BY <1>3, <2>1, <2>3
<1>6. ASSUME n = 0, c = b PROVE FirstOf(u, b) = Len(s) + 1
  <2>1. Len(s) + 1 \in 1..Len(u) /\ (Len(s) + 1) - 1 = Len(s)
    BY <1>1, <1>4
  <2>2. \A j \in 1..((Len(s) + 1) - 1) : u[j] # b
    BY <1>1, <1>2, <1>6, <2>1
  <2> QED
    BY <1>1, <1>3, <1>6, <2>1, <2>2
<1>7. ASSUME n = 0, c # b PROVE FirstOf(u, b) = 0
  <2>1. \A i : i \in 1..Len(u) => i \in 1..Len(s) \/ i = Len(s) + 1
    BY <1>1, <1>4
  <2> QED
    BY <1>1, <1>2, <1>3, <1>7, <2>1
<1> QED
  BY <1>5, <1>6, <1>7 DEF u, n

-----------------------------------------------------------------------------
(* Lines *)

\* s ends in a carriage return.
EndsCR(s) == s # << >> /\ Last(s) = CR

\* What Strip leaves of a line with another byte.
LEMMA StripAppend ==
    ASSUME NEW s \in Seq(Byte), NEW b \in Byte
    PROVE  /\ Strip(Append(s, b)) = IF b = CR THEN s ELSE Append(s, b)
           /\ EndsCR(Append(s, b)) <=> b = CR
BY AppendIs DEF Strip, EndsCR

\* What Strip leaves of a line.
LEMMA StripIs ==
    ASSUME NEW s \in Seq(Byte)
    PROVE  /\ Strip(s) \in Seq(Byte)
           /\ ~EndsCR(s) => Strip(s) = s
           /\ EndsCR(s) => /\ Len(s) > 0 /\ s[Len(s)] = CR
                           /\ Len(Strip(s)) = Len(s) - 1
                           /\ \A i \in 1..(Len(s) - 1) : Strip(s)[i] = s[i]
<1>1. CASE EndsCR(s)
  <2>1. Len(s) \in Nat /\ Len(s) > 0 /\ s[Len(s)] = CR
    BY <1>1 DEF EndsCR, Last
  <2>2. Strip(s) = SubSeq(s, 1, Len(s) - 1)
    BY <1>1 DEF EndsCR, Strip, Front
  <2>3. /\ Strip(s) \in Seq(Byte) /\ Len(Strip(s)) = Len(s) - 1
        /\ \A i \in 1..(Len(s) - 1) : Strip(s)[i] = s[i]
    <3> DEFINE m == Len(s) - 1
               x == SubSeq(s, 1, m)
    <3>1. m \in Nat /\ m <= Len(s)
      BY <2>1
    <3> HIDE DEF m
    <3>2. x \in Seq(Byte) /\ Len(x) = m /\ \A i \in 1..m : x[i] = s[i]
      BY <3>1
    <3> QED
      BY <2>2, <3>2 DEF m
  <2> QED
    BY <1>1, <2>1, <2>3
<1>2. CASE ~EndsCR(s)
  BY <1>2 DEF EndsCR, Strip
<1> QED
  BY <1>1, <1>2

\* A plain sequence has another plain byte.
LEMMA PlainAppend ==
    ASSUME NEW s \in Seq(Byte), NEW b \in Byte
    PROVE  /\ Plain(Append(s, b)) <=> Plain(s) /\ b \notin {CR, LF, Eight}
           /\ EndsCR(s) => ~Plain(s)
<1> DEFINE u == Append(s, b)
<1>1. /\ u \in Seq(Byte) /\ Len(u) = Len(s) + 1 /\ u[Len(s) + 1] = b
      /\ \A i \in 1..Len(s) : u[i] = s[i]
  BY AppendIs
<1> HIDE DEF u
<1>2. Len(s) \in Nat
  OBVIOUS
<1>3. \A i : i \in 1..Len(u) <=> i \in 1..Len(s) \/ i = Len(s) + 1
  BY <1>1, <1>2
<1>4. Plain(u) <=> Plain(s) /\ b \notin {CR, LF, Eight}
  BY <1>1, <1>3 DEF Plain
<1>5. ASSUME EndsCR(s) PROVE ~Plain(s)
  <2>1. Len(s) > 0 /\ s[Len(s)] = CR
    BY <1>5, StripIs
  <2>2. Len(s) \in 1..Len(s)
    BY <1>2, <2>1
  <2> QED
    BY <2>1, <2>2 DEF Plain
<1> QED
  BY <1>4, <1>5 DEF u

\* A line that is as long as a text may be, without a line end.
Spent(s) == Len(Strip(s)) = MaxText

\* A line grows until it is full: by any byte but a line feed and one over 127,
\* and by none after a carriage return.
LEMMA LineGrows ==
    ASSUME NEW s \in Seq(Byte), NEW b \in Byte
    PROVE  /\ IsLine(Append(s, b)) => IsLine(s) /\ b # LF
           /\ Finishes(Strip(s)) => IsLine(s)
           /\ IsLine(s) => /\ Len(Strip(s)) <= MaxText
                           /\ Finishes(Strip(s)) <=> ~Spent(s)
           /\ IsLine(s) /\ ~Spent(s) =>
                (IsLine(Append(s, b)) <=> ~EndsCR(s) /\ b \notin {LF, Eight})
           /\ IsLine(s) /\ Spent(s) => Strip(s) = s
<1> DEFINE u == Append(s, b)
           x == Strip(s)
           y == Strip(u)
<1>1. /\ u \in Seq(Byte) /\ Len(u) = Len(s) + 1 /\ Len(s) \in Nat
      /\ MaxText \in Nat /\ MaxText > 0
      /\ CR # LF /\ Eight \notin {CR, LF}
  BY AppendIs, SizeAssumption, ByteAssumption
<1>2. /\ y = IF b = CR THEN s ELSE u
      /\ x \in Seq(Byte) /\ Len(x) \in Nat
      /\ ~EndsCR(s) => x = s
      /\ EndsCR(s) => Len(x) = Len(s) - 1
  BY StripAppend, StripIs
<1>3. /\ Plain(u) <=> Plain(s) /\ b \notin {CR, LF, Eight}
      /\ EndsCR(s) => ~Plain(s)
  BY PlainAppend
<1>4. /\ IsLine(s) <=> (Len(x) < MaxText /\ Plain(x)) \/ (Len(s) = MaxText /\ Plain(s))
      /\ IsLine(u) <=> (Len(y) < MaxText /\ Plain(y)) \/ (Len(u) = MaxText /\ Plain(u))
      /\ Finishes(x) <=> Len(x) < MaxText /\ Plain(x)
      /\ Spent(s) <=> Len(x) = MaxText
  BY <1>1, <1>2 DEF IsLine, Finishes, IsText, Spent
<1> HIDE DEF u, x, y
<1>5. ASSUME IsLine(u) PROVE IsLine(s) /\ b # LF
  BY <1>1, <1>2, <1>3, <1>4, <1>5
<1>6. ASSUME IsLine(s) PROVE Len(x) <= MaxText /\ (Finishes(x) <=> ~Spent(s))
  BY <1>1, <1>2, <1>3, <1>4, <1>6
<1>7. ASSUME IsLine(s), ~Spent(s) PROVE IsLine(u) <=> ~EndsCR(s) /\ b \notin {LF, Eight}
  BY <1>1, <1>2, <1>3, <1>4, <1>7
<1>8. ASSUME IsLine(s), Spent(s) PROVE x = s
  BY <1>1, <1>2, <1>3, <1>4, <1>8
<1> QED
  BY <1>4, <1>5, <1>6, <1>7, <1>8 DEF u, x

-----------------------------------------------------------------------------
(* Places *)

\* The place of a sequence with one more byte, from its place without it.
Grow(at, b) ==
    CASE at.part = "user_word_search" ->
           IF UserWord[Len(at.rest) + 1] # b THEN Nowhere
           ELSE IF Len(at.rest) + 1 = USER_L THEN Place("user_read", << >>, << >>)
           ELSE Place("user_word_search", Append(at.rest, b), << >>)
      [] at.part = "user_read" ->
           IF b = LF /\ Finishes(Strip(at.rest))
           THEN Place("pass_word_search", << >>, Strip(at.rest))
           ELSE IF IsLine(Append(at.rest, b))
           THEN Place("user_read", Append(at.rest, b), << >>) ELSE Nowhere
      [] at.part = "pass_word_search" ->
           IF PassWord[Len(at.rest) + 1] # b THEN Nowhere
           ELSE IF Len(at.rest) + 1 = PASS_L THEN Place("pass_read", << >>, at.name)
           ELSE Place("pass_word_search", Append(at.rest, b), at.name)
      [] at.part = "pass_read" ->
           IF IsLine(Append(at.rest, b))
           THEN Place("pass_read", Append(at.rest, b), at.name) ELSE Nowhere
      [] OTHER -> Nowhere

\* See Grow.
LEMMA GrowIs ==
    ASSUME NEW rest, NEW name, NEW b
    PROVE  /\ Grow(Place("user_word_search", rest, name), b) =
                IF UserWord[Len(rest) + 1] # b THEN Nowhere
                ELSE IF Len(rest) + 1 = USER_L THEN Place("user_read", << >>, << >>)
                ELSE Place("user_word_search", Append(rest, b), << >>)
           /\ Grow(Place("user_read", rest, name), b) =
                IF b = LF /\ Finishes(Strip(rest))
                THEN Place("pass_word_search", << >>, Strip(rest))
                ELSE IF IsLine(Append(rest, b))
                THEN Place("user_read", Append(rest, b), << >>) ELSE Nowhere
           /\ Grow(Place("pass_word_search", rest, name), b) =
                IF PassWord[Len(rest) + 1] # b THEN Nowhere
                ELSE IF Len(rest) + 1 = PASS_L THEN Place("pass_read", << >>, name)
                ELSE Place("pass_word_search", Append(rest, b), name)
           /\ Grow(Place("pass_read", rest, name), b) =
                IF IsLine(Append(rest, b))
                THEN Place("pass_read", Append(rest, b), name) ELSE Nowhere
           /\ Grow(Nowhere, b) = Nowhere
<1>1. \A part : LET at == Place(part, rest, name)
                IN at.part = part /\ at.rest = rest /\ at.name = name
  BY DEF Place
<1>2. Nowhere.part = "none"
  BY DEF Nowhere
<1> HIDE DEF Place, Nowhere, Finishes, IsLine, Strip
<1>3. Grow(Place("user_word_search", rest, name), b) =
                IF UserWord[Len(rest) + 1] # b THEN Nowhere
                ELSE IF Len(rest) + 1 = USER_L THEN Place("user_read", << >>, << >>)
                ELSE Place("user_word_search", Append(rest, b), << >>)
  BY <1>1 DEF Grow
<1>4. Grow(Place("user_read", rest, name), b) =
                IF b = LF /\ Finishes(Strip(rest))
                THEN Place("pass_word_search", << >>, Strip(rest))
                ELSE IF IsLine(Append(rest, b))
                THEN Place("user_read", Append(rest, b), << >>) ELSE Nowhere
  BY <1>1 DEF Grow
<1>5. Grow(Place("pass_word_search", rest, name), b) =
                IF PassWord[Len(rest) + 1] # b THEN Nowhere
                ELSE IF Len(rest) + 1 = PASS_L THEN Place("pass_read", << >>, name)
                ELSE Place("pass_word_search", Append(rest, b), name)
  BY <1>1 DEF Grow
<1>6. Grow(Place("pass_read", rest, name), b) =
                IF IsLine(Append(rest, b))
                THEN Place("pass_read", Append(rest, b), name) ELSE Nowhere
  BY <1>1 DEF Grow
<1>7. Grow(Nowhere, b) = Nowhere
  BY <1>2 DEF Grow
<1> QED
  BY <1>3, <1>4, <1>5, <1>6, <1>7

\* The words.
LEMMA WordsAre ==
    /\ UserWord \in Seq(Byte) /\ PassWord \in Seq(Byte)
    /\ USER_L \in Nat /\ USER_L >= 2 /\ PASS_L \in Nat /\ PASS_L >= 1
    /\ USER_L = Len(UserWord) /\ PASS_L = Len(PassWord)
BY ByteAssumption, WordAssumption DEF USER_L, PASS_L

\* An empty line is one.
LEMMA EmptyLine ==
    /\ << >> \in Seq(Byte) /\ Len(<< >>) = 0
    /\ Strip(<< >>) = << >> /\ Finishes(<< >>) /\ IsLine(<< >>) /\ ~EndsCR(<< >>)
    /\ ~Spent(<< >>)
    /\ FirstOf(<< >>, LF) = 0
<1>1. Strip(<< >>) = << >> /\ ~EndsCR(<< >>)
  BY DEF Strip, EndsCR
<1>2. << >> \in Seq(Byte) /\ Len(<< >>) = 0
  OBVIOUS
<1>3. Finishes(<< >>)
  BY SizeAssumption DEF Finishes, IsText, Plain
<1>4. FirstOf(<< >>, LF) = 0
  BY DEF FirstOf
<1> QED
  BY <1>1, <1>2, <1>3, <1>4, SizeAssumption DEF IsLine, IsText, Spent

\* Within the first word, before the last byte of it.
LEMMA ShortPlace ==
    ASSUME NEW w \in Seq(Byte), Len(w) < USER_L
    PROVE  PlaceOf(w) = IF IsPrefix(w, UserWord) THEN Place("user_word_search", w, << >>)
                        ELSE Nowhere
BY DEF PlaceOf

\* Within the line of the name.
LEMMA NamePlace ==
    ASSUME NEW w, ~(Len(w) < USER_L), FirstOf(After(w, USER_L), LF) = 0
    PROVE  PlaceOf(w) = IF IsPrefix(UserWord, w) /\ IsLine(After(w, USER_L))
                        THEN Place("user_read", After(w, USER_L), << >>) ELSE Nowhere
BY DEF PlaceOf

\* After the line of the name.
LEMMA LatePlace ==
    ASSUME NEW w, ~(Len(w) < USER_L), NEW r, r = After(w, USER_L),
           NEW nl, nl = FirstOf(r, LF), nl # 0,
           NEW name, name = Strip(SubSeq(r, 1, nl - 1)), NEW t, t = After(r, nl)
    PROVE  PlaceOf(w) = IF IsPrefix(UserWord, w) /\ Finishes(name)
                        THEN IF Len(t) < PASS_L
                             THEN IF IsPrefix(t, PassWord)
                                  THEN Place("pass_word_search", t, name) ELSE Nowhere
                             ELSE IF IsPrefix(PassWord, t) /\ IsLine(After(t, PASS_L))
                             THEN Place("pass_read", After(t, PASS_L), name)
                             ELSE Nowhere
                        ELSE Nowhere
BY DEF PlaceOf

\* The automaton's reference is an automaton too: where a sequence stands with
\* one more byte is determined by where it stood, and a sequence that stands
\* nowhere never does again.
LEMMA PlaceGrows ==
    ASSUME NEW w \in Seq(Byte), NEW b \in Byte
    PROVE  PlaceOf(Append(w, b)) = Grow(PlaceOf(w), b)
<1> DEFINE u == Append(w, b)
<1>1. /\ u \in Seq(Byte) /\ Len(u) = Len(w) + 1 /\ Len(w) \in Nat
  BY AppendIs
<1>2. CASE Len(w) < USER_L
  <2>1. PlaceOf(w) = IF IsPrefix(w, UserWord) THEN Place("user_word_search", w, << >>)
                     ELSE Nowhere
    BY <1>2, ShortPlace
  <2>2. IsPrefix(u, UserWord) <=> IsPrefix(w, UserWord) /\ UserWord[Len(w) + 1] = b
    BY <1>2, WordsAre, PrefixAppend
  <2>3. CASE Len(w) + 1 < USER_L
    <3>1. PlaceOf(u) = IF IsPrefix(u, UserWord) THEN Place("user_word_search", u, << >>)
                       ELSE Nowhere
      <4> HIDE DEF u
      <4> QED
        BY <1>1, <2>3, ShortPlace
    <3>2. Grow(Place("user_word_search", w, << >>), b) =
            IF UserWord[Len(w) + 1] # b THEN Nowhere ELSE Place("user_word_search", u, << >>)
      <4>1. Len(w) + 1 # USER_L
        BY <1>1, <2>3, WordsAre
      <4> QED
        BY <4>1, GrowIs
    <3> HIDE DEF u
    <3> QED
      BY <2>1, <2>2, <3>1, <3>2, GrowIs DEF u
  <2>4. CASE Len(w) + 1 = USER_L
    <3>1. PlaceOf(u) = IF IsPrefix(UserWord, u) THEN Place("user_read", << >>, << >>)
                       ELSE Nowhere
      <4>1. After(u, USER_L) = << >>
        <5> HIDE DEF u
        <5> QED
          BY <1>1, <2>4, AfterEnds
      <4>2. ~(Len(u) < USER_L)
        BY <1>1, <2>4
      <4> HIDE DEF u
      <4>3. FirstOf(After(u, USER_L), LF) = 0
        BY <4>1, EmptyLine
      <4> QED
        BY <4>1, <4>2, <4>3, NamePlace, EmptyLine
    <3>2. IsPrefix(UserWord, u) <=> IsPrefix(u, UserWord)
      <4> HIDE DEF u
      <4> QED
        BY <1>1, <2>4, WordsAre, PrefixAppend
    <3>3. Grow(Place("user_word_search", w, << >>), b) =
            IF UserWord[Len(w) + 1] # b THEN Nowhere ELSE Place("user_read", << >>, << >>)
      BY <2>4, GrowIs
    <3> HIDE DEF u
    <3> QED
      BY <2>1, <2>2, <3>1, <3>2, <3>3, GrowIs DEF u
  <2> QED
    BY <1>1, <1>2, <2>3, <2>4, WordsAre
<1>3. CASE ~(Len(w) < USER_L)
  <2> DEFINE r == After(w, USER_L)
             nl == FirstOf(r, LF)
  <2>1. USER_L \in Nat /\ USER_L <= Len(w) /\ Len(w) >= USER_L
    BY <1>1, <1>3, WordsAre
  <2>2. After(u, USER_L) = Append(r, b)
    BY <2>1, AfterAppend
  <2>3. ~(Len(u) < USER_L)
    BY <1>1, <2>1
  <2>4. IsPrefix(UserWord, u) <=> IsPrefix(UserWord, w)
    BY <2>1, WordsAre, PrefixAppend
  <2>5. r \in Seq(Byte) /\ Len(r) \in Nat
    BY <2>1, AfterIs
  <2>6. FirstOf(Append(r, b), LF) = IF nl # 0 THEN nl ELSE IF b = LF THEN Len(r) + 1 ELSE 0
    <3> HIDE DEF r
    <3> QED
      BY <2>5, FirstAppend
  <2>7. nl \in 0..Len(r)
    <3> HIDE DEF r
    <3> QED
      BY <2>5, FirstIs
  <2>8. CASE nl = 0
    <3>1. PlaceOf(w) = IF IsPrefix(UserWord, w) /\ IsLine(r)
                       THEN Place("user_read", r, << >>) ELSE Nowhere
      BY <1>3, <2>8, NamePlace
    <3>2. Grow(Place("user_read", r, << >>), b) =
            IF b = LF /\ Finishes(Strip(r)) THEN Place("pass_word_search", << >>, Strip(r))
            ELSE IF IsLine(Append(r, b)) THEN Place("user_read", Append(r, b), << >>)
            ELSE Nowhere
      BY GrowIs
    <3>3. /\ IsLine(Append(r, b)) => IsLine(r) /\ b # LF
          /\ Finishes(Strip(r)) => IsLine(r)
      <4> HIDE DEF r
      <4> QED
        BY <2>5, LineGrows
    <3>4. CASE b # LF
      <4>1. PlaceOf(u) = IF IsPrefix(UserWord, u) /\ IsLine(Append(r, b))
                         THEN Place("user_read", Append(r, b), << >>) ELSE Nowhere
        <5>1. FirstOf(After(u, USER_L), LF) = 0
          BY <2>2, <2>6, <2>8, <3>4
        <5> HIDE DEF u, r
        <5> QED
          BY <2>2, <2>3, <5>1, NamePlace
      <4> HIDE DEF u, r
      <4> QED
        BY <2>4, <3>1, <3>2, <3>3, <3>4, <4>1, GrowIs DEF u
    <3>5. CASE b = LF
      <4> DEFINE ru == Append(r, b)
                 m == Len(r) + 1
      <4>1. FirstOf(ru, LF) = m
        BY <2>6, <2>8, <3>5
      <4>2. ru \in Seq(Byte) /\ Len(ru) = m /\ Front(ru) = r
        <5> HIDE DEF r
        <5> QED
          BY <2>5, AppendIs
      <4>3. SubSeq(ru, 1, m - 1) = r
        BY <4>2 DEF Front
      <4>4. After(ru, m) = << >>
        <5> HIDE DEF ru
        <5> QED
          BY <4>2, AfterEnds
      <4>5. m # 0
        BY <2>5
      <4> HIDE DEF m, ru
      <4>6. PlaceOf(u) = IF IsPrefix(UserWord, u) /\ Finishes(Strip(r))
                         THEN Place("pass_word_search", << >>, Strip(r)) ELSE Nowhere
        <5>1. ru = After(u, USER_L)
          BY <2>2 DEF ru
        <5>2. IsPrefix(<< >>, PassWord) /\ Len(<< >>) < PASS_L
          <6>1. ASSUME NEW s \in Seq(Byte), Len(s) = 0 PROVE IsPrefix(s, PassWord)
            <7>1. Len(s) <= Len(PassWord) /\ PassWord \in Seq(Byte)
              BY <6>1, WordsAre
            <7>2. \A i \in 1..Len(s) : FALSE
              BY <6>1
            <7> QED
              BY <7>1, <7>2, PrefixIs
          <6>2. Len(<< >>) = 0 /\ << >> \in Seq(Byte)
            BY EmptyLine
          <6>3. IsPrefix(<< >>, PassWord)
            BY <6>1, <6>2
          <6> QED
            BY <6>2, <6>3, WordsAre
        <5> HIDE DEF u, r
        <5>3. PlaceOf(u) = IF IsPrefix(UserWord, u) /\ Finishes(Strip(r))
                           THEN IF Len(<< >>) < PASS_L
                             THEN IF IsPrefix(<< >>, PassWord)
                                  THEN Place("pass_word_search", << >>, Strip(r)) ELSE Nowhere
                             ELSE IF IsPrefix(PassWord, << >>) /\ IsLine(After(<< >>, PASS_L))
                             THEN Place("pass_read", After(<< >>, PASS_L), Strip(r))
                             ELSE Nowhere
                           ELSE Nowhere
          BY <2>3, <4>1, <4>3, <4>4, <4>5, <5>1, LatePlace
        <5> QED
          BY <5>2, <5>3
      <4> HIDE DEF u, r
      <4> QED
        BY <2>4, <3>1, <3>2, <3>3, <3>5, <4>6, GrowIs DEF u
    <3> QED
      BY <3>4, <3>5
  <2>9. CASE nl # 0
    <3> DEFINE name == Strip(SubSeq(r, 1, nl - 1))
               t == After(r, nl)
               tu == Append(t, b)
    <3>1. nl \in Nat /\ nl <= Len(r)
      BY <2>5, <2>7
    <3>2. t \in Seq(Byte) /\ Len(t) \in Nat /\ After(Append(r, b), nl) = tu
      <4> HIDE DEF r, nl
      <4> QED
        BY <2>5, <3>1, AfterIs, AfterAppend
    <3>3. SubSeq(Append(r, b), 1, nl - 1) = SubSeq(r, 1, nl - 1)
      <4> DEFINE x == SubSeq(Append(r, b), 1, nl - 1)
                 y == SubSeq(r, 1, nl - 1)
      <4> HIDE DEF r, nl
      <4>1. /\ Append(r, b) \in Seq(Byte) /\ Len(Append(r, b)) = Len(r) + 1
            /\ \A i \in 1..Len(r) : Append(r, b)[i] = r[i]
        BY <2>5, AppendIs
      <4>2. nl - 1 \in Nat /\ nl - 1 <= Len(r)
        BY <2>9, <3>1, <2>5
      <4>3. x \in Seq(Byte) /\ Len(x) = nl - 1 /\ \A i \in 1..(nl - 1) : x[i] = Append(r, b)[i]
        <5> DEFINE s == Append(r, b)
        <5> HIDE DEF s
        <5>1. nl - 1 <= Len(s)
          BY <4>1, <4>2, <2>5 DEF s
        <5> QED
          BY <4>1, <4>2, <5>1 DEF s
      <4>4. y \in Seq(Byte) /\ Len(y) = nl - 1 /\ \A i \in 1..(nl - 1) : y[i] = r[i]
        BY <2>5, <4>2
      <4>5. \A i \in 1..(nl - 1) : i \in 1..Len(r)
        BY <2>5, <4>2
      <4> HIDE DEF x, y
      <4>6. x = y
        BY <4>1, <4>3, <4>4, <4>5, SeqEqual
      <4> QED
        BY <4>6 DEF x, y
    <3>4. PlaceOf(w) = IF IsPrefix(UserWord, w) /\ Finishes(name)
                       THEN IF Len(t) < PASS_L
                             THEN IF IsPrefix(t, PassWord)
                                  THEN Place("pass_word_search", t, name) ELSE Nowhere
                             ELSE IF IsPrefix(PassWord, t) /\ IsLine(After(t, PASS_L))
                             THEN Place("pass_read", After(t, PASS_L), name)
                             ELSE Nowhere
                       ELSE Nowhere
      BY <1>3, <2>9, LatePlace
    <3>5. PlaceOf(u) = IF IsPrefix(UserWord, u) /\ Finishes(name)
                       THEN IF Len(tu) < PASS_L
                             THEN IF IsPrefix(tu, PassWord)
                                  THEN Place("pass_word_search", tu, name) ELSE Nowhere
                             ELSE IF IsPrefix(PassWord, tu) /\ IsLine(After(tu, PASS_L))
                             THEN Place("pass_read", After(tu, PASS_L), name)
                             ELSE Nowhere
                       ELSE Nowhere
      <4> DEFINE ru == Append(r, b)
      <4>1. ru = After(u, USER_L) /\ nl = FirstOf(ru, LF)
        BY <2>2, <2>6, <2>9
      <4>2. name = Strip(SubSeq(ru, 1, nl - 1)) /\ tu = After(ru, nl)
        BY <3>2, <3>3
      <4> HIDE DEF ru, u, name, tu, nl
      <4> QED
        BY <2>3, <2>9, <4>1, <4>2, LatePlace
    <3> HIDE DEF name, r, nl, t
    <3>6. tu \in Seq(Byte) /\ Len(tu) = Len(t) + 1
      BY <3>2, AppendIs
    <3>7. CASE Len(t) < PASS_L
      <4>1. IsPrefix(tu, PassWord) <=> IsPrefix(t, PassWord) /\ PassWord[Len(t) + 1] = b
        BY <3>2, <3>7, WordsAre, PrefixAppend
      <4>2. Grow(Place("pass_word_search", t, name), b) =
              IF PassWord[Len(t) + 1] # b THEN Nowhere
              ELSE IF Len(t) + 1 = PASS_L THEN Place("pass_read", << >>, name)
              ELSE Place("pass_word_search", tu, name)
        BY GrowIs
      <4> HIDE DEF u, tu
      <4>3. CASE Len(t) + 1 < PASS_L
        <5>1. Len(tu) < PASS_L /\ Len(t) + 1 # PASS_L
          BY <3>2, <3>6, <4>3, WordsAre
        <5> QED
          BY <2>4, <3>4, <3>5, <3>7, <4>1, <4>2, <5>1, GrowIs DEF u
      <4>4. CASE Len(t) + 1 = PASS_L
        <5>1. ~(Len(tu) < PASS_L) /\ Len(tu) = PASS_L
          BY <3>2, <3>6, <4>4, WordsAre
        <5>2. After(tu, PASS_L) = << >> /\ IsLine(<< >>)
          BY <3>6, <5>1, AfterEnds, EmptyLine
        <5>3. IsPrefix(PassWord, tu) <=> IsPrefix(tu, PassWord)
          BY <3>6, <5>1, WordsAre, PrefixAppend, ByteAssumption
        <5> QED
          BY <2>4, <3>4, <3>5, <3>7, <4>1, <4>2, <4>4, <5>1, <5>2, <5>3, GrowIs DEF u
      <4> QED
        BY <3>2, <3>7, <4>3, <4>4, WordsAre
    <3>8. CASE ~(Len(t) < PASS_L)
      <4> DEFINE l == After(t, PASS_L)
      <4>1. PASS_L \in Nat /\ PASS_L <= Len(t) /\ Len(t) >= PASS_L
        BY <3>2, <3>8, WordsAre
      <4>2. IsPrefix(PassWord, tu) <=> IsPrefix(PassWord, t)
        BY <3>2, <4>1, WordsAre, PrefixAppend
      <4>3. After(tu, PASS_L) = Append(l, b) /\ l \in Seq(Byte)
        BY <3>2, <4>1, AfterAppend, AfterIs
      <4>4. ~(Len(tu) < PASS_L)
        BY <3>2, <3>6, <4>1
      <4> HIDE DEF l
      <4>5. IsLine(Append(l, b)) => IsLine(l)
        BY <4>3, LineGrows
      <4>6. Grow(Place("pass_read", l, name), b) =
              IF IsLine(Append(l, b)) THEN Place("pass_read", Append(l, b), name) ELSE Nowhere
        BY GrowIs
      <4> HIDE DEF u, tu
      <4> QED
        BY <2>4, <3>4, <3>5, <3>8, <4>2, <4>3, <4>4, <4>5, <4>6, GrowIs DEF u, l
    <3> QED
      BY <3>7, <3>8
  <2> QED
    BY <2>8, <2>9
<1> QED
  BY <1>2, <1>3

\* What a place may be.
WellPlaced(at) ==
    /\ at = Place(at.part, at.rest, at.name) /\ at.part \in States
    /\ at.rest \in Seq(Byte) /\ at.name \in Seq(Byte)
    /\ at.part = "user_word_search" => Len(at.rest) < USER_L
    /\ at.part = "pass_word_search" => Len(at.rest) < PASS_L
    /\ at.part \in {"user_read", "pass_read"} => IsLine(at.rest)

\* The fields of a place.
LEMMA PlaceFields ==
    ASSUME NEW part, NEW rest, NEW name
    PROVE  LET at == Place(part, rest, name)
           IN /\ at.part = part /\ at.rest = rest /\ at.name = name
              /\ at = Place(at.part, at.rest, at.name)
              /\ part # "none" => at # Nowhere
BY DEF Place, Nowhere

\* What Grow makes of a place, part by part.
LEMMA GrowParts ==
    ASSUME NEW at, WellPlaced(at), NEW b \in Byte, Grow(at, b) # Nowhere
    PROVE  LET v == Grow(at, b)
               n == Len(at.rest)
           IN /\ at.part = "user_word_search" =>
                   /\ n + 1 \in 1..USER_L /\ UserWord[n + 1] = b
                   /\ n + 1 = USER_L => v = Place("user_read", << >>, << >>)
                   /\ n + 1 # USER_L =>
                        v = Place("user_word_search", Append(at.rest, b), << >>)
              /\ at.part = "user_read" =>
                   \/ /\ b = LF /\ Finishes(Strip(at.rest))
                      /\ v = Place("pass_word_search", << >>, Strip(at.rest))
                   \/ /\ b # LF /\ IsLine(Append(at.rest, b))
                      /\ v = Place("user_read", Append(at.rest, b), << >>)
              /\ at.part = "pass_word_search" =>
                   /\ n + 1 \in 1..PASS_L /\ PassWord[n + 1] = b
                   /\ n + 1 = PASS_L => v = Place("pass_read", << >>, at.name)
                   /\ n + 1 # PASS_L =>
                        v = Place("pass_word_search", Append(at.rest, b), at.name)
              /\ at.part = "pass_read" =>
                   /\ b # LF /\ IsLine(Append(at.rest, b))
                   /\ v = Place("pass_read", Append(at.rest, b), at.name)
<1> DEFINE v == Grow(at, b)
           n == Len(at.rest)
<1>1. at = Place(at.part, at.rest, at.name) /\ at.rest \in Seq(Byte) /\ n \in Nat
  BY DEF WellPlaced
<1>2. CASE at.part = "user_word_search"
  <2>1. n < USER_L
    BY <1>2 DEF WellPlaced
  <2>2. at = Place("user_word_search", at.rest, at.name)
    BY <1>1, <1>2
  <2>3. v = IF UserWord[n + 1] # b THEN Nowhere
            ELSE IF n + 1 = USER_L THEN Place("user_read", << >>, << >>)
            ELSE Place("user_word_search", Append(at.rest, b), << >>)
    BY <2>2, GrowIs
  <2>4. n + 1 \in 1..USER_L
    BY <1>1, <2>1, WordsAre
  <2> HIDE DEF n, v
  <2> QED
    BY <1>2, <2>3, <2>4 DEF v, n
<1>3. CASE at.part = "user_read"
  <2>1. at = Place("user_read", at.rest, at.name)
    BY <1>1, <1>3
  <2>2. v = IF b = LF /\ Finishes(Strip(at.rest))
            THEN Place("pass_word_search", << >>, Strip(at.rest))
            ELSE IF IsLine(Append(at.rest, b))
            THEN Place("user_read", Append(at.rest, b), << >>) ELSE Nowhere
    BY <2>1, GrowIs
  <2>3. IsLine(Append(at.rest, b)) => b # LF
    BY <1>1, LineGrows
  <2> HIDE DEF n, v
  <2> QED
    BY <1>3, <2>2, <2>3 DEF v, n
<1>4. CASE at.part = "pass_word_search"
  <2>1. n < PASS_L
    BY <1>4 DEF WellPlaced
  <2>2. at = Place("pass_word_search", at.rest, at.name)
    BY <1>1, <1>4
  <2>3. v = IF PassWord[n + 1] # b THEN Nowhere
            ELSE IF n + 1 = PASS_L THEN Place("pass_read", << >>, at.name)
            ELSE Place("pass_word_search", Append(at.rest, b), at.name)
    BY <2>2, GrowIs
  <2>4. n + 1 \in 1..PASS_L
    BY <1>1, <2>1, WordsAre
  <2> HIDE DEF n, v
  <2> QED
    BY <1>4, <2>3, <2>4 DEF v, n
<1>5. CASE at.part = "pass_read"
  <2>1. at = Place("pass_read", at.rest, at.name)
    BY <1>1, <1>5
  <2>2. v = IF IsLine(Append(at.rest, b))
            THEN Place("pass_read", Append(at.rest, b), at.name) ELSE Nowhere
    BY <2>1, GrowIs
  <2>3. IsLine(Append(at.rest, b)) => b # LF
    BY <1>1, LineGrows
  <2> HIDE DEF n, v
  <2> QED
    BY <1>5, <2>2, <2>3 DEF v, n
<1>6. at.part \in States
  BY DEF WellPlaced
<1> HIDE DEF n, v
<1> QED
  BY <1>2, <1>3, <1>4, <1>5, <1>6 DEF States, n, v

\* It is a place again.
LEMMA GrowWell ==
    ASSUME NEW at, WellPlaced(at), NEW b \in Byte, Grow(at, b) # Nowhere
    PROVE  WellPlaced(Grow(at, b))
<1> DEFINE v == Grow(at, b)
           n == Len(at.rest)
           u == Append(at.rest, b)
<1>1. at.rest \in Seq(Byte) /\ n \in Nat /\ at.name \in Seq(Byte) /\ at.part \in States
  BY DEF WellPlaced
<1>2. u \in Seq(Byte) /\ Len(u) = n + 1
  BY <1>1, AppendIs
<1>3. << >> \in Seq(Byte) /\ Len(<< >>) = 0 /\ IsLine(<< >>)
  BY EmptyLine
<1>4. Strip(at.rest) \in Seq(Byte)
  BY <1>1, StripIs
<1> HIDE DEF u, v, n
<1>5. ASSUME NEW part \in States, NEW rest \in Seq(Byte), NEW name \in Seq(Byte),
             v = Place(part, rest, name),
             part = "user_word_search" => Len(rest) < USER_L,
             part = "pass_word_search" => Len(rest) < PASS_L,
             part \in {"user_read", "pass_read"} => IsLine(rest)
      PROVE  WellPlaced(v)
  <2>1. v.part = part /\ v.rest = rest /\ v.name = name
        /\ v = Place(v.part, v.rest, v.name)
    BY <1>5, PlaceFields
  <2> QED
    BY <1>5, <2>1 DEF WellPlaced
<1>6. ASSUME at.part = "user_word_search" PROVE WellPlaced(v)
  <2>1. /\ n + 1 \in 1..USER_L
        /\ n + 1 = USER_L => v = Place("user_read", << >>, << >>)
        /\ n + 1 # USER_L => v = Place("user_word_search", u, << >>)
    BY <1>6, GrowParts DEF u, v, n
  <2>2. n + 1 # USER_L => n + 1 < USER_L
    BY <2>1, WordsAre
  <2>3. CASE n + 1 = USER_L
    BY <1>3, <1>5, <2>1, <2>3 DEF States
  <2>4. CASE n + 1 # USER_L
    BY <1>2, <1>3, <1>5, <2>1, <2>2, <2>4 DEF States
  <2> QED
    BY <2>3, <2>4
<1>7. ASSUME at.part = "user_read" PROVE WellPlaced(v)
  <2>1. \/ v = Place("pass_word_search", << >>, Strip(at.rest))
        \/ IsLine(u) /\ v = Place("user_read", u, << >>)
    BY <1>7, GrowParts DEF u, v, n
  <2>2. Len(<< >>) < PASS_L
    BY <1>3, WordsAre
  <2>3. CASE v = Place("pass_word_search", << >>, Strip(at.rest))
    BY <1>3, <1>4, <1>5, <2>2, <2>3 DEF States
  <2>4. CASE IsLine(u) /\ v = Place("user_read", u, << >>)
    BY <1>2, <1>3, <1>5, <2>4 DEF States
  <2> QED
    BY <2>1, <2>3, <2>4
<1>8. ASSUME at.part = "pass_word_search" PROVE WellPlaced(v)
  <2>1. /\ n + 1 \in 1..PASS_L
        /\ n + 1 = PASS_L => v = Place("pass_read", << >>, at.name)
        /\ n + 1 # PASS_L => v = Place("pass_word_search", u, at.name)
    BY <1>8, GrowParts DEF u, v, n
  <2>2. n + 1 # PASS_L => n + 1 < PASS_L
    BY <2>1, WordsAre
  <2>3. CASE n + 1 = PASS_L
    BY <1>1, <1>3, <1>5, <2>1, <2>3 DEF States
  <2>4. CASE n + 1 # PASS_L
    BY <1>1, <1>2, <1>5, <2>1, <2>2, <2>4 DEF States
  <2> QED
    BY <2>3, <2>4
<1>9. ASSUME at.part = "pass_read" PROVE WellPlaced(v)
  <2>1. IsLine(u) /\ v = Place("pass_read", u, at.name)
    BY <1>9, GrowParts DEF u, v, n
  <2>2. WellPlaced(v)
    BY <1>1, <1>2, <1>5, <2>1 DEF States
  <2> QED
    BY <2>2
<1> QED
  BY <1>1, <1>6, <1>7, <1>8, <1>9 DEF States, v

-----------------------------------------------------------------------------
(* The ends of a candidate *)

\* A proper end of a candidate, at place a, beside the candidate at place c:
\* past the name's line both are at the same byte, and within a line the end is
\* still before the line's last byte, which it has seen too.
Beside(a, c) ==
    \/ /\ c.part \in {"pass_word_search", "pass_read"}
       /\ a.part = c.part /\ a.rest = c.rest
    \/ /\ c.part \in {"user_read", "pass_read"}
       /\ a.part \in {"user_word_search", "user_read"}
       /\ EndsCR(c.rest) => a.part = "user_read" /\ EndsCR(a.rest)

\* The bytes of the words: none of UserWord ends a line, and its first one is
\* nowhere else in either word.
LEMMA WordBytes ==
    /\ \A n \in 1..USER_L : UserWord[n] \notin {CR, LF, Eight}
    /\ \A n \in 2..USER_L : UserWord[n] # UserWord[1]
    /\ \A n \in 1..PASS_L : PassWord[n] # UserWord[1]
    /\ UserWord[1] \in Byte /\ UserWord[1] \notin {CR, LF, Eight}
<1>1. 1 \in 1..USER_L
  BY WordsAre
<1>2. \A n \in 1..USER_L : UserWord[n] \in Byte
  BY WordsAre
<1> QED
  BY <1>1, <1>2, WordAssumption DEF USER_L, PASS_L

\* An end that grows with its candidate stays beside it.
LEMMA BesideGrows ==
    ASSUME NEW a, NEW c, WellPlaced(a), WellPlaced(c), Beside(a, c), NEW b \in Byte,
           Grow(a, b) # Nowhere, Grow(c, b) # Nowhere
    PROVE  Beside(Grow(a, b), Grow(c, b))
<1> DEFINE x == Grow(a, b)
           y == Grow(c, b)
           ua == Append(a.rest, b)
           uc == Append(c.rest, b)
           na == Len(a.rest)
           nc == Len(c.rest)
<1>1. /\ a.rest \in Seq(Byte) /\ c.rest \in Seq(Byte) /\ na \in Nat /\ nc \in Nat
      /\ a.part \in States /\ c.part \in States
  BY DEF WellPlaced
<1>2. (EndsCR(ua) <=> b = CR) /\ (EndsCR(uc) <=> b = CR)
  BY <1>1, StripAppend
<1>3. /\ c.part = "user_read" =>
           \/ b = LF /\ y = Place("pass_word_search", << >>, Strip(c.rest))
           \/ b # LF /\ y = Place("user_read", uc, << >>)
      /\ c.part = "pass_word_search" =>
           /\ nc + 1 = PASS_L => y = Place("pass_read", << >>, c.name)
           /\ nc + 1 # PASS_L => y = Place("pass_word_search", uc, c.name)
      /\ c.part = "pass_read" => b # LF /\ y = Place("pass_read", uc, c.name)
  BY GrowParts
<1>4. /\ a.part = "user_word_search" =>
           /\ na + 1 \in 1..USER_L /\ UserWord[na + 1] = b
           /\ na + 1 = USER_L => x = Place("user_read", << >>, << >>)
           /\ na + 1 # USER_L => x = Place("user_word_search", ua, << >>)
      /\ a.part = "user_read" =>
           \/ b = LF /\ x = Place("pass_word_search", << >>, Strip(a.rest))
           \/ b # LF /\ x = Place("user_read", ua, << >>)
      /\ a.part = "pass_word_search" =>
           /\ na + 1 = PASS_L => x = Place("pass_read", << >>, a.name)
           /\ na + 1 # PASS_L => x = Place("pass_word_search", ua, a.name)
      /\ a.part = "pass_read" => b # LF /\ x = Place("pass_read", ua, a.name)
  BY GrowParts
<1>5. a.part = "user_word_search" => b # CR /\ b # LF
  BY <1>4, WordBytes
<1>6. \A part, rest, name : /\ Place(part, rest, name).part = part
                            /\ Place(part, rest, name).rest = rest
  BY PlaceFields
<1>7. (na = nc /\ ua = uc) \/ a.rest # c.rest
  OBVIOUS
<1> HIDE DEF x, y, ua, uc, na, nc
<1>8. CASE c.part = "pass_word_search"
  <2>1. a.part = "pass_word_search" /\ a.rest = c.rest
    BY <1>8 DEF Beside
  <2>2. (nc + 1 = PASS_L /\ na + 1 = PASS_L) \/ (nc + 1 # PASS_L /\ na + 1 # PASS_L)
    BY <1>7, <2>1
  <2>3. CASE nc + 1 = PASS_L /\ na + 1 = PASS_L
    <3>1. x = Place("pass_read", << >>, a.name) /\ y = Place("pass_read", << >>, c.name)
      BY <1>3, <1>4, <1>8, <2>1, <2>3
    <3>2. x.part = "pass_read" /\ x.rest = << >> /\ y.part = "pass_read" /\ y.rest = << >>
      BY <1>6, <3>1
    <3> QED
      BY <3>2 DEF Beside, x, y
  <2>4. CASE nc + 1 # PASS_L /\ na + 1 # PASS_L
    <3>1. /\ x = Place("pass_word_search", ua, a.name)
          /\ y = Place("pass_word_search", uc, c.name)
      BY <1>3, <1>4, <1>8, <2>1, <2>4
    <3>2. /\ x.part = "pass_word_search" /\ x.rest = ua
          /\ y.part = "pass_word_search" /\ y.rest = ua
      BY <1>6, <1>7, <2>1, <3>1
    <3> QED
      BY <3>2 DEF Beside, x, y
  <2> QED
    BY <2>2, <2>3, <2>4
<1>9. CASE c.part = "pass_read" /\ a.part = "pass_read"
  <2>1. a.rest = c.rest
    BY <1>9 DEF Beside
  <2>2. x = Place("pass_read", ua, a.name) /\ y = Place("pass_read", ua, c.name)
    BY <1>3, <1>4, <1>7, <1>9, <2>1
  <2>3. x.part = "pass_read" /\ x.rest = ua /\ y.part = "pass_read" /\ y.rest = ua
    BY <1>6, <2>2
  <2> QED
    BY <2>3 DEF Beside, x, y
<1>10. CASE c.part = "user_read" /\ b = LF
  <2>1. a.part = "user_read"
    BY <1>5, <1>10 DEF Beside
  <2>2. /\ x = Place("pass_word_search", << >>, Strip(a.rest))
        /\ y = Place("pass_word_search", << >>, Strip(c.rest))
    BY <1>3, <1>4, <1>10, <2>1
  <2>3. /\ x.part = "pass_word_search" /\ x.rest = << >>
        /\ y.part = "pass_word_search" /\ y.rest = << >>
    BY <1>6, <2>2
  <2> QED
    BY <2>3 DEF Beside, x, y
<1>11. CASE /\ c.part \in {"user_read", "pass_read"} /\ b # LF
            /\ a.part \in {"user_word_search", "user_read"}
  <2>1. y.part \in {"user_read", "pass_read"} /\ y.rest = uc
    BY <1>3, <1>6, <1>11
  <2>2. CASE a.part = "user_word_search"
    <3>1. x.part \in {"user_word_search", "user_read"}
      BY <1>4, <1>6, <2>2
    <3>2. ~EndsCR(uc)
      BY <1>2, <1>5, <2>2
    <3> QED
      BY <2>1, <3>1, <3>2 DEF Beside, x, y
  <2>3. CASE a.part = "user_read"
    <3>1. x.part = "user_read" /\ x.rest = ua
      BY <1>4, <1>6, <1>11, <2>3
    <3> QED
      BY <1>2, <2>1, <3>1 DEF Beside, x, y
  <2> QED
    BY <1>11, <2>2, <2>3
<1>12. c.part = "pass_read" => b # LF
  BY <1>3
<1> QED
  BY <1>8, <1>9, <1>10, <1>11, <1>12 DEF Beside

\* When a candidate cannot grow, though its text is not given up and it did not
\* end, no end of it can.
LEMMA BesideStuck ==
    ASSUME NEW a, NEW c, WellPlaced(a), WellPlaced(c), Beside(a, c), NEW b \in Byte,
           Grow(c, b) = Nowhere,
           ~(c.part \in {"user_read", "pass_read"} /\ Spent(c.rest)),
           ~(c.part = "pass_read" /\ b = LF)
    PROVE  Grow(a, b) = Nowhere
<1> SUFFICES ASSUME Grow(a, b) # Nowhere PROVE FALSE
  OBVIOUS
<1>1. /\ a.rest \in Seq(Byte) /\ c.rest \in Seq(Byte)
      /\ a.part \in States /\ c.part \in States
      /\ c = Place(c.part, c.rest, c.name)
  BY DEF WellPlaced
<1> DEFINE na == Len(a.rest)
           nc == Len(c.rest)
           uc == Append(c.rest, b)
           ua == Append(a.rest, b)
<1>2. /\ a.part = "user_word_search" =>
           na + 1 \in 1..USER_L /\ UserWord[na + 1] = b
      /\ a.part = "user_read" =>
           \/ b = LF /\ Finishes(Strip(a.rest))
           \/ b # LF /\ IsLine(ua)
      /\ a.part = "pass_word_search" => PassWord[na + 1] = b
      /\ a.part = "pass_read" => b # LF /\ IsLine(ua)
  BY GrowParts
<1>3. a.part = "user_word_search" => b # CR /\ b # LF /\ b # Eight
  BY <1>2, WordBytes
<1>4. \A part, rest, name : Place(part, rest, name) # Nowhere \/ part = "none"
  BY PlaceFields
<1>5. /\ c.part = "user_read" => ~(b = LF /\ Finishes(Strip(c.rest))) /\ ~IsLine(uc)
      /\ c.part = "pass_word_search" => PassWord[nc + 1] # b
      /\ c.part = "pass_read" => ~IsLine(uc)
  <2>1. \A name : /\ Grow(Place("user_read", c.rest, name), b) =
                       IF b = LF /\ Finishes(Strip(c.rest))
                       THEN Place("pass_word_search", << >>, Strip(c.rest))
                       ELSE IF IsLine(uc)
                       THEN Place("user_read", uc, << >>) ELSE Nowhere
                  /\ Grow(Place("pass_word_search", c.rest, name), b) =
                       IF PassWord[nc + 1] # b THEN Nowhere
                       ELSE IF nc + 1 = PASS_L THEN Place("pass_read", << >>, name)
                       ELSE Place("pass_word_search", uc, name)
                  /\ Grow(Place("pass_read", c.rest, name), b) =
                       IF IsLine(uc) THEN Place("pass_read", uc, name) ELSE Nowhere
    BY GrowIs
  <2> HIDE DEF uc, nc
  <2> QED
    BY <1>1, <1>4, <2>1
<1>6. c.part \in {"user_read", "pass_read"} =>
        /\ IsLine(c.rest) /\ ~Spent(c.rest) /\ Finishes(Strip(c.rest))
        /\ IsLine(uc) <=> ~EndsCR(c.rest) /\ b \notin {LF, Eight}
  <2>1. c.part \in {"user_read", "pass_read"} => IsLine(c.rest) /\ ~Spent(c.rest)
    BY DEF WellPlaced
  <2> QED
    BY <1>1, <2>1, LineGrows
<1>7. IsLine(ua) /\ a.part = "user_read" => b # LF /\ b # Eight /\ ~EndsCR(a.rest)
  <2>1. IsLine(ua) => IsLine(a.rest) /\ b # LF
    BY <1>1, LineGrows
  <2>2. IsLine(ua) => ~EndsCR(a.rest) /\ b # Eight
    <3>1. /\ Plain(ua) <=> Plain(a.rest) /\ b \notin {CR, LF, Eight}
          /\ EndsCR(a.rest) => ~Plain(a.rest)
      BY <1>1, PlainAppend
    <3>2. Strip(ua) = IF b = CR THEN a.rest ELSE ua
      BY <1>1, StripAppend
    <3>3. IsLine(ua) => Plain(Strip(ua)) \/ Plain(ua)
      BY DEF IsLine, Finishes, IsText, Plain
    <3> HIDE DEF ua
    <3> QED
      BY <3>1, <3>2, <3>3, ByteAssumption
  <2> QED
    BY <2>1, <2>2
<1>8. (na = nc /\ ua = uc) \/ a.rest # c.rest
  OBVIOUS
<1> HIDE DEF na, nc, ua, uc
<1>9. CASE c.part \in {"pass_word_search", "pass_read"} /\ a.part = c.part /\ a.rest = c.rest
  BY <1>2, <1>5, <1>8, <1>9
<1>10. CASE /\ c.part \in {"user_read", "pass_read"}
            /\ a.part \in {"user_word_search", "user_read"}
            /\ EndsCR(c.rest) => a.part = "user_read" /\ EndsCR(a.rest)
  <2>1. b # LF
    <3>1. c.part = "pass_read" => b # LF
      OBVIOUS
    <3>2. c.part = "user_read" => b # LF
      BY <1>5, <1>6
    <3> QED
      BY <1>10, <3>1, <3>2
  <2>2. EndsCR(c.rest) \/ b = Eight
    BY <1>5, <1>6, <1>10, <2>1
  <2> QED
    BY <1>2, <1>3, <1>7, <1>10, <2>1, <2>2
<1> QED
  BY <1>9, <1>10 DEF Beside

\* A byte that may begin an exchange stands beside the candidate it also grows.
LEMMA BesideFresh ==
    ASSUME NEW c, WellPlaced(c), ~(c.part = "user_word_search" /\ c.rest = << >>),
           Grow(c, UserWord[1]) # Nowhere
    PROVE  Beside(Place("user_word_search", << UserWord[1] >>, << >>), Grow(c, UserWord[1]))
<1> DEFINE b == UserWord[1]
           y == Grow(c, b)
           a == Place("user_word_search", <<b>>, << >>)
           u == Append(c.rest, b)
           n == Len(c.rest)
<1>1. /\ b \in Byte /\ b \notin {CR, LF, Eight}
      /\ \A k \in 2..USER_L : UserWord[k] # b
      /\ \A k \in 1..PASS_L : PassWord[k] # b
  BY WordBytes
<1>2. c.rest \in Seq(Byte) /\ n \in Nat /\ c.part \in States
  BY DEF WellPlaced
<1> HIDE DEF b
<1>3. /\ c.part = "user_word_search" => n + 1 \in 1..USER_L /\ UserWord[n + 1] = b
      /\ c.part = "user_read" =>
           \/ b = LF
           \/ y = Place("user_read", u, << >>)
      /\ c.part = "pass_word_search" => n + 1 \in 1..PASS_L /\ PassWord[n + 1] = b
      /\ c.part = "pass_read" => y = Place("pass_read", u, c.name)
  BY <1>1, GrowParts DEF b
<1>4. c.part # "user_word_search"
  <2> SUFFICES ASSUME c.part = "user_word_search" PROVE FALSE
    OBVIOUS
  <2>1. n # 0
    BY <1>2
  <2>2. n + 1 \in 2..USER_L
    BY <1>2, <1>3, <2>1, WordsAre
  <2> QED
    BY <1>1, <1>3, <2>2
<1>5. c.part # "pass_word_search"
  BY <1>1, <1>3
<1>6. c.part \in {"user_read", "pass_read"}
  BY <1>2, <1>4, <1>5 DEF States
<1>7. y.part \in {"user_read", "pass_read"} /\ y.rest = u
  <2>1. \A part, rest, name : /\ Place(part, rest, name).part = part
                              /\ Place(part, rest, name).rest = rest
    BY PlaceFields
  <2> HIDE DEF y, u
  <2> QED
    BY <1>1, <1>3, <1>6, <2>1
<1>8. ~EndsCR(u)
  BY <1>1, <1>2, StripAppend
<1>9. a.part = "user_word_search"
  BY PlaceFields
<1> HIDE DEF y, a, u
<1> QED
  BY <1>7, <1>8, <1>9 DEF Beside, y, a, b

-----------------------------------------------------------------------------
(* The candidate *)

\* The longest end that stands somewhere is the first one from the left.
LEMMA LongestIs ==
    ASSUME NEW w \in Seq(Byte), NEW n \in Nat, n <= Len(w), PlaceOf(After(w, n)) # Nowhere,
           \A j \in Nat : j < n => PlaceOf(After(w, j)) = Nowhere
    PROVE  Longest(w) = After(w, n)
<1> DEFINE Viable(i) == PlaceOf(After(w, i - 1)) # Nowhere
           First(i) == Viable(i) /\ \A j \in 1..(i - 1) : ~Viable(j)
           k == CHOOSE i \in 1..(Len(w) + 1) : First(i)
<1>1. Longest(w) = After(w, k - 1)
  BY DEF Longest
<1>2. Len(w) \in Nat /\ n + 1 \in 1..(Len(w) + 1) /\ (n + 1) - 1 = n
  OBVIOUS
<1>3. ASSUME NEW j \in 1..n PROVE ~Viable(j)
  <2>1. j - 1 \in Nat /\ j - 1 < n
    OBVIOUS
  <2> QED
    BY <2>1
<1>4. First(n + 1)
  <2>1. Viable(n + 1)
    BY <1>2
  <2> QED
    BY <1>2, <1>3, <2>1
<1>5. ASSUME NEW i \in 1..(Len(w) + 1), First(i) PROVE i = n + 1
  <2>1. i \in Nat /\ 1 <= i
    BY <1>2
  <2>2. ~(i < n + 1)
    <3>1. i < n + 1 => i \in 1..n
      BY <2>1
    <3> QED
      BY <1>3, <1>5, <3>1
  <2>3. ~(n + 1 < i)
    <3>1. n + 1 < i => n + 1 \in 1..(i - 1)
      BY <2>1
    <3> HIDE DEF Viable
    <3> QED
      BY <1>4, <1>5, <3>1
  <2> QED
    BY <2>1, <2>2, <2>3
<1> HIDE DEF First
<1>6. k = n + 1
  BY <1>2, <1>4, <1>5
<1> HIDE DEF k
<1> QED
  BY <1>1, <1>2, <1>6

\* Nothing, and a single byte.
LEMMA SmallPlaces ==
    /\ PlaceOf(<< >>) = Place("user_word_search", << >>, << >>)
    /\ \A b \in Byte : PlaceOf(<<b>>) = IF b = UserWord[1]
                                        THEN Place("user_word_search", <<b>>, << >>)
                                        ELSE Nowhere
<1>1. << >> \in Seq(Byte) /\ Len(<< >>) = 0 /\ 0 + 1 = 1
  BY EmptyLine
<1>2. PlaceOf(<< >>) = Place("user_word_search", << >>, << >>)
  <2>1. ASSUME NEW s \in Seq(Byte), Len(s) = 0
        PROVE  PlaceOf(s) = Place("user_word_search", s, << >>)
    <3>1. Len(s) < USER_L /\ Len(s) <= Len(UserWord) /\ UserWord \in Seq(Byte)
      BY <2>1, WordsAre
    <3>2. \A i \in 1..Len(s) : FALSE
      BY <2>1
    <3>3. IsPrefix(s, UserWord)
      BY <3>1, <3>2, PrefixIs
    <3> QED
      BY <3>1, <3>3, ShortPlace
  <2> QED
    BY <1>1, <2>1
<1>3. ASSUME NEW b \in Byte
      PROVE  PlaceOf(<<b>>) = IF b = UserWord[1]
                              THEN Place("user_word_search", <<b>>, << >>) ELSE Nowhere
  <2>1. Append(<< >>, b) = <<b>>
    OBVIOUS
  <2>2. PlaceOf(Append(<< >>, b)) = Grow(PlaceOf(<< >>), b)
    BY <1>1, PlaceGrows
  <2>3. Grow(Place("user_word_search", << >>, << >>), b) =
          IF UserWord[Len(<< >>) + 1] # b THEN Nowhere
          ELSE IF Len(<< >>) + 1 = USER_L THEN Place("user_read", << >>, << >>)
          ELSE Place("user_word_search", Append(<< >>, b), << >>)
    BY GrowIs
  <2>4. 1 # USER_L
    BY WordsAre
  <2> QED
    BY <1>1, <1>2, <2>1, <2>2, <2>3, <2>4
<1> QED
  BY <1>2, <1>3

\* At a text that is given up.
SpentAt(at) == at.part \in {"user_read", "pass_read"} /\ Spent(at.rest)

\* It is what Full says of a sequence.
LEMMA FullIs ==
    ASSUME NEW w, WellPlaced(PlaceOf(w)) PROVE Full(w) <=> SpentAt(PlaceOf(w))
<1> DEFINE at == PlaceOf(w)
<1>1. at.rest \in Seq(Byte) /\ (at.part \in {"user_read", "pass_read"} => IsLine(at.rest))
  BY DEF WellPlaced
<1>2. Full(w) <=> /\ Len(at.rest) = MaxText /\ at.part \in {"user_read", "pass_read"}
                  /\ IsLine(at.rest) /\ Strip(at.rest) = at.rest
  BY DEF Full
<1> HIDE DEF at
<1>3. IsLine(at.rest) /\ Spent(at.rest) => Strip(at.rest) = at.rest
  BY <1>1, LineGrows, ByteAssumption
<1> QED
  BY <1>1, <1>2, <1>3 DEF SpentAt, Spent, at

\* What stands somewhere has a part.
LEMMA WellSomewhere == ASSUME NEW at, WellPlaced(at) PROVE at # Nowhere
BY DEF WellPlaced, States, Nowhere

\* The place of a byte that the search starts over with.
Fresh(b) == Place("user_word_search", IF b = UserWord[1] THEN <<b>> ELSE << >>, << >>)

\* The place the next byte leads to.
Move(at, b) == IF SpentAt(at) \/ Grow(at, b) = Nowhere THEN Fresh(b) ELSE Grow(at, b)

\* A candidate and the ends of it that could become an exchange.
Tails(w) ==
    \A i \in Nat : i >= 1 /\ i < Len(w) /\ PlaceOf(After(w, i)) # Nowhere =>
        WellPlaced(PlaceOf(After(w, i))) /\ Beside(PlaceOf(After(w, i)), PlaceOf(w))
Candidate(w) == w \in Seq(Byte) /\ WellPlaced(PlaceOf(w)) /\ Tails(w)

\* A candidate of at most one byte.
LEMMA SmallCandidate ==
    /\ Candidate(<< >>)
    /\ \A b \in Byte : Candidate(Longest(<<b>>)) /\ PlaceOf(Longest(<<b>>)) = Fresh(b)
<1>1. << >> \in Seq(Byte) /\ Len(<< >>) = 0
  BY EmptyLine
<1>2. ASSUME NEW s \in Seq(Byte), Len(s) <= 1,
             PlaceOf(s) = Place("user_word_search", s, << >>)
      PROVE  Candidate(s)
  <2>1. Len(s) < USER_L
    BY <1>2, WordsAre
  <2>2. WellPlaced(PlaceOf(s))
    <3> DEFINE at == Place("user_word_search", s, << >>)
    <3>1. /\ at.part = "user_word_search" /\ at.rest = s /\ at.name = << >>
          /\ at = Place(at.part, at.rest, at.name)
      BY PlaceFields
    <3> HIDE DEF at
    <3>2. WellPlaced(at)
      BY <1>1, <2>1, <3>1 DEF WellPlaced, States
    <3> QED
      BY <1>2, <3>2 DEF at
  <2>3. Tails(s)
    BY <1>2 DEF Tails
  <2> QED
    BY <1>2, <2>2, <2>3 DEF Candidate
<1>3. Candidate(<< >>)
  <2>1. Len(<< >>) <= 1
    BY <1>1
  <2> QED
    BY <1>1, <1>2, <2>1, SmallPlaces
<1>4. ASSUME NEW b \in Byte
      PROVE  Candidate(Longest(<<b>>)) /\ PlaceOf(Longest(<<b>>)) = Fresh(b)
  <2> DEFINE s == <<b>>
  <2>1. s \in Seq(Byte) /\ Len(s) = 1
    OBVIOUS
  <2>2. PlaceOf(s) = IF b = UserWord[1] THEN Place("user_word_search", s, << >>) ELSE Nowhere
    BY SmallPlaces
  <2> HIDE DEF s
  <2>3. After(s, 0) = s /\ After(s, 1) = << >>
    BY <2>1, AfterEnds
  <2>4. CASE b = UserWord[1]
    <3>1. PlaceOf(s) # Nowhere
      BY <2>2, <2>4, PlaceFields
    <3>2. Longest(s) = s
      <4>1. 0 \in Nat /\ 0 <= Len(s) /\ \A j \in Nat : ~(j < 0)
        BY <2>1
      <4> QED
        BY <2>1, <2>3, <3>1, <4>1, LongestIs
    <3>3. Candidate(s)
      <4>1. Len(s) <= 1
        BY <2>1
      <4> QED
        BY <1>2, <2>1, <2>2, <2>4, <4>1
    <3>4. PlaceOf(s) = Fresh(b)
      BY <2>2, <2>4 DEF Fresh, s
    <3>5. Candidate(Longest(s)) /\ PlaceOf(Longest(s)) = Fresh(b)
      BY <3>2, <3>3, <3>4
    <3> QED
      BY <3>5 DEF s
  <2>5. CASE b # UserWord[1]
    <3>1. PlaceOf(<< >>) # Nowhere
      BY SmallPlaces, PlaceFields
    <3>2. Longest(s) = << >>
      <4>1. 1 \in Nat /\ 1 <= Len(s) /\ \A j \in Nat : j < 1 => j = 0
        BY <2>1
      <4> QED
        BY <2>1, <2>2, <2>3, <2>5, <3>1, <4>1, LongestIs
    <3> QED
      BY <1>3, <2>5, <3>2, SmallPlaces DEF s, Fresh
  <2> QED
    BY <2>4, <2>5 DEF s
<1> QED
  BY <1>3, <1>4

\* Where the candidate stands after one more byte: one byte further, or, when
\* the text is given up or nothing can come of the candidate any more, at that
\* byte alone.
LEMMA AdvanceMoves ==
    ASSUME NEW w, Candidate(w), NEW b \in Byte
    PROVE  Candidate(Advance(w, b)) /\ PlaceOf(Advance(w, b)) = Move(PlaceOf(w), b)
<1> DEFINE at == PlaceOf(w)
           u == Append(w, b)
           m == Len(w)
<1>1. w \in Seq(Byte) /\ WellPlaced(at) /\ Tails(w) /\ m \in Nat
  BY DEF Candidate
<1>2. Full(w) <=> SpentAt(at)
  BY <1>1, FullIs
<1>3. /\ u \in Seq(Byte) /\ Len(u) = m + 1
  BY <1>1, AppendIs
<1>4. PlaceOf(u) = Grow(at, b)
  BY <1>1, PlaceGrows
<1>5. \A i \in Nat : i <= m => /\ After(u, i) = Append(After(w, i), b)
                               /\ PlaceOf(After(u, i)) = Grow(PlaceOf(After(w, i)), b)
  <2> TAKE i \in Nat
  <2> SUFFICES ASSUME i <= m PROVE /\ After(u, i) = Append(After(w, i), b)
                                   /\ PlaceOf(After(u, i)) = Grow(PlaceOf(After(w, i)), b)
    OBVIOUS
  <2>1. After(u, i) = Append(After(w, i), b) /\ After(w, i) \in Seq(Byte)
    BY <1>1, AfterAppend, AfterIs
  <2> QED
    BY <2>1, PlaceGrows
<1>6. Grow(Nowhere, b) = Nowhere
  BY GrowIs
<1>7. After(u, m) = <<b>> /\ After(u, m + 1) = << >> /\ After(u, 0) = u
  <2>1. After(w, m) = << >>
    BY <1>1, AfterEnds
  <2>3. Append(<< >>, b) = <<b>>
    OBVIOUS
  <2>4. m \in Nat /\ m <= m
    BY <1>1
  <2>2. After(u, m) = <<b>>
    <3> HIDE DEF u, m
    <3> QED
      BY <1>5, <2>1, <2>3, <2>4
  <2> HIDE DEF u
  <2> QED
    BY <1>3, <2>2, AfterEnds
<1>8. Advance(w, b) = Longest(IF Full(w) \/ Ends(w, b) THEN <<b>> ELSE u)
  BY DEF Advance
<1>9. Ends(w, b) <=> b = LF /\ at.part = "pass_read" /\ ~Full(w)
  BY DEF Ends
<1>10. at.part = "pass_read" /\ b = LF => Grow(at, b) = Nowhere
  BY <1>1, GrowParts
<1>11. at # Nowhere
  BY <1>1, WellSomewhere
<1> HIDE DEF u, m, at
<1>12. CASE SpentAt(at) \/ (b = LF /\ at.part = "pass_read")
  <2>1. Advance(w, b) = Longest(<<b>>)
    BY <1>2, <1>8, <1>9, <1>12
  <2>2. Move(at, b) = Fresh(b)
    BY <1>10, <1>12 DEF Move
  <2> QED
    BY <2>1, <2>2, SmallCandidate DEF at
<1>13. CASE ~SpentAt(at) /\ ~(b = LF /\ at.part = "pass_read") /\ Grow(at, b) # Nowhere
  <2>1. Advance(w, b) = u
    <3>1. Advance(w, b) = Longest(u)
      BY <1>2, <1>8, <1>9, <1>13
    <3>2. Longest(u) = u
      <4>1. 0 \in Nat /\ 0 <= Len(u) /\ \A j \in Nat : ~(j < 0)
        BY <1>1, <1>3
      <4> QED
        BY <1>3, <1>4, <1>7, <1>13, <4>1, LongestIs
    <3> QED
      BY <3>1, <3>2
  <2>2. Move(at, b) = Grow(at, b)
    BY <1>13 DEF Move
  <2>3. WellPlaced(Grow(at, b))
    BY <1>1, <1>13, GrowWell
  <2>4. ASSUME NEW i \in Nat, i >= 1, i < Len(u), PlaceOf(After(u, i)) # Nowhere
        PROVE  WellPlaced(PlaceOf(After(u, i))) /\ Beside(PlaceOf(After(u, i)), PlaceOf(u))
    <3> DEFINE a == PlaceOf(After(w, i))
    <3>1. i <= m
      BY <1>1, <1>3, <2>4
    <3>2. PlaceOf(After(u, i)) = Grow(a, b)
      BY <1>5, <3>1
    <3>3. CASE i < m
      <4>1. a # Nowhere
        BY <1>6, <2>4, <3>2
      <4>2. WellPlaced(a) /\ Beside(a, at)
        BY <1>1, <2>4, <3>3, <4>1 DEF Tails, at, m
      <4> HIDE DEF a
      <4>3. WellPlaced(Grow(a, b))
        BY <2>4, <3>2, <4>2, GrowWell
      <4>4. Beside(Grow(a, b), Grow(at, b))
        BY <1>1, <1>13, <2>4, <3>2, <4>2, BesideGrows
      <4> QED
        BY <1>4, <3>2, <4>3, <4>4
    <3>4. CASE i = m
      <4>1. After(u, i) = <<b>>
        BY <1>7, <3>4
      <4>2. b = UserWord[1] /\ PlaceOf(<<b>>) = Place("user_word_search", <<b>>, << >>)
        BY <2>4, <4>1, SmallPlaces
      <4>3. ~(at.part = "user_word_search" /\ at.rest = << >>)
        <5> SUFFICES ASSUME at.part = "user_word_search", at.rest = << >> PROVE FALSE
          OBVIOUS
        <5>1. w # << >>
          BY <1>1, <2>4, <3>4 DEF m
        <5>2. CASE Len(w) < USER_L
          <6>1. at = Place("user_word_search", w, << >>)
            BY <1>1, <1>11, <5>2, ShortPlace DEF at
          <6> QED
            BY <5>1, <6>1, PlaceFields
        <5>3. CASE ~(Len(w) < USER_L)
          <6>1. at \in {Nowhere, Place("user_read", After(w, USER_L), << >>)}
                \/ \E rest, name : at \in {Place("pass_word_search", rest, name),
                                           Place("pass_read", rest, name)}
            BY <5>3, Zenon DEF at, PlaceOf
          <6> QED
            BY <1>11, <6>1, PlaceFields
        <5> QED
          BY <5>2, <5>3
      <4>4. Beside(Place("user_word_search", <<b>>, << >>), Grow(at, b))
        BY <1>1, <1>13, <4>2, <4>3, BesideFresh
      <4>5. Candidate(<<b>>)
        <5>1. <<b>> \in Seq(Byte) /\ Len(<<b>>) = 1
          OBVIOUS
        <5>2. Longest(<<b>>) = <<b>>
          <6>1. 0 \in Nat /\ 0 <= Len(<<b>>) /\ \A j \in Nat : ~(j < 0)
            BY <5>1
          <6>2. After(<<b>>, 0) = <<b>>
            BY <5>1, AfterEnds
          <6> QED
            BY <2>4, <4>1, <5>1, <6>1, <6>2, LongestIs
        <5> QED
          BY <5>2, SmallCandidate
      <4> QED
        BY <1>4, <4>1, <4>2, <4>4, <4>5 DEF Candidate
    <3> QED
      BY <1>1, <3>1, <3>3, <3>4
  <2>5. Tails(u)
    BY <2>4 DEF Tails
  <2> QED
    BY <1>3, <1>4, <2>1, <2>2, <2>3, <2>5 DEF Candidate, at
<1>14. CASE ~SpentAt(at) /\ ~(b = LF /\ at.part = "pass_read") /\ Grow(at, b) = Nowhere
  <2>1. Advance(w, b) = Longest(u)
    BY <1>2, <1>8, <1>9, <1>14
  <2>2. Move(at, b) = Fresh(b)
    BY <1>14 DEF Move
  <2>3. ASSUME NEW j \in Nat, j < m PROVE PlaceOf(After(u, j)) = Nowhere
    <3> DEFINE a == PlaceOf(After(w, j))
    <3>1. PlaceOf(After(u, j)) = Grow(a, b) /\ j <= m
      BY <1>1, <1>5, <2>3
    <3>2. CASE j = 0
      BY <1>4, <1>7, <1>14, <3>2
    <3>3. CASE j # 0 /\ a # Nowhere
      <4>1. WellPlaced(a) /\ Beside(a, at)
        BY <1>1, <2>3, <3>3 DEF Tails, at, m
      <4> HIDE DEF a
      <4>2. Grow(a, b) = Nowhere
        BY <1>1, <1>14, <4>1, BesideStuck DEF SpentAt
      <4> QED
        BY <3>1, <4>2
    <3>4. CASE a = Nowhere
      BY <1>6, <3>1, <3>4
    <3> QED
      BY <3>2, <3>3, <3>4
  <2>4. Longest(u) = Longest(<<b>>)
    <3> DEFINE s == <<b>>
    <3>1. s \in Seq(Byte) /\ Len(s) = 1
      OBVIOUS
    <3>2. After(s, 0) = s /\ After(s, 1) = << >>
      <4> HIDE DEF s
      <4> QED
        BY <3>1, AfterEnds
    <3> HIDE DEF s
    <3>3. After(u, m) = s
      BY <1>7 DEF s
    <3>4. m <= Len(u) /\ m + 1 <= Len(u) /\ m + 1 \in Nat /\ Len(u) \in Nat
      BY <1>1, <1>3
    <3>5. PlaceOf(<< >>) # Nowhere
      BY SmallPlaces, PlaceFields
    <3>6. CASE PlaceOf(s) # Nowhere
      <4>1. Longest(u) = s
        BY <1>1, <1>3, <2>3, <3>3, <3>4, <3>6, LongestIs
      <4>2. 0 \in Nat /\ 0 <= Len(s) /\ \A j \in Nat : ~(j < 0)
        BY <3>1
      <4>3. Longest(s) = s
        BY <3>1, <3>2, <3>6, <4>2, LongestIs
      <4> QED
        BY <4>1, <4>3 DEF s
    <3>7. CASE PlaceOf(s) = Nowhere
      <4>1. \A j \in Nat : j < m + 1 => PlaceOf(After(u, j)) = Nowhere
        <5>1. \A j \in Nat : j < m + 1 => j < m \/ j = m
          BY <1>1
        <5> QED
          BY <2>3, <3>3, <3>7, <5>1
      <4>2. Longest(u) = << >>
        BY <1>3, <1>7, <3>4, <3>5, <4>1, LongestIs
      <4>3. 1 \in Nat /\ 1 <= Len(s) /\ \A j \in Nat : j < 1 => j = 0
        BY <3>1
      <4>4. Longest(s) = << >>
        BY <3>1, <3>2, <3>5, <3>7, <4>3, LongestIs
      <4> QED
        BY <4>2, <4>4 DEF s
    <3> QED
      BY <3>6, <3>7
  <2> QED
    BY <2>1, <2>2, <2>4, SmallCandidate DEF at
<1> QED
  BY <1>12, <1>13, <1>14

-----------------------------------------------------------------------------
(* The automaton at its place *)

\* The memory holds the bytes of s and no others.
Holds(ptr, s) == /\ DOMAIN ptr.cells = 0..(Len(s) - 1)
                 /\ \A k \in 1..Len(s) : ptr.cells[k - 1] = s[k]

\* The automaton is where the candidate stands, and its strings are the name
\* and the password as far as they were read.
AtPlace(q, at) ==
    /\ q.current = at.part /\ q.last \in BOOLEAN
    /\ at.part \in {"user_word_search", "pass_word_search"} =>
         q.current_index = Len(at.rest) /\ ~q.last
    /\ at.part \in {"user_read", "pass_read"} =>
         q.current_index = Len(Strip(at.rest)) /\ (q.last <=> EndsCR(at.rest))
    /\ at.part = "user_read" /\ Len(Strip(at.rest)) > 0 => Holds(q.username, Strip(at.rest))
    /\ at.part \in {"pass_word_search", "pass_read"} =>
         Holds(q.username, Append(at.name, NUL))
    /\ at.part = "pass_read" /\ Len(Strip(at.rest)) > 0 => Holds(q.password, Strip(at.rest))

\* A byte more in memory.
LEMMA PutHolds ==
    ASSUME NEW q, Whole(q), NEW f \in {"username", "password"}, NEW b \in Byte,
           NEW s \in Seq(Byte), q.current_index = Len(s), Len(s) > 0 => Holds(q[f], s)
    PROVE  Holds(Put(q, f, b)[f], Append(s, b))
<1> DEFINE n == q.current_index
           ptr == checkSize(q[f], n)
           new == [ptr EXCEPT !.cells = Store(@, n, b)]
           v == Put(q, f, b)
           u == Append(s, b)
<1>1. IsPointer(q[f]) /\ n \in Nat /\ IsParser(q) /\ n = Len(s)
  BY DEF Whole
<1>2. /\ BUFFER_SIZE \in Nat /\ BUFFER_SIZE > 0 /\ 0 % BUFFER_SIZE = 0
  BY SizeAssumption, ModZero
<1>3. ptr.cells = (IF n = 0 THEN << >> ELSE q[f].cells) /\ IsPointer(ptr)
  <2>1. CASE n % BUFFER_SIZE # 0
    <3>1. ptr = q[f] /\ n # 0
      BY <1>2, <2>1 DEF checkSize
    <3> QED
      BY <1>1, <3>1
  <2>2. CASE n = 0
    <3>1. ptr = [mem |-> "live", cap |-> BUFFER_SIZE, cells |-> << >>]
      BY <1>2, <2>2 DEF checkSize
    <3> QED
      BY <2>2, <3>1 DEF IsPointer, PointerFields
  <2>3. CASE n % BUFFER_SIZE = 0 /\ n # 0
    <3>1. ptr = [q[f] EXCEPT !.cap = n + BUFFER_SIZE]
      BY <2>3 DEF checkSize
    <3>2. IsPointer(ptr) /\ ptr.cells = q[f].cells
      BY <1>1, <3>1 DEF IsPointer, PointerFields
    <3> QED
      BY <2>3, <3>2
  <2> QED
    BY <2>1, <2>2, <2>3
<1>4. v[f] = new
  <2>1. v = [q EXCEPT ![f] = new,
                      !.fault = @ \/ (q[f].mem = "freed" /\ n # 0)
                                  \/ ~(ptr.mem = "live" /\ n < ptr.cap)]
    BY DEF Put
  <2> HIDE DEF v, new, ptr
  <2> QED
    BY <1>1, <2>1 DEF IsParser, ParserFields
<1> HIDE DEF ptr, v
<1>5. new.cells = Store(ptr.cells, n, b)
  BY <1>3 DEF IsPointer, PointerFields
<1>6. /\ DOMAIN new.cells = DOMAIN ptr.cells \cup {n}
      /\ new.cells[n] = b /\ \A k \in DOMAIN ptr.cells \ {n} : new.cells[k] = ptr.cells[k]
  <2> HIDE DEF new
  <2> QED
    BY <1>5 DEF Store
<1>7. /\ u \in Seq(Byte) /\ Len(u) = n + 1 /\ u[n + 1] = b
      /\ \A k \in 1..n : u[k] = s[k]
  BY <1>1, AppendIs
<1> HIDE DEF new, u
<1>8. CASE n = 0
  <2>1. DOMAIN ptr.cells = {}
    BY <1>3, <1>8
  <2>2. DOMAIN new.cells = {0} /\ new.cells[0] = b
    BY <1>6, <1>8, <2>1
  <2>3. 0..(Len(u) - 1) = {0} /\ 1..Len(u) = {1} /\ u[1] = b
    BY <1>7, <1>8
  <2> QED
    BY <1>4, <2>2, <2>3 DEF Holds, v, u
<1>9. CASE n # 0
  <2>1. /\ DOMAIN ptr.cells = 0..(n - 1) /\ \A k \in 1..n : ptr.cells[k - 1] = s[k]
    BY <1>1, <1>3, <1>9 DEF Holds
  <2>2. DOMAIN new.cells = 0..(Len(u) - 1)
    <3>1. 0..(n - 1) \cup {n} = 0..n /\ Len(u) - 1 = n
      BY <1>1, <1>7
    <3> QED
      BY <1>6, <2>1, <3>1
  <2>3. ASSUME NEW k \in 1..Len(u) PROVE new.cells[k - 1] = u[k]
    <3>1. CASE k = n + 1
      <4>1. k - 1 = n
        BY <1>1, <3>1
      <4> QED
        BY <1>6, <1>7, <3>1, <4>1
    <3>2. CASE k # n + 1
      <4>1. k \in 1..n /\ k - 1 \in 0..(n - 1) /\ k - 1 # n
        BY <1>1, <1>7, <3>2
      <4>2. new.cells[k - 1] = ptr.cells[k - 1]
        BY <1>6, <2>1, <4>1
      <4> QED
        BY <1>7, <2>1, <4>1, <4>2
    <3> QED
      BY <3>1, <3>2
  <2> QED
    BY <1>4, <2>2, <2>3 DEF Holds, v, u
<1> QED
  BY <1>8, <1>9

\* The C string in memory that holds a text and its NUL is the text up to its
\* first NUL.
LEMMA TextIs ==
    ASSUME NEW ptr, NEW s \in Seq(Byte), Holds(ptr, Append(s, NUL))
    PROVE  Text(ptr) = UpToNul(s)
<1> DEFINE cells == ptr.cells
           m == Len(s)
           u == Append(s, NUL)
           nul == FirstOf(u, NUL)
           Stops(i) == cells[i] = NUL /\ \A j \in 0..(i - 1) : cells[j] # NUL
           Cells(n) == [i \in 1..n |-> cells[i - 1]]
<1>1. /\ u \in Seq(Byte) /\ Len(u) = m + 1 /\ u[m + 1] = NUL /\ m \in Nat
      /\ \A k \in 1..m : u[k] = s[k]
  BY AppendIs, ByteAssumption
<1> HIDE DEF u
<1>2. DOMAIN cells = 0..m /\ \A k \in 1..(m + 1) : cells[k - 1] = u[k]
  <2>1. Len(u) - 1 = m
    BY <1>1
  <2> QED
    BY <1>1, <2>1 DEF Holds, u
<1>3. /\ nul \in 1..(m + 1) /\ u[nul] = NUL /\ \A j \in 1..(nul - 1) : u[j] # NUL
  <2>1. /\ nul \in 0..Len(u)
        /\ nul = 0 => \A i \in 1..Len(u) : u[i] # NUL
        /\ nul # 0 => u[nul] = NUL /\ \A j \in 1..(nul - 1) : u[j] # NUL
    BY <1>1, FirstIs
  <2> HIDE DEF nul
  <2>2. m + 1 \in 1..Len(u)
    BY <1>1
  <2>3. nul # 0
    BY <1>1, <2>1, <2>2
  <2> QED
    BY <1>1, <2>1, <2>3
<1>4. \/ FirstOf(s, NUL) = 0 /\ nul = m + 1
      \/ FirstOf(s, NUL) # 0 /\ nul = FirstOf(s, NUL)
  <2>1. nul = IF FirstOf(s, NUL) # 0 THEN FirstOf(s, NUL) ELSE m + 1
    BY FirstAppend, ByteAssumption DEF u
  <2> HIDE DEF nul
  <2> QED
    BY <2>1
<1> HIDE DEF nul, cells, m
<1>5. Stops(nul - 1)
  <2>1. cells[nul - 1] = NUL
    BY <1>2, <1>3
  <2>2. ASSUME NEW j \in 0..((nul - 1) - 1) PROVE cells[j] # NUL
    <3>1. j + 1 \in 1..(nul - 1) /\ j + 1 \in 1..(m + 1) /\ (j + 1) - 1 = j
      BY <1>1, <1>3
    <3>2. cells[j] = u[j + 1]
      BY <1>2, <3>1
    <3> QED
      BY <1>3, <3>1, <3>2
  <2> QED
    BY <2>1, <2>2
<1>6. nul - 1 \in 0..m /\ nul - 1 \in Nat
  BY <1>1, <1>3
<1>7. ASSUME NEW i \in 0..m, Stops(i) PROVE i = nul - 1
  <2>1. i \in Nat
    BY <1>1
  <2>2. ~(i < nul - 1)
    <3>1. i < nul - 1 => i \in 0..((nul - 1) - 1)
      BY <1>6, <2>1
    <3> QED
      BY <1>5, <1>7, <3>1
  <2>3. ~(nul - 1 < i)
    <3>1. nul - 1 < i => nul - 1 \in 0..(i - 1)
      BY <1>6, <2>1
    <3> QED
      BY <1>5, <1>7, <3>1
  <2> QED
    BY <1>6, <2>1, <2>2, <2>3
<1> HIDE DEF Stops
<1>8. (CHOOSE i \in DOMAIN cells : Stops(i)) = nul - 1
  BY <1>2, <1>5, <1>6, <1>7
<1>9. Text(ptr) = Cells(nul - 1)
  <2>1. Text(ptr) = Cells(CHOOSE i \in DOMAIN cells : Stops(i))
    BY DEF Text, cells, Stops
  <2> QED
    BY <1>8, <2>1
<1>10. UpToNul(s) = SubSeq(s, 1, nul - 1)
  <2>1. CASE FirstOf(s, NUL) = 0
    <3>1. nul - 1 = Len(s)
      BY <1>1, <1>4, <2>1 DEF m
    <3>2. SubSeq(s, 1, Len(s)) = s
      OBVIOUS
    <3> QED
      BY <2>1, <3>1, <3>2 DEF UpToNul
  <2>2. CASE FirstOf(s, NUL) # 0
    BY <1>4, <2>2 DEF UpToNul
  <2> QED
    BY <2>1, <2>2
<1> DEFINE k == nul - 1
<1>11. k \in Nat /\ k <= m /\ m = Len(s)
  BY <1>1, <1>6 DEF m
<1>12. \A i \in 1..k : cells[i - 1] = s[i]
  <2> TAKE i \in 1..k
  <2>1. i \in 1..m /\ i \in 1..(m + 1)
    BY <1>1, <1>11
  <2> QED
    BY <1>1, <1>2, <2>1
<1> HIDE DEF k
<1>13. Cells(k) = [i \in 1..k |-> s[i]]
  BY <1>12
<1>14. SubSeq(s, 1, k) = [i \in 1..k |-> s[i]]
  BY <1>11
<1> QED
  BY <1>9, <1>10, <1>13, <1>14 DEF k

-----------------------------------------------------------------------------
(* A byte *)

\* The exchange ends with this byte.
Printed(at, b) == b = LF /\ at.part = "pass_read" /\ ~SpentAt(at)
Line(at) == <<UpToNul(at.name), UpToNul(Strip(at.rest))>>

\* v is where q goes with byte b from place at.
Follows(v, q, at, b) ==
    /\ AtPlace(v, Move(at, b))
    /\ v.out = IF Printed(at, b) THEN Append(q.out, Line(at)) ELSE q.out

\* The search that starts over, and the strings it frees, print nothing.
LEMMA RestartAt ==
    ASSUME NEW q, Whole(q), NEW b
    PROVE  AtPlace(Restart(q, b), Fresh(b)) /\ Restart(q, b).out = q.out
<1> DEFINE n == IF UserWord[1] = b THEN 1 ELSE 0
           v == Restart(q, b)
           at == Fresh(b)
<1>1. v = [q EXCEPT !.current = "user_word_search", !.last = FALSE, !.current_index = n]
  BY DEF Restart
<1>2. at.part = "user_word_search" /\ Len(at.rest) = n
  <2>1. at.part = "user_word_search" /\ at.rest = IF b = UserWord[1] THEN <<b>> ELSE << >>
    BY PlaceFields DEF Fresh
  <2>2. Len(<<b>>) = 1 /\ Len(<< >>) = 0
    OBVIOUS
  <2> HIDE DEF at
  <2> QED
    BY <2>1, <2>2
<1> HIDE DEF n, v, at
<1>3. v.current = "user_word_search" /\ v.current_index = n /\ v.last = FALSE /\ v.out = q.out
  BY <1>1 DEF Whole, IsParser, ParserFields
<1>4. AtPlace(v, at)
  BY <1>2, <1>3 DEF AtPlace
<1> QED
  BY <1>3, <1>4 DEF v, at

\* See RestartAt.
LEMMA ReleaseOut ==
    ASSUME NEW q, Whole(q), NEW f \in {"username", "password"} PROVE release(q, f).out = q.out
BY DEF release, Whole, IsParser, ParserFields

\* The reset of the password's state is a search that starts over.
LEMMA PassResetAt ==
    ASSUME NEW u, Whole(u), u.username.mem = "live",
           u.current_index # 0 => u.password.mem = "live", NEW b
    PROVE  AtPlace(pass_read_reset(u, b), Fresh(b)) /\ pass_read_reset(u, b).out = u.out
<1> DEFINE w == IF u.current_index # 0 THEN release(u, "password") ELSE u
           x == release(w, "username")
<1>1. Whole(w) /\ w.username = u.username /\ w.out = u.out
  BY ReleaseFrees, ReleaseOut
<1> HIDE DEF w
<1>2. Whole(x) /\ x.out = u.out
  BY <1>1, ReleaseFrees, ReleaseOut
<1>3. pass_read_reset(u, b) = Restart(x, b)
  BY DEF pass_read_reset, w
<1> HIDE DEF x
<1> QED
  BY <1>2, <1>3, RestartAt

\* Nothing can follow, and nothing is printed.
LEMMA StuckFollows ==
    ASSUME NEW v, NEW q, NEW at, NEW b,
           SpentAt(at) \/ (Grow(at, b) = Nowhere /\ ~(at.part = "pass_read" /\ b = LF)),
           AtPlace(v, Fresh(b)), v.out = q.out
    PROVE  Follows(v, q, at, b)
BY DEF Follows, Move, Printed

\* The candidate grows, and nothing is printed.
LEMMA GrowFollows ==
    ASSUME NEW v, NEW q, NEW at, NEW b, ~SpentAt(at), NEW y, y = Grow(at, b), y # Nowhere,
           ~(at.part = "pass_read" /\ b = LF), AtPlace(v, y), v.out = q.out
    PROVE  Follows(v, q, at, b)
BY DEF Follows, Move, Printed

\* Looking for "user ".
LEMMA UserWordFollows ==
    ASSUME NEW q, Sane(q), NEW at, WellPlaced(at), AtPlace(q, at),
           at.part = "user_word_search", NEW b \in Byte
    PROVE  Follows(user_word_search_handler(q, b), q, at, b)
<1> DEFINE v == user_word_search_handler(q, b)
           n == q.current_index
           r == at.rest
           u == Append(r, b)
<1>1. /\ Whole(q) /\ IsParser(q) /\ n \in Nat /\ n = Len(r) /\ q.last = FALSE
      /\ r \in Seq(Byte) /\ ~SpentAt(at)
  BY DEF Sane, Whole, AtPlace, WellPlaced, SpentAt
<1>2. Grow(at, b) = IF UserWord[n + 1] # b THEN Nowhere
                    ELSE IF n + 1 = USER_L THEN Place("user_read", << >>, << >>)
                    ELSE Place("user_word_search", u, << >>)
  <2>1. at = Place("user_word_search", r, at.name)
    BY DEF WellPlaced
  <2> QED
    BY <1>1, <2>1, GrowIs
<1>3. Len(u) = n + 1
  BY <1>1, AppendIs
<1> HIDE DEF u, r
<1>4. CASE UserWord[n + 1] # b
  <2>1. v = Restart(q, b) /\ Grow(at, b) = Nowhere
    BY <1>2, <1>4 DEF user_word_search_handler
  <2>2. AtPlace(v, Fresh(b)) /\ v.out = q.out
    BY <1>1, <2>1, RestartAt
  <2> HIDE DEF v
  <2>3. Follows(v, q, at, b)
    BY <2>1, <2>2, StuckFollows
  <2> QED
    BY <2>3 DEF v
<1>5. CASE UserWord[n + 1] = b /\ n + 1 = USER_L
  <2> DEFINE y == Place("user_read", << >>, << >>)
  <2>1. v = [[q EXCEPT !.current_index = 0] EXCEPT !.current = "user_read"]
    BY <1>1, <1>5 DEF user_word_search_handler, Goto
  <2> HIDE DEF v
  <2>2. v.current = "user_read" /\ v.current_index = 0 /\ v.last = FALSE /\ v.out = q.out
    BY <1>1, <2>1 DEF IsParser, ParserFields
  <2>3. y.part = "user_read" /\ y.rest = << >> /\ y # Nowhere /\ y = Grow(at, b)
    BY <1>2, <1>5, PlaceFields
  <2> HIDE DEF y
  <2>4. Strip(y.rest) = << >> /\ Len(Strip(y.rest)) = 0 /\ ~EndsCR(y.rest)
    BY <2>3, EmptyLine
  <2>5. AtPlace(v, y)
    <3>1. v.last \in BOOLEAN /\ (v.last <=> EndsCR(y.rest))
      BY <2>2, <2>4
    <3>2. v.current_index = Len(Strip(y.rest)) /\ ~(Len(Strip(y.rest)) > 0)
      BY <2>2, <2>4
    <3> QED
      BY <2>2, <2>3, <3>1, <3>2 DEF AtPlace
  <2>6. Follows(v, q, at, b)
    BY <1>1, <2>2, <2>3, <2>5, GrowFollows
  <2> QED
    BY <2>6 DEF v
<1>6. CASE UserWord[n + 1] = b /\ n + 1 # USER_L
  <2> DEFINE y == Place("user_word_search", u, << >>)
  <2>1. v = [q EXCEPT !.current_index = n + 1]
    BY <1>1, <1>6 DEF user_word_search_handler
  <2> HIDE DEF v
  <2>2. /\ v.current = "user_word_search" /\ v.current_index = n + 1 /\ v.last = FALSE
        /\ v.out = q.out
    BY <1>1, <2>1 DEF IsParser, ParserFields, AtPlace
  <2>3. y.part = "user_word_search" /\ y.rest = u /\ y # Nowhere /\ y = Grow(at, b)
    BY <1>2, <1>6, PlaceFields
  <2> HIDE DEF y
  <2>4. AtPlace(v, y)
    BY <1>3, <2>2, <2>3 DEF AtPlace
  <2>5. Follows(v, q, at, b)
    BY <1>1, <2>2, <2>3, <2>4, GrowFollows
  <2> QED
    BY <2>5 DEF v
<1> QED
  BY <1>4, <1>5, <1>6

\* Looking for "pass ": the name stays as it was stored.
LEMMA PassWordFollows ==
    ASSUME NEW q, Sane(q), NEW at, WellPlaced(at), AtPlace(q, at),
           at.part = "pass_word_search", NEW b \in Byte
    PROVE  Follows(pass_word_search_handler(q, b), q, at, b)
<1> DEFINE v == pass_word_search_handler(q, b)
           n == q.current_index
           r == at.rest
           u == Append(r, b)
           name == at.name
<1>1. /\ Whole(q) /\ IsParser(q) /\ n \in Nat /\ n = Len(r) /\ q.last = FALSE
      /\ r \in Seq(Byte) /\ ~SpentAt(at) /\ q.username.mem = "live"
      /\ q.current = "pass_word_search" /\ Holds(q.username, Append(name, NUL))
  BY DEF Sane, Whole, AtPlace, WellPlaced, SpentAt, Strings
<1>2. Grow(at, b) = IF PassWord[n + 1] # b THEN Nowhere
                    ELSE IF n + 1 = PASS_L THEN Place("pass_read", << >>, name)
                    ELSE Place("pass_word_search", u, name)
  <2>1. at = Place("pass_word_search", r, name)
    BY DEF WellPlaced
  <2> QED
    BY <1>1, <2>1, GrowIs
<1>3. Len(u) = n + 1
  BY <1>1, AppendIs
<1> HIDE DEF u, r, name
<1>4. CASE PassWord[n + 1] # b
  <2> DEFINE w == release(q, "username")
  <2>1. v = Restart(w, b) /\ Grow(at, b) = Nowhere
    BY <1>2, <1>4 DEF pass_word_search_handler
  <2>2. Whole(w) /\ w.out = q.out
    BY <1>1, ReleaseFrees, ReleaseOut
  <2> HIDE DEF w
  <2>3. AtPlace(v, Fresh(b)) /\ v.out = q.out
    BY <2>1, <2>2, RestartAt
  <2> HIDE DEF v
  <2>4. Follows(v, q, at, b)
    BY <2>1, <2>3, StuckFollows
  <2> QED
    BY <2>4 DEF v
<1>5. CASE PassWord[n + 1] = b /\ n + 1 = PASS_L
  <2> DEFINE y == Place("pass_read", << >>, name)
  <2>1. v = [[q EXCEPT !.current_index = 0] EXCEPT !.current = "pass_read"]
    BY <1>1, <1>5 DEF pass_word_search_handler, Goto
  <2> HIDE DEF v
  <2>2. /\ v.current = "pass_read" /\ v.current_index = 0 /\ v.last = FALSE
        /\ v.out = q.out /\ v.username = q.username
    BY <1>1, <2>1 DEF IsParser, ParserFields
  <2>3. /\ y.part = "pass_read" /\ y.rest = << >> /\ y.name = name
        /\ y # Nowhere /\ y = Grow(at, b)
    BY <1>2, <1>5, PlaceFields
  <2> HIDE DEF y
  <2>4. Strip(y.rest) = << >> /\ Len(Strip(y.rest)) = 0 /\ ~EndsCR(y.rest)
    BY <2>3, EmptyLine
  <2>5. AtPlace(v, y)
    <3>1. v.last \in BOOLEAN /\ (v.last <=> EndsCR(y.rest))
      BY <2>2, <2>4
    <3>2. v.current_index = Len(Strip(y.rest)) /\ ~(Len(Strip(y.rest)) > 0)
      BY <2>2, <2>4
    <3> QED
      BY <1>1, <2>2, <2>3, <3>1, <3>2 DEF AtPlace
  <2>7. b # LF \/ at.part # "pass_read"
    OBVIOUS
  <2>6. Follows(v, q, at, b)
    BY <1>1, <2>2, <2>3, <2>5, <2>7, GrowFollows
  <2> QED
    BY <2>6 DEF v
<1>6. CASE PassWord[n + 1] = b /\ n + 1 # PASS_L
  <2> DEFINE y == Place("pass_word_search", u, name)
  <2>1. v = [q EXCEPT !.current_index = n + 1]
    BY <1>1, <1>6 DEF pass_word_search_handler
  <2> HIDE DEF v
  <2>2. /\ v.current = "pass_word_search" /\ v.current_index = n + 1 /\ v.last = FALSE
        /\ v.out = q.out /\ v.username = q.username
    BY <1>1, <2>1 DEF IsParser, ParserFields
  <2>3. /\ y.part = "pass_word_search" /\ y.rest = u /\ y.name = name
        /\ y # Nowhere /\ y = Grow(at, b)
    BY <1>2, <1>6, PlaceFields
  <2> HIDE DEF y
  <2>4. AtPlace(v, y)
    BY <1>1, <1>3, <2>2, <2>3 DEF AtPlace
  <2>5. Follows(v, q, at, b)
    BY <1>1, <2>2, <2>3, <2>4, GrowFollows
  <2> QED
    BY <2>5 DEF v
<1> QED
  BY <1>4, <1>5, <1>6

\* What a byte makes of a line that is being read.
LEMMA ReadLine ==
    ASSUME NEW r \in Seq(Byte), IsLine(r), NEW b \in Byte
    PROVE  /\ Len(Strip(r)) \in Nat /\ Strip(r) \in Seq(Byte)
           /\ Len(Strip(r)) >= MaxText <=> Spent(r)
           /\ ~Spent(r) => Finishes(Strip(r))
           /\ ~EndsCR(r) => Strip(r) = r
           /\ ~Spent(r) => (IsLine(Append(r, b)) <=> ~EndsCR(r) /\ b \notin {LF, Eight})
           /\ Append(r, b) \in Seq(Byte) /\ Len(Append(r, b)) = Len(r) + 1
           /\ Strip(Append(r, b)) = IF b = CR THEN r ELSE Append(r, b)
           /\ EndsCR(Append(r, b)) <=> b = CR
<1>1. Strip(r) \in Seq(Byte) /\ Len(Strip(r)) \in Nat /\ (~EndsCR(r) => Strip(r) = r)
  BY StripIs
<1>2. MaxText \in Nat
  BY SizeAssumption
<1>3. Len(Strip(r)) <= MaxText /\ (Finishes(Strip(r)) <=> ~Spent(r))
  BY LineGrows
<1>4. Len(Strip(r)) >= MaxText <=> Spent(r)
  BY <1>1, <1>2, <1>3 DEF Spent
<1>5. ~Spent(r) => (IsLine(Append(r, b)) <=> ~EndsCR(r) /\ b \notin {LF, Eight})
  BY LineGrows
<1> QED
  BY <1>1, <1>3, <1>4, <1>5, AppendIs, StripAppend

\* The automaton within a line: the carriage return is not stored, and any
\* other byte is.
LEMMA AtName ==
    ASSUME NEW v, NEW y, y.part = "user_read", v.current = "user_read",
           v.last \in BOOLEAN, v.last <=> EndsCR(y.rest),
           v.current_index = Len(Strip(y.rest)),
           Len(Strip(y.rest)) > 0 => Holds(v.username, Strip(y.rest))
    PROVE  AtPlace(v, y)
BY DEF AtPlace

\* See AtName.
LEMMA AtPassword ==
    ASSUME NEW v, NEW y, y.part = "pass_read", v.current = "pass_read",
           v.last \in BOOLEAN, v.last <=> EndsCR(y.rest),
           v.current_index = Len(Strip(y.rest)),
           Holds(v.username, Append(y.name, NUL)),
           Len(Strip(y.rest)) > 0 => Holds(v.password, Strip(y.rest))
    PROVE  AtPlace(v, y)
BY DEF AtPlace

\* Reading the name.
LEMMA UserReadFollows ==
    ASSUME NEW q, Sane(q), NEW at, WellPlaced(at), AtPlace(q, at),
           at.part = "user_read", NEW b \in Byte
    PROVE  Follows(user_read_handler(q, b), q, at, b)
<1> DEFINE v == user_read_handler(q, b)
           n == q.current_index
           r == at.rest
           u == Append(r, b)
           s == Strip(r)
<1>1. /\ Whole(q) /\ IsParser(q) /\ n \in Nat /\ n = Len(s) /\ r \in Seq(Byte)
      /\ q.last \in BOOLEAN /\ (q.last <=> EndsCR(r)) /\ IsLine(r)
      /\ q.current = "user_read" /\ Grown(q.username, n)
      /\ Len(s) > 0 => Holds(q.username, s)
  BY DEF Sane, Whole, AtPlace, WellPlaced, Strings
<1>2. Grow(at, b) = IF b = LF /\ Finishes(s) THEN Place("pass_word_search", << >>, s)
                    ELSE IF IsLine(u) THEN Place("user_read", u, << >>) ELSE Nowhere
  <2>1. at = Place("user_read", r, at.name)
    BY DEF WellPlaced
  <2> QED
    BY <2>1, GrowIs
<1>3. /\ s \in Seq(Byte)
      /\ n >= MaxText <=> Spent(r)
      /\ ~Spent(r) => Finishes(s)
      /\ ~EndsCR(r) => s = r
      /\ ~Spent(r) => (IsLine(u) <=> ~EndsCR(r) /\ b \notin {LF, Eight})
      /\ Len(u) = Len(r) + 1
      /\ Strip(u) = IF b = CR THEN r ELSE u
      /\ EndsCR(u) <=> b = CR
  <2>1. /\ s \in Seq(Byte)
        /\ Len(s) >= MaxText <=> Spent(r)
        /\ ~Spent(r) => Finishes(s)
        /\ ~EndsCR(r) => s = r
        /\ ~Spent(r) => (IsLine(u) <=> ~EndsCR(r) /\ b \notin {LF, Eight})
        /\ Len(u) = Len(r) + 1
        /\ Strip(u) = IF b = CR THEN r ELSE u
        /\ EndsCR(u) <=> b = CR
    BY <1>1, ReadLine
  <2> HIDE DEF u, r, s, n
  <2> QED
    BY <1>1, <2>1
<1>4. SpentAt(at) <=> Spent(r)
  BY DEF SpentAt
<1>5. CR # LF /\ Eight # CR /\ Eight # LF /\ NUL \in Byte
  BY ByteAssumption
<1>6. ~(at.part = "pass_read" /\ b = LF)
  OBVIOUS
<1> DEFINE given == Restart(q, b)
           ended == Goto([Put(q, "username", NUL) EXCEPT !.current_index = 0, !.last = FALSE],
                         "pass_word_search")
           more == [Put(q, "username", b) EXCEPT !.current_index = @ + 1]
           return == [q EXCEPT !.last = TRUE]
<1>7. /\ Spent(r) \/ (EndsCR(r) /\ b # LF) \/ b = Eight => v = given
      /\ ~Spent(r) /\ b = LF => v = ended
      /\ ~Spent(r) /\ ~EndsCR(r) /\ b = CR => v = return
      /\ ~Spent(r) /\ ~EndsCR(r) /\ b \notin {CR, LF, Eight} => v = more
  <2> DEFINE stop == n >= MaxText \/ (q.last /\ b # LF)
  <2>1. v = IF stop THEN given
            ELSE CASE b = CR -> return [] b = LF -> ended [] ~isascii2(b) -> given
                   [] OTHER -> more
    BY DEF user_read_handler, user_read_reset
  <2>2. stop <=> Spent(r) \/ (EndsCR(r) /\ b # LF)
    BY <1>1, <1>3
  <2>3. isascii2(b) <=> b # Eight
    BY DEF isascii2
  <2> HIDE DEF stop, v, given, ended, return, more, r
  <2>4. stop => v = given
    BY <2>1
  <2>5. ~stop /\ b = CR => v = return
    BY <1>5, <2>1, <2>3
  <2>6. ~stop /\ b = LF => v = ended
    BY <1>5, <2>1, <2>3
  <2>7. ~stop /\ b = Eight => v = given
    BY <1>5, <2>1, <2>3
  <2>8. ~stop /\ b \notin {CR, LF, Eight} => v = more
    BY <2>1, <2>3
  <2> QED
    BY <1>5, <2>2, <2>4, <2>5, <2>6, <2>7, <2>8
<1>8. ASSUME NEW x \in Byte
      PROVE  LET w == Put(q, "username", x)
             IN /\ IsParser(w) /\ w.current = "user_read" /\ w.current_index = n
                /\ w.last = q.last /\ w.out = q.out /\ Holds(w.username, Append(s, x))
  <2> DEFINE w == Put(q, "username", x)
  <2>1. /\ Whole(w) /\ w.current = q.current /\ w.current_index = n
        /\ w.last = q.last /\ w.out = q.out
    BY <1>1, PutStores
  <2>2. Holds(w.username, Append(s, x))
    <3>1. Len(s) > 0 => Holds(q["username"], s)
      BY <1>1
    <3> HIDE DEF s
    <3>2. Holds(Put(q, "username", x)["username"], Append(s, x))
      BY <1>1, <1>3, <3>1, PutHolds
    <3> QED
      BY <3>2
  <2> HIDE DEF w
  <2> QED
    BY <1>1, <2>1, <2>2 DEF w, Whole
<1> HIDE DEF v, u, r, s, n, given, ended, return, more
<1>9. CASE Spent(r) \/ (EndsCR(r) /\ b # LF) \/ b = Eight
  <2>1. v = Restart(q, b)
    BY <1>7, <1>9 DEF given
  <2>2. SpentAt(at) \/ Grow(at, b) = Nowhere
    BY <1>2, <1>3, <1>4, <1>5, <1>9
  <2>3. AtPlace(v, Fresh(b)) /\ v.out = q.out
    BY <1>1, <2>1, RestartAt
  <2>4. Follows(v, q, at, b)
    BY <1>6, <2>2, <2>3, StuckFollows
  <2> QED
    BY <2>4 DEF v
<1>10. CASE ~Spent(r) /\ b = LF
  <2> DEFINE y == Place("pass_word_search", << >>, s)
             w == Put(q, "username", NUL)
  <2>1. v = Goto([w EXCEPT !.current_index = 0, !.last = FALSE], "pass_word_search")
    BY <1>7, <1>10 DEF ended
  <2>2. IsParser(w) /\ w.out = q.out /\ Holds(w.username, Append(s, NUL))
    BY <1>5, <1>8
  <2> HIDE DEF w
  <2>3. /\ v.current = "pass_word_search" /\ v.current_index = 0 /\ v.last = FALSE
        /\ v.out = w.out /\ v.username = w.username
    BY <2>1, <2>2 DEF Goto, IsParser, ParserFields
  <2>4. /\ y.part = "pass_word_search" /\ y.rest = << >> /\ y.name = s
        /\ y # Nowhere /\ y = Grow(at, b)
    BY <1>2, <1>3, <1>10, PlaceFields
  <2> HIDE DEF y
  <2>5. Len(y.rest) = 0
    BY <2>4, EmptyLine
  <2>6. AtPlace(v, y)
    BY <2>2, <2>3, <2>4, <2>5 DEF AtPlace
  <2>7. v.out = q.out
    BY <2>2, <2>3
  <2>8. Follows(v, q, at, b)
    BY <1>4, <1>6, <1>10, <2>4, <2>6, <2>7, GrowFollows
  <2> QED
    BY <2>8 DEF v
<1>11. CASE ~Spent(r) /\ ~EndsCR(r) /\ b = CR
  <2> DEFINE y == Place("user_read", u, << >>)
  <2>1. v = [q EXCEPT !.last = TRUE]
    BY <1>7, <1>11 DEF return
  <2>2. /\ v.current = "user_read" /\ v.current_index = n /\ v.last = TRUE
        /\ v.out = q.out /\ v.username = q.username
    BY <1>1, <2>1 DEF IsParser, ParserFields, n
  <2>3. y.part = "user_read" /\ y.rest = u /\ y # Nowhere /\ y = Grow(at, b)
    BY <1>2, <1>3, <1>5, <1>11, PlaceFields
  <2> HIDE DEF y
  <2>4. Strip(y.rest) = s /\ EndsCR(y.rest)
    BY <1>3, <1>11, <2>3
  <2>5. AtPlace(v, y)
    BY <1>1, <2>2, <2>3, <2>4, AtName
  <2>6. Follows(v, q, at, b)
    BY <1>4, <1>6, <1>11, <2>2, <2>3, <2>5, GrowFollows
  <2> QED
    BY <2>6 DEF v
<1>12. CASE ~Spent(r) /\ ~EndsCR(r) /\ b \notin {CR, LF, Eight}
  <2> DEFINE y == Place("user_read", u, << >>)
             w == Put(q, "username", b)
  <2>1. IsParser(w) /\ w.current = "user_read" /\ w.current_index = n
        /\ w.last = q.last /\ w.out = q.out /\ Holds(w.username, Append(s, b))
    BY <1>8
  <2> HIDE DEF w
  <2>2. v = [w EXCEPT !.current_index = n + 1]
    BY <1>7, <1>12, <2>1 DEF more, w
  <2>3. /\ v.current = "user_read" /\ v.current_index = n + 1 /\ v.last = q.last
        /\ v.out = q.out /\ v.username = w.username
    BY <2>1, <2>2 DEF IsParser, ParserFields
  <2>4. y.part = "user_read" /\ y.rest = u /\ y # Nowhere /\ y = Grow(at, b)
    BY <1>2, <1>3, <1>5, <1>12, PlaceFields
  <2> HIDE DEF y
  <2>5. Strip(y.rest) = u /\ ~EndsCR(y.rest)
    BY <1>3, <1>12, <2>4
  <2>6. Holds(v.username, u) /\ Len(u) = n + 1
    BY <1>1, <1>3, <1>12, <2>1, <2>3 DEF u, r, s
  <2>7. AtPlace(v, y)
    BY <1>1, <1>12, <2>3, <2>4, <2>5, <2>6, AtName
  <2>8. Follows(v, q, at, b)
    BY <1>4, <1>6, <1>12, <2>3, <2>4, <2>7, GrowFollows
  <2> QED
    BY <2>8 DEF v
<1> QED
  BY <1>9, <1>10, <1>11, <1>12

\* Reading the password: the line that ends it is printed with the two texts.
LEMMA PassReadFollows ==
    ASSUME NEW q, Sane(q), NEW at, WellPlaced(at), AtPlace(q, at),
           at.part = "pass_read", NEW b \in Byte
    PROVE  Follows(pass_read_handler(q, b), q, at, b)
<1> DEFINE v == pass_read_handler(q, b)
           n == q.current_index
           r == at.rest
           u == Append(r, b)
           s == Strip(r)
           name == at.name
<1>1. /\ Whole(q) /\ IsParser(q) /\ n \in Nat /\ n = Len(s) /\ r \in Seq(Byte)
      /\ q.last \in BOOLEAN /\ (q.last <=> EndsCR(r)) /\ IsLine(r)
      /\ q.current = "pass_read" /\ Grown(q.password, n) /\ q.username.mem = "live"
      /\ Len(s) > 0 => Holds(q.password, s)
      /\ Holds(q.username, Append(name, NUL)) /\ name \in Seq(Byte)
  BY DEF Sane, Whole, AtPlace, WellPlaced, Strings
<1>2. Grow(at, b) = IF IsLine(u) THEN Place("pass_read", u, name) ELSE Nowhere
  <2>1. at = Place("pass_read", r, name)
    BY DEF WellPlaced
  <2> QED
    BY <2>1, GrowIs
<1>3. /\ s \in Seq(Byte)
      /\ n >= MaxText <=> Spent(r)
      /\ ~EndsCR(r) => s = r
      /\ ~Spent(r) => (IsLine(u) <=> ~EndsCR(r) /\ b \notin {LF, Eight})
      /\ Len(u) = Len(r) + 1
      /\ Strip(u) = IF b = CR THEN r ELSE u
      /\ EndsCR(u) <=> b = CR
  <2>1. /\ s \in Seq(Byte)
        /\ Len(s) >= MaxText <=> Spent(r)
        /\ ~EndsCR(r) => s = r
        /\ ~Spent(r) => (IsLine(u) <=> ~EndsCR(r) /\ b \notin {LF, Eight})
        /\ Len(u) = Len(r) + 1
        /\ Strip(u) = IF b = CR THEN r ELSE u
        /\ EndsCR(u) <=> b = CR
    BY <1>1, ReadLine
  <2> HIDE DEF u, r, s, n
  <2> QED
    BY <1>1, <2>1
<1>4. SpentAt(at) <=> Spent(r)
  BY DEF SpentAt
<1>5. CR # LF /\ Eight # CR /\ Eight # LF /\ NUL \in Byte
  BY ByteAssumption
<1> DEFINE given == pass_read_reset(q, b)
           ended == pass_read_reset(Report(Put(q, "password", NUL)), b)
           skipped == Restart(q, b)
           more == [Put(q, "password", b) EXCEPT !.current_index = @ + 1]
           return == [q EXCEPT !.last = TRUE]
<1>6. /\ Spent(r) \/ (EndsCR(r) /\ b # LF) => v = given
      /\ ~Spent(r) /\ ~EndsCR(r) /\ b = Eight => v = skipped
      /\ ~Spent(r) /\ b = LF => v = ended
      /\ ~Spent(r) /\ ~EndsCR(r) /\ b = CR => v = return
      /\ ~Spent(r) /\ ~EndsCR(r) /\ b \notin {CR, LF, Eight} => v = more
  <2> DEFINE stop == n >= MaxText \/ (q.last /\ b # LF)
  <2>1. v = IF stop THEN given
            ELSE CASE b = CR -> return [] b = LF -> ended [] ~isascii2(b) -> skipped
                   [] OTHER -> more
    BY DEF pass_read_handler, user_read_reset
  <2>2. stop <=> Spent(r) \/ (EndsCR(r) /\ b # LF)
    BY <1>1, <1>3
  <2>3. isascii2(b) <=> b # Eight
    BY DEF isascii2
  <2> HIDE DEF stop, v, given, ended, skipped, return, more, r
  <2>4. stop => v = given
    BY <2>1
  <2>5. ~stop /\ b = CR => v = return
    BY <1>5, <2>1, <2>3
  <2>6. ~stop /\ b = LF => v = ended
    BY <1>5, <2>1, <2>3
  <2>7. ~stop /\ b = Eight => v = skipped
    BY <1>5, <2>1, <2>3
  <2>8. ~stop /\ b \notin {CR, LF, Eight} => v = more
    BY <2>1, <2>3
  <2> QED
    BY <1>5, <2>2, <2>4, <2>5, <2>6, <2>7, <2>8
<1>7. ASSUME NEW x \in Byte
      PROVE  LET w == Put(q, "password", x)
             IN /\ Whole(w) /\ w.current = "pass_read" /\ w.current_index = n
                /\ w.last = q.last /\ w.out = q.out /\ Holds(w.password, Append(s, x))
                /\ w.username = q.username /\ w.password.mem = "live"
  <2> DEFINE w == Put(q, "password", x)
  <2>1. /\ Whole(w) /\ w.current = q.current /\ w.current_index = n
        /\ w.last = q.last /\ w.out = q.out
        /\ w.username = q.username /\ w.password.mem = "live"
    BY <1>1, PutStores
  <2>2. Holds(w.password, Append(s, x))
    <3>1. Len(s) > 0 => Holds(q["password"], s)
      BY <1>1
    <3> HIDE DEF s
    <3>2. Holds(Put(q, "password", x)["password"], Append(s, x))
      BY <1>1, <1>3, <3>1, PutHolds
    <3> QED
      BY <3>2
  <2> HIDE DEF w
  <2> QED
    BY <1>1, <2>1, <2>2 DEF w
<1>8. Line(at) = <<UpToNul(name), UpToNul(s)>>
  BY DEF Line
<1> HIDE DEF v, u, r, s, n, name, given, ended, skipped, return, more
<1>9. CASE Spent(r) \/ (EndsCR(r) /\ b # LF)
  <2>1. v = pass_read_reset(q, b)
    BY <1>6, <1>9 DEF given
  <2>2. SpentAt(at) \/ (Grow(at, b) = Nowhere /\ ~(at.part = "pass_read" /\ b = LF))
    BY <1>2, <1>3, <1>4, <1>9
  <2>3. q.current_index # 0 => q.password.mem = "live"
    BY <1>1 DEF Grown, n
  <2>4. AtPlace(v, Fresh(b)) /\ v.out = q.out
    BY <1>1, <2>1, <2>3, PassResetAt
  <2>5. Follows(v, q, at, b)
    BY <2>2, <2>4, StuckFollows
  <2> QED
    BY <2>5 DEF v
<1>10. CASE ~Spent(r) /\ ~EndsCR(r) /\ b = Eight
  <2>1. v = Restart(q, b)
    BY <1>6, <1>10 DEF skipped
  <2>2. Grow(at, b) = Nowhere /\ ~(at.part = "pass_read" /\ b = LF)
    BY <1>2, <1>3, <1>5, <1>10
  <2>3. AtPlace(v, Fresh(b)) /\ v.out = q.out
    BY <1>1, <2>1, RestartAt
  <2>4. Follows(v, q, at, b)
    BY <2>2, <2>3, StuckFollows
  <2> QED
    BY <2>4 DEF v
<1>11. CASE ~Spent(r) /\ b = LF
  <2> DEFINE w == Put(q, "password", NUL)
             x == Report(w)
  <2>1. v = pass_read_reset(x, b)
    BY <1>6, <1>11 DEF ended
  <2>2. /\ Whole(w) /\ w.out = q.out /\ Holds(w.password, Append(s, NUL))
        /\ w.username = q.username /\ w.password.mem = "live"
    BY <1>5, <1>7
  <2> HIDE DEF w
  <2>3. Text(w.username) = UpToNul(name) /\ Text(w.password) = UpToNul(s)
    BY <1>1, <1>3, <2>2, TextIs
  <2>4. x = [w EXCEPT !.out = Append(w.out, Line(at))]
    BY <1>8, <2>3 DEF Report
  <2> HIDE DEF x
  <2>5. /\ IsParser(x) /\ x.out = Append(q.out, Line(at)) /\ x.username = w.username
        /\ x.password = w.password /\ x.fault = w.fault
        /\ x.current_index = w.current_index
    BY <2>2, <2>4 DEF Whole, IsParser, ParserFields
  <2>6. Whole(x)
    BY <2>2, <2>5 DEF Whole
  <2>7. /\ x.username.mem = "live"
        /\ x.current_index # 0 => x.password.mem = "live"
    BY <1>1, <2>2, <2>5
  <2>8. AtPlace(v, Fresh(b)) /\ v.out = Append(q.out, Line(at))
    BY <2>1, <2>5, <2>6, <2>7, PassResetAt
  <2>9. Grow(at, b) = Nowhere
    BY <1>2, <1>3, <1>11
  <2>10. Printed(at, b)
    BY <1>4, <1>11 DEF Printed
  <2>11. Follows(v, q, at, b)
    BY <2>8, <2>9, <2>10 DEF Follows, Move
  <2> QED
    BY <2>11 DEF v
<1>12. CASE ~Spent(r) /\ ~EndsCR(r) /\ b = CR
  <2> DEFINE y == Place("pass_read", u, name)
  <2>1. v = [q EXCEPT !.last = TRUE]
    BY <1>6, <1>12 DEF return
  <2>2. /\ v.current = "pass_read" /\ v.current_index = n /\ v.last = TRUE
        /\ v.out = q.out /\ v.username = q.username /\ v.password = q.password
    BY <1>1, <2>1 DEF IsParser, ParserFields, n
  <2>3. y.part = "pass_read" /\ y.rest = u /\ y.name = name /\ y # Nowhere /\ y = Grow(at, b)
    BY <1>2, <1>3, <1>5, <1>12, PlaceFields
  <2> HIDE DEF y
  <2>4. Strip(y.rest) = s /\ EndsCR(y.rest)
    BY <1>3, <1>12, <2>3
  <2>5. AtPlace(v, y)
    BY <1>1, <2>2, <2>3, <2>4, AtPassword
  <2>6. ~(at.part = "pass_read" /\ b = LF)
    BY <1>5, <1>12
  <2>7. Follows(v, q, at, b)
    BY <1>4, <1>12, <2>2, <2>3, <2>5, <2>6, GrowFollows
  <2> QED
    BY <2>7 DEF v
<1>13. CASE ~Spent(r) /\ ~EndsCR(r) /\ b \notin {CR, LF, Eight}
  <2> DEFINE y == Place("pass_read", u, name)
             w == Put(q, "password", b)
  <2>1. /\ Whole(w) /\ w.current = "pass_read" /\ w.current_index = n
        /\ w.last = q.last /\ w.out = q.out /\ Holds(w.password, Append(s, b))
        /\ w.username = q.username
    BY <1>7
  <2> HIDE DEF w
  <2>2. v = [w EXCEPT !.current_index = n + 1]
    BY <1>6, <1>13, <2>1 DEF more, w
  <2>3. /\ v.current = "pass_read" /\ v.current_index = n + 1 /\ v.last = q.last
        /\ v.out = q.out /\ v.username = q.username /\ v.password = w.password
    BY <2>1, <2>2 DEF Whole, IsParser, ParserFields
  <2>4. y.part = "pass_read" /\ y.rest = u /\ y.name = name /\ y # Nowhere /\ y = Grow(at, b)
    BY <1>2, <1>3, <1>5, <1>13, PlaceFields
  <2> HIDE DEF y
  <2>5. Strip(y.rest) = u /\ ~EndsCR(y.rest)
    BY <1>3, <1>13, <2>4
  <2>6. Holds(v.password, u) /\ Len(u) = n + 1
    BY <1>1, <1>3, <1>13, <2>1, <2>3 DEF u, r, s
  <2>7. AtPlace(v, y)
    BY <1>1, <1>13, <2>3, <2>4, <2>5, <2>6, AtPassword
  <2>8. ~(at.part = "pass_read" /\ b = LF)
    BY <1>13
  <2>9. Follows(v, q, at, b)
    BY <1>4, <1>13, <2>3, <2>4, <2>7, <2>8, GrowFollows
  <2> QED
    BY <2>9 DEF v
<1> QED
  BY <1>9, <1>10, <1>11, <1>12, <1>13

-----------------------------------------------------------------------------
(* A read *)

\* The automaton and the candidate, side by side.
Together(q, c) ==
    /\ Sane(q) /\ Candidate(c.cand) /\ AtPlace(q, PlaceOf(c.cand)) /\ q.out = c.due

\* They stay together with every byte.
LEMMA FeedTogether ==
    ASSUME NEW q, NEW c, Together(q, c), NEW b \in Byte
    PROVE  Together(dissec_parser_feed(q, b), Follow(c, b))
<1> DEFINE at == PlaceOf(c.cand)
           v == dissec_parser_feed(q, b)
           d == Follow(c, b)
           x == Advance(c.cand, b)
<1>1. Sane(q) /\ Candidate(c.cand) /\ WellPlaced(at) /\ AtPlace(q, at) /\ q.out = c.due
  BY DEF Together, Candidate
<1>2. Follows(v, q, at, b)
  <2>1. q.current = at.part /\ at.part \in States
    BY <1>1 DEF AtPlace, WellPlaced
  <2>2. CASE at.part = "user_word_search"
    BY <1>1, <2>1, <2>2, UserWordFollows DEF dissec_parser_feed
  <2>3. CASE at.part = "user_read"
    BY <1>1, <2>1, <2>3, UserReadFollows DEF dissec_parser_feed
  <2>4. CASE at.part = "pass_word_search"
    BY <1>1, <2>1, <2>4, PassWordFollows DEF dissec_parser_feed
  <2>5. CASE at.part = "pass_read"
    BY <1>1, <2>1, <2>5, PassReadFollows DEF dissec_parser_feed
  <2> QED
    BY <2>1, <2>2, <2>3, <2>4, <2>5 DEF States
<1>3. Sane(v)
  BY <1>1, FeedSane
<1>4. Candidate(x) /\ PlaceOf(x) = Move(at, b)
  BY <1>1, AdvanceMoves
<1>5. Ends(c.cand, b) <=> Printed(at, b)
  <2>1. Full(c.cand) <=> SpentAt(at)
    BY <1>1, FullIs
  <2> QED
    BY <2>1 DEF Ends, Printed
<1>6. d.cand = x /\ d.due = IF Printed(at, b) THEN Append(c.due, Line(at)) ELSE c.due
  BY <1>5 DEF Follow, Line
<1> HIDE DEF at, v, d, x
<1>7. v.out = d.due
  BY <1>1, <1>2, <1>6 DEF Follows
<1>8. AtPlace(v, PlaceOf(d.cand))
  BY <1>2, <1>4, <1>6 DEF Follows
<1>9. Together(v, d)
  BY <1>3, <1>4, <1>6, <1>7, <1>8 DEF Together
<1> QED
  BY <1>9 DEF v, d

\* h is what following the first n bytes makes of the candidate.
FollowsTo(h, c, bytes, n) ==
    h = [k \in 0..n |-> IF k = 0 THEN c ELSE Follow(h[k - 1], bytes[k])]

\* There is one for every number of bytes.
LEMMA FollowsExist ==
    ASSUME NEW c, NEW bytes, NEW n \in Nat PROVE \E h : FollowsTo(h, c, bytes, n)
<1> DEFINE Step(x, k) == Follow(x, bytes[k])
           S == {k \in Nat : ~\E h : FollowsTo(h, c, bytes, k)}
<1>1. S = {}
  <2> SUFFICES ASSUME S # {} PROVE FALSE
    OBVIOUS
  <2>1. PICK m \in S : \A k \in S : m <= k
    BY LeastNat
  <2>2. CASE m = 0
    <3> DEFINE h == [k \in 0..0 |-> c]
    <3>1. \A k \in 0..0 : k = 0
      OBVIOUS
    <3>2. h = [k \in 0..0 |-> IF k = 0 THEN c ELSE Step(h[k - 1], k)]
      BY <3>1
    <3> HIDE DEF h
    <3>3. FollowsTo(h, c, bytes, 0)
      BY <3>2 DEF FollowsTo
    <3> QED
      BY <2>2, <3>3
  <2>3. CASE m # 0
    <3>1. m - 1 \in Nat /\ m - 1 \notin S
      BY <2>1, <2>3
    <3>2. PICK h : FollowsTo(h, c, bytes, m - 1)
      BY <3>1
    <3>3. h = [k \in 0..(m - 1) |-> IF k = 0 THEN c ELSE Step(h[k - 1], k)]
      BY <3>2 DEF FollowsTo
    <3> DEFINE g == [k \in 0..m |-> IF k = m THEN Step(h[m - 1], m) ELSE h[k]]
    <3> HIDE DEF Step
    <3>4. ASSUME NEW k \in 0..m
          PROVE  g[k] = IF k = 0 THEN c ELSE Step(g[k - 1], k)
      <4>1. CASE k = m
        <5>1. g[k - 1] = h[m - 1] /\ k # 0
          BY <2>3, <3>1, <4>1
        <5> QED
          BY <4>1, <5>1
      <4>2. CASE k # m
        <5>1. k \in 0..(m - 1) /\ g[k] = h[k]
          BY <3>1, <4>2
        <5>2. h[k] = IF k = 0 THEN c ELSE Step(h[k - 1], k)
          BY <3>3, <5>1
        <5>3. k # 0 => g[k - 1] = h[k - 1]
          BY <3>1, <5>1
        <5> QED
          BY <5>1, <5>2, <5>3
      <4> QED
        BY <4>1, <4>2
    <3>5. g = [k \in 0..m |-> g[k]]
      OBVIOUS
    <3> HIDE DEF g
    <3>6. g = [k \in 0..m |-> IF k = 0 THEN c ELSE Step(g[k - 1], k)]
      BY <3>4, <3>5
    <3>7. FollowsTo(g, c, bytes, m)
      BY <3>6 DEF FollowsTo, Step
    <3> QED
      BY <2>1, <3>7
  <2> QED
    BY <2>2, <2>3
<1> QED
  BY <1>1

\* They stay together through a read, in which both start over with printing.
LEMMA ReadTogether ==
    ASSUME NEW q, NEW w, Sane(q), Candidate(w), AtPlace(q, PlaceOf(w)), NEW bytes \in Seq(Byte)
    PROVE  Together(dissec_consume(q, bytes), FollowAll([cand |-> w, due |-> << >>], bytes))
<1> DEFINE n == Len(bytes)
           c == [cand |-> w, due |-> << >>]
           g == CHOOSE x : Feeds(x, q, bytes, n)
           h == CHOOSE x : FollowsTo(x, c, bytes, n)
           start == [q EXCEPT !.out = << >>]
           Feed(x, k) == dissec_parser_feed(x, bytes[k])
           Step(x, k) == Follow(x, bytes[k])
           S == {k \in 0..n : ~Together(g[k], h[k])}
<1>1. dissec_consume(q, bytes) = g[n]
  BY DEF dissec_consume, Feeds
<1>2. FollowAll(c, bytes) = h[n]
  BY DEF FollowAll, FollowsTo
<1>3. Feeds(g, q, bytes, n)
  BY FeedsExist
<1>4. FollowsTo(h, c, bytes, n)
  BY FollowsExist
<1> HIDE DEF g, h
<1>5. g = [k \in 0..n |-> IF k = 0 THEN start ELSE Feed(g[k - 1], k)]
  BY <1>3 DEF Feeds
<1>6. h = [k \in 0..n |-> IF k = 0 THEN c ELSE Step(h[k - 1], k)]
  BY <1>4 DEF FollowsTo
<1>7. Together(start, c)
  <2>1. /\ Keeps(q, start) /\ start.current = q.current /\ start.last = q.last
        /\ start.current_index = q.current_index /\ start.out = << >>
    BY DEF Sane, Whole, Keeps, IsParser, ParserFields
  <2>2. c.cand = w /\ c.due = << >>
    OBVIOUS
  <2> HIDE DEF start, c
  <2>3. Strings(start)
    BY <2>1 DEF Sane, Strings, Keeps
  <2>4. Sane(start)
    BY <2>1, <2>3, MoveSane DEF Sane, Whole
  <2>5. AtPlace(start, PlaceOf(w))
    BY <2>1 DEF AtPlace, Keeps
  <2> QED
    BY <2>1, <2>2, <2>4, <2>5 DEF Together
<1>8. \A x, y, k : k \in 1..n /\ Together(x, y) => Together(Feed(x, k), Step(y, k))
  <2> TAKE x, y, k
  <2> SUFFICES ASSUME k \in 1..n, Together(x, y) PROVE Together(Feed(x, k), Step(y, k))
    OBVIOUS
  <2>1. bytes[k] \in Byte
    OBVIOUS
  <2> QED
    BY <2>1, FeedTogether
<1>9. n \in Nat
  OBVIOUS
<1> HIDE DEF start, c, Feed, Step, n
<1>10. S = {}
  <2> SUFFICES ASSUME S # {} PROVE FALSE
    OBVIOUS
  <2>1. S \subseteq Nat
    BY <1>9
  <2>2. PICK m \in S : \A k \in S : m <= k
    BY <2>1, LeastNat
  <2>3. CASE m = 0
    BY <1>5, <1>6, <1>7, <1>9, <2>2, <2>3
  <2>4. CASE m # 0
    <3>1. m - 1 \in 0..n /\ m - 1 \notin S /\ m \in 1..n /\ m \in 0..n
      BY <1>9, <2>2, <2>4
    <3>2. Together(g[m - 1], h[m - 1])
      BY <3>1
    <3>3. g[m] = Feed(g[m - 1], m)
      BY <1>5, <2>4, <3>1
    <3>4. h[m] = Step(h[m - 1], m)
      BY <1>6, <2>4, <3>1
    <3> QED
      BY <1>8, <2>2, <3>1, <3>2, <3>3, <3>4
  <2> QED
    BY <2>3, <2>4
<1>11. n \in 0..n
  BY <1>9
<1>12. Together(g[n], h[n])
  BY <1>10, <1>11
<1> QED
  BY <1>1, <1>2, <1>12 DEF c

-----------------------------------------------------------------------------
(* Progress and reports *)

\* What every reachable state is: the automaton stands where its candidate does
\* and its strings are what it read of it.
DissectorInv == Together(p, [cand |-> cand, due |-> due])

\* A cleared struct stands at the empty candidate.
LEMMA InitTogether == Together(dissec_parser_init, [cand |-> << >>, due |-> << >>])
<1> DEFINE q == dissec_parser_init
           c == [cand |-> << >>, due |-> << >>]
           at == Place("user_word_search", << >>, << >>)
<1>1. /\ q.current = "user_word_search" /\ q.current_index = 0 /\ q.last = FALSE
      /\ q.out = << >>
  BY DEF dissec_parser_init
<1>2. c.cand = << >> /\ c.due = << >>
  OBVIOUS
<1>3. at.part = "user_word_search" /\ Len(at.rest) = 0
  BY PlaceFields, EmptyLine
<1>4. Sane(q)
  BY InitSane
<1> HIDE DEF q, c, at
<1>5. AtPlace(q, at)
  BY <1>1, <1>3 DEF AtPlace
<1>6. Together(q, c)
  BY <1>1, <1>2, <1>4, <1>5, SmallCandidate, SmallPlaces DEF Together, at
<1> QED
  BY <1>6 DEF q, c

\* However the bytes of the two ends interleave and are split into reads, for
\* any words, any length at which a text is given up and any step of growth,
\* the automaton and the candidate stay together (dissec_parser_feed).
THEOREM DissectorInvariant == Spec => []DissectorInv
<1>1. Init => DissectorInv
  BY InitTogether DEF Init, DissectorInv
<1>2. DissectorInv /\ [Next]_vars => DissectorInv'
  <2> SUFFICES ASSUME DissectorInv, [Next]_vars PROVE DissectorInv'
    OBVIOUS
  <2>1. Sane(p) /\ Candidate(cand) /\ AtPlace(p, PlaceOf(cand))
    BY DEF DissectorInv, Together
  <2>2. ASSUME NEW bytes \in BoundedSeq(Byte, MaxRead), copy_read(bytes)
        PROVE  Together(p', [cand |-> cand', due |-> due'])
    <3> DEFINE c == FollowAll([cand |-> cand, due |-> << >>], bytes)
    <3>1. bytes \in Seq(Byte)
      BY SizeAssumption DEF BoundedSeq, SeqOf
    <3>2. Together(p', c)
      BY <2>1, <2>2, <3>1, ReadTogether DEF copy_read
    <3>3. cand' = c.cand /\ due' = c.due
      BY <2>2 DEF copy_read
    <3> HIDE DEF c
    <3> QED
      BY <3>2, <3>3 DEF Together
  <2>3. CASE socks5_new
    BY <2>3, InitTogether DEF socks5_new, DissectorInv
  <2>4. CASE UNCHANGED vars
    BY <2>4 DEF vars, DissectorInv
  <2> QED
    BY <2>2, <2>3, <2>4 DEF Next, DissectorInv
<1> QED
  BY <1>1, <1>2, PTL DEF Spec

\* The automaton is exactly as far as the longest end of the stream that may
\* still become an exchange: what it drops on a mismatch, looking at the last
\* byte alone, could not have been the start of one (dissec_parser_feed,
\* user_read_reset, pass_read_reset).
THEOREM ProgressIsExact == Spec => []ProgressExact
<1>1. DissectorInv => ProgressExact
  <2> SUFFICES ASSUME DissectorInv PROVE ProgressExact
    OBVIOUS
  <2> DEFINE at == PlaceOf(cand)
  <2>1. AtPlace(p, at) /\ WellPlaced(at)
    BY DEF DissectorInv, Together, Candidate
  <2> HIDE DEF at
  <2>2. /\ p.current = at.part
        /\ p.current_index = Len(IF at.part \in {"user_read", "pass_read"}
                                 THEN Strip(at.rest) ELSE at.rest)
    BY <2>1 DEF AtPlace, WellPlaced, States
  <2>3. p.last <=> (at.rest # << >> /\ at.part \in {"user_read", "pass_read"}
                    /\ Last(at.rest) = CR)
    BY <2>1 DEF AtPlace, WellPlaced, States, EndsCR
  <2>4. p.last \in BOOLEAN
    BY <2>1 DEF AtPlace
  <2>5. p.last = (at.rest # << >> /\ at.part \in {"user_read", "pass_read"}
                  /\ Last(at.rest) = CR)
    BY <2>3, <2>4
  <2> QED
    BY <2>2, <2>5 DEF ProgressExact, at
<1> QED
  BY <1>1, DissectorInvariant, PTL

\* A line is printed for each exchange that ends in the stream and for nothing
\* else, with the name and the password that stand in it up to a NUL
\* (pass_read_handler); the line end of a password of the maximal length, which
\* dissec_parser.h allows, prints nothing.
THEOREM ReportsAreExact == Spec => []ReportsExact
<1>1. DissectorInv => ReportsExact
  <2> SUFFICES ASSUME DissectorInv PROVE ReportsExact
    OBVIOUS
  <2> DEFINE at == PlaceOf(cand)
             c == [cand |-> cand, due |-> due]
  <2>1. Together(p, c) /\ WellPlaced(at) /\ p.out = due /\ LF \in Byte
    BY ByteAssumption DEF DissectorInv, Together, Candidate
  <2>2. dissec_parser_feed(p, LF).out = Follow(c, LF).due
    BY <2>1, FeedTogether DEF Together
  <2>3. Follow(c, LF).due = IF Ends(cand, LF) THEN Append(due, Line(at)) ELSE due
    BY DEF Follow, Line
  <2>4. at.part = "pass_read" => (Ends(cand, LF) <=> Len(Strip(at.rest)) # MaxText)
    BY <2>1, FullIs DEF Ends, SpentAt, Spent
  <2> QED
    BY <2>1, <2>2, <2>3, <2>4 DEF ReportsExact, Line
<1> QED
  BY <1>1, DissectorInvariant, PTL

=============================================================================
