------------------------------ MODULE Dissector ------------------------------
(***************************************************************************)
(* The password dissector of one connection (dissec_parser.c).  copy_read  *)
(* feeds it what either end sends, in the order the server reads it, and   *)
(* it looks for                                                            *)
(*     user <name> CR LF +OK CR LF pass <password> CR LF                   *)
(* where the CR before a line's LF may be missing.  The automaton is       *)
(* compared with a definition of the longest part of the bytes fed so far  *)
(* that can still become such an exchange.                                 *)
(***************************************************************************)
EXTENDS Integers, Sequences, SequencesExt

CONSTANTS
    Byte,
    CR, LF, NUL, Eight,  \* the two line ends, 0x00, and a byte over 127
    UserWord, PassWord,  \* user_reserved_pop3_word, pass_reserved_pop3_word
    MaxText,             \* the longest user or password by dissec_parser.h, 255
    BUFFER_SIZE,         \* the step in which memory grows, 5
    MaxRead              \* bound: bytes of one copy_read

ASSUME ByteAssumption ==
    /\ {CR, LF, NUL, Eight} \subseteq Byte
    /\ CR # LF /\ Eight \notin {CR, LF}
    /\ UserWord \in Seq(Byte) /\ PassWord \in Seq(Byte)
ASSUME SizeAssumption == {MaxText, BUFFER_SIZE, MaxRead} \subseteq Nat \ {0}
\* No part of either word is the start of another "user ": this is why the
\* automaton may start over by looking at the last byte alone.  No byte of
\* "user " ends a line or is over 127.
ASSUME WordAssumption ==
    /\ Len(UserWord) >= 2 /\ Len(PassWord) >= 1
    /\ \A i \in 1..Len(UserWord) : UserWord[i] \notin {CR, LF, Eight}
    /\ \A i \in 2..Len(UserWord) : UserWord[i] # UserWord[1]
    /\ \A i \in 1..Len(PassWord) : PassWord[i] # UserWord[1]

USER_L == Len(UserWord)
PASS_L == Len(PassWord)
isascii2(b) == b # Eight

VARIABLES p,    \* the struct dissec_parser, with what it printed for this read
          cand, \* history: the candidate, see Advance
          due   \* history: the exchanges that ended within this read

vars == <<p, cand, due>>

-----------------------------------------------------------------------------
(* Memory: a pointer with the cells written behind it.  A pointer that is   *)
(* overwritten while live leaks, which nothing here depends on.             *)

NullPtr == [mem |-> "null", cap |-> 0, cells |-> << >>]
Dangling == [mem |-> "freed", cap |-> 0, cells |-> << >>]

\* free() of field f; a null pointer is fine.
release(q, f) == [q EXCEPT ![f] = Dangling, !.fault = @ \/ q[f].mem = "freed"]

checkSize(ptr, n) ==
    IF n % BUFFER_SIZE # 0 THEN ptr
    ELSE IF n = 0 THEN [mem |-> "live", cap |-> BUFFER_SIZE, cells |-> << >>]
    ELSE [ptr EXCEPT !.cap = n + BUFFER_SIZE]

\* The cells after b is stored in cell n.
Store(cells, n, b) == [k \in DOMAIN cells \cup {n} |-> IF k = n THEN b ELSE cells[k]]

\* checkSize and the store that follows it.
Put(q, f, b) ==
    LET ptr == checkSize(q[f], q.current_index)
    IN [q EXCEPT ![f] = [ptr EXCEPT !.cells = Store(@, q.current_index, b)],
                 !.fault = @ \/ (q[f].mem = "freed" /\ q.current_index # 0)
                             \/ ~(ptr.mem = "live" /\ q.current_index < ptr.cap)]

\* The C string in memory.
Text(ptr) ==
    LET n == CHOOSE i \in DOMAIN ptr.cells :
                 ptr.cells[i] = NUL /\ \A j \in 0..(i - 1) : ptr.cells[j] # NUL
    IN [i \in 1..n |-> ptr.cells[i - 1]]

-----------------------------------------------------------------------------
(* The automaton *)

dissec_parser_init ==
    [current |-> "user_word_search", current_index |-> 0, last |-> FALSE,
     username |-> NullPtr, password |-> NullPtr, fault |-> FALSE, out |-> << >>]

Goto(q, s) == [q EXCEPT !.current = s]

\* Mutation: the byte that ended a candidate cannot begin the next one.
Mut_restart_blind(q, b) ==
    [q EXCEPT !.current = "user_word_search", !.last = FALSE, !.current_index = 0]

\* Starting over: the byte may begin the next "user ".
Restart(q, b) ==
    [q EXCEPT !.current = "user_word_search", !.last = FALSE,
              !.current_index = IF UserWord[1] = b THEN 1 ELSE 0]

\* The index is zero when it is tested, so the name is not freed.
user_read_reset(q, b) == Restart(q, b)

\* Mutation: the password is freed though none was begun.
Mut_pass_read_reset_always(q, b) ==
    Restart(release(release(q, "password"), "username"), b)

pass_read_reset(q, b) ==
    Restart(release(IF q.current_index # 0 THEN release(q, "password") ELSE q, "username"), b)

user_word_search_handler(q, b) ==
    IF UserWord[q.current_index + 1] # b THEN Restart(q, b)
    ELSE IF q.current_index + 1 = USER_L THEN Goto([q EXCEPT !.current_index = 0], "user_read")
    ELSE [q EXCEPT !.current_index = @ + 1]

pass_word_search_handler(q, b) ==
    IF PassWord[q.current_index + 1] # b THEN Restart(release(q, "username"), b)
    ELSE IF q.current_index + 1 = PASS_L THEN Goto([q EXCEPT !.current_index = 0], "pass_read")
    ELSE [q EXCEPT !.current_index = @ + 1]

\* Mutation: a carriage return need not be followed by a line feed.
Mut_user_read_lax(q, b) ==
    IF q.current_index >= MaxText THEN user_read_reset(q, b)
    ELSE CASE b = CR -> [q EXCEPT !.last = TRUE]
           [] b = LF -> Goto([Put(q, "username", NUL) EXCEPT !.current_index = 0, !.last = FALSE],
                             "pass_word_search")
           [] ~isascii2(b) -> user_read_reset(q, b)
           [] OTHER -> [Put(q, "username", b) EXCEPT !.current_index = @ + 1]

user_read_handler(q, b) ==
    IF q.current_index >= MaxText \/ (q.last /\ b # LF) THEN user_read_reset(q, b)
    ELSE CASE b = CR -> [q EXCEPT !.last = TRUE]
           [] b = LF -> Goto([Put(q, "username", NUL) EXCEPT !.current_index = 0, !.last = FALSE],
                             "pass_word_search")
           [] ~isascii2(b) -> user_read_reset(q, b)
           [] OTHER -> [Put(q, "username", b) EXCEPT !.current_index = @ + 1]

\* The report names the two texts.
Report(q) == [q EXCEPT !.out = Append(@, <<Text(q.username), Text(q.password)>>)]

pass_read_handler(q, b) ==
    IF q.current_index >= MaxText \/ (q.last /\ b # LF) THEN pass_read_reset(q, b)
    ELSE CASE b = CR -> [q EXCEPT !.last = TRUE]
           [] b = LF -> pass_read_reset(Report(Put(q, "password", NUL)), b)
           [] ~isascii2(b) -> user_read_reset(q, b)
           [] OTHER -> [Put(q, "password", b) EXCEPT !.current_index = @ + 1]

dissec_parser_feed(q, b) ==
    CASE q.current = "user_word_search" -> user_word_search_handler(q, b)
      [] q.current = "user_read"        -> user_read_handler(q, b)
      [] q.current = "pass_word_search" -> pass_word_search_handler(q, b)
      [] q.current = "pass_read"        -> pass_read_handler(q, b)

\* One byte after the other; what is printed is kept for one read.
dissec_consume(q, bytes) ==
    LET fed[n \in 0..Len(bytes)] ==
          IF n = 0 THEN [q EXCEPT !.out = << >>] ELSE dissec_parser_feed(fed[n - 1], bytes[n])
    IN fed[Len(bytes)]

-----------------------------------------------------------------------------
(* The reference *)

After(w, n) == SubSeq(w, n + 1, Len(w))
Strip(line) == IF line # << >> /\ Last(line) = CR THEN Front(line) ELSE line
FirstOf(w, b) == IF \E i \in 1..Len(w) : w[i] = b
                 THEN CHOOSE i \in 1..Len(w) : w[i] = b /\ \A j \in 1..(i - 1) : w[j] # b
                 ELSE 0

\* A user or a password as dissec_parser.h has it.  One of MaxText bytes is
\* given up at its line end all the same; the shorter ones the automaton can
\* finish.
Plain(s) == \A i \in 1..Len(s) : s[i] \notin {CR, LF, Eight}
IsText(s) == Len(s) <= MaxText /\ Plain(s)
Finishes(s) == IsText(s) /\ Len(s) # MaxText

\* What may be the start of a line.
IsLine(s) == Finishes(Strip(s)) \/ (IsText(s) /\ Len(s) = MaxText)

\* Where a sequence of bytes stands in an exchange: part is the automaton's
\* state for it, rest the bytes of that part, name the finished name.
Nowhere == [part |-> "none", rest |-> << >>, name |-> << >>]
Place(part, rest, name) == [part |-> part, rest |-> rest, name |-> name]
PlaceOf(w) ==
    LET r == After(w, USER_L)
        nl == FirstOf(r, LF)
        name == Strip(SubSeq(r, 1, nl - 1))
        t == After(r, nl)
    IN IF Len(w) < USER_L
       THEN IF IsPrefix(w, UserWord) THEN Place("user_word_search", w, << >>) ELSE Nowhere
       ELSE IF ~IsPrefix(UserWord, w) THEN Nowhere
       ELSE IF nl = 0 THEN IF IsLine(r) THEN Place("user_read", r, << >>) ELSE Nowhere
       ELSE IF ~Finishes(name) THEN Nowhere
       ELSE IF Len(t) < PASS_L
       THEN IF IsPrefix(t, PassWord) THEN Place("pass_word_search", t, name) ELSE Nowhere
       ELSE IF IsPrefix(PassWord, t) /\ IsLine(After(t, PASS_L))
       THEN Place("pass_read", After(t, PASS_L), name)
       ELSE Nowhere

\* The longest end of w that may become an exchange; the empty one may.
Longest(w) ==
    LET k == CHOOSE i \in 1..(Len(w) + 1) :
                 /\ PlaceOf(After(w, i - 1)) # Nowhere
                 /\ \A j \in 1..(i - 1) : PlaceOf(After(w, j - 1)) = Nowhere
    IN After(w, k - 1)

\* A text of MaxText bytes is given up, whatever comes next.
Full(w) == Len(PlaceOf(w).rest) = MaxText /\ PlaceOf(w).part \in {"user_read", "pass_read"}
           /\ IsLine(PlaceOf(w).rest) /\ Strip(PlaceOf(w).rest) = PlaceOf(w).rest
Ends(w, b) == b = LF /\ PlaceOf(w).part = "pass_read" /\ ~Full(w)

\* The candidate after one more byte: an exchange that ends, or a text given
\* up, starts it anew.
Advance(w, b) == Longest(IF Full(w) \/ Ends(w, b) THEN <<b>> ELSE Append(w, b))

UpToNul(s) == IF FirstOf(s, NUL) = 0 THEN s ELSE SubSeq(s, 1, FirstOf(s, NUL) - 1)

Follow(c, b) ==
    [cand |-> Advance(c.cand, b),
     due  |-> IF Ends(c.cand, b)
              THEN Append(c.due, <<UpToNul(PlaceOf(c.cand).name),
                                   UpToNul(Strip(PlaceOf(c.cand).rest))>>)
              ELSE c.due]

\* The history after the bytes of one read.
FollowAll(c, bytes) ==
    LET followed[n \in 0..Len(bytes)] ==
          IF n = 0 THEN c ELSE Follow(followed[n - 1], bytes[n])
    IN followed[Len(bytes)]

-----------------------------------------------------------------------------
(* Specification *)

\* copy_read of either end, while the dissectors are on.
copy_read(bytes) ==
    LET c == FollowAll([cand |-> cand, due |-> << >>], bytes)
    IN /\ p' = dissec_consume(p, bytes)
       /\ cand' = c.cand /\ due' = c.due

\* The struct is cleared for its next connection.
socks5_new ==
    /\ p' = dissec_parser_init
    /\ cand' = << >> /\ due' = << >>

Init == p = dissec_parser_init /\ cand = << >> /\ due = << >>

Next ==
    \/ \E bytes \in BoundedSeq(Byte, MaxRead) \ {<< >>} : copy_read(bytes)
    \/ socks5_new

Spec == Init /\ [][Next]_vars

-----------------------------------------------------------------------------
(* Properties *)

\* However the two ends' bytes interleave and however they are split into
\* reads, the automaton (dissec_parser_feed) is exactly as far as the longest
\* end of the stream that may still become an exchange: nothing it dropped on
\* a mismatch could have been the start of one.
ProgressExact ==
    LET at == PlaceOf(cand)
    IN /\ p.current = at.part
       /\ p.current_index = Len(IF at.part \in {"user_read", "pass_read"}
                                THEN Strip(at.rest) ELSE at.rest)
       /\ p.last = (at.rest # << >> /\ at.part \in {"user_read", "pass_read"}
                    /\ Last(at.rest) = CR)

\* A line is printed for each exchange that ends in the stream and for
\* nothing else, with the name and the password that stand in it up to a NUL
\* (pass_read_handler).  What the header allows and the code does not report is
\* exactly the text of MaxText bytes: at the line end of such a password nothing
\* is printed, and at that of any other the exchange is.
ReportsExact ==
    LET at == PlaceOf(cand)
        password == Strip(at.rest)
    IN /\ p.out = due
       /\ at.part = "pass_read" /\ IsText(password) =>
            dissec_parser_feed(p, LF).out =
                IF Len(password) = MaxText THEN p.out
                ELSE Append(p.out, <<UpToNul(at.name), UpToNul(password)>>)

\* The name and the password are stored within live memory and freed once,
\* however often the search starts over (checkSize, user_read_reset,
\* pass_read_reset).
MemorySafe == ~p.fault

=============================================================================
