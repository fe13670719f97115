------------------------------ MODULE Handshake ------------------------------
(***************************************************************************)
(* One client at the level of bytes, from its connection to the end of its *)
(* request: the greeting (hello.c), the login (authentication.c) and the   *)
(* request of a SOCKS client (request.c) or the command of an              *)
(* administrator (mng_request.c).  recv() returns any number of bytes that *)
(* fit, send() takes any number, and what a client sent ahead of a stage   *)
(* waits in read_buffer.  Proxy and Management take the outcome of each of *)
(* these stages as a choice; allocations that fail are modelled there.     *)
(***************************************************************************)
EXTENDS RequestParser, MyParser

CONSTANTS
    Users, Admins, \* the tables a login is compared with
    RbSize, WbSize, \* bytes of read_buffer and write_buffer, 2048 in the code
    Sendable,      \* bound: Sendable[s], the bytes a client may send in stage s
    MaxText        \* bound: the length of a text in a login or a command

METHOD_NO_AUTHENTICATION_REQUIRED == 0
METHOD_USERNAME_PASSWORD == 2
METHOD_NO_ACCEPTABLE_METHODS == 255
MNG_VERSION == 1
MNG_AUTH_METHOD == METHOD_USERNAME_PASSWORD
USERPASS_METHOD_VERSION == 1

add_user == 10
delete_user == 11
OnOff == {12, 13}  \* disable_auth, disable_password_disectors
Indexes == 0..13   \* those that checkIndex accepts

ReadStages == {"HELLO_READ", "USERPASS_READ", "REQUEST_READ",
               "MNG_REQUEST_READ_INDEX", "MNG_REQUEST_READ"}
WriteStages == {"HELLO_WRITE", "USERPASS_WRITE"}
\* Where this module ends; NULL_READ is a read through a null pointer.
LastStages == {"REQUEST_CONNECTING", "REQUEST_RESOLV", "REQUEST_WRITE", "MNG_REQUEST_WRITE",
               "DONE", "ERROR", "NULL_READ"}

Text == Seq(Byte)
ASSUME TablesAssumption ==
    {Users, Admins} \subseteq Seq([name : Text, pass : Text])
ASSUME BoundsAssumption ==
    /\ RbSize \in Nat \ {0} /\ WbSize \in Nat /\ WbSize >= 2 /\ MaxText \in Nat
    /\ Sendable \in [ReadStages -> SUBSET Byte]

VARIABLES
    isSocks, auth_method, \* which service, and its setting at the connection
    stage,
    parser,         \* the parser of the stage
    rb, wb,         \* the buffers: pending bytes, and the write pointer
    authentication, \* the verdict on the login
    result,         \* what the request or the command asks for
    fed,            \* history: the bytes the stage's parser took
    got             \* history: what was sent since the last recv()

vars == <<isSocks, auth_method, stage, parser, rb, wb, authentication, result, fed, got>>
connection == <<isSocks, auth_method>>

-----------------------------------------------------------------------------
(* Buffers.  Module Buffer has their detail; here the write pointer goes    *)
(* back to the start when nothing is pending.                               *)

Empty == [bytes |-> << >>, write |-> 0]
Pend(bytes, write) == IF bytes = << >> THEN Empty ELSE [bytes |-> bytes, write |-> write]
Written(b, bytes) == Pend(b.bytes \o bytes, b.write + Len(bytes))
Sent(b, n) == Pend(SubSeq(b.bytes, n + 1, Len(b.bytes)), b.write)
Room == RbSize - rb.write

\* A stage is entered with its parser; the bytes sent ahead stay.
Enters(s, p) == stage' = s /\ parser' = p /\ fed' = << >>

\* A recv() of data, of which and of what was pending consumption r took a part.
Receives(r, data) ==
    LET bytes == rb.bytes \o data
    IN /\ rb' = Pend(SubSeq(bytes, r.taken + 1, Len(bytes)), rb.write + Len(data))
       /\ got' = << >>
Taken(r, data) == SubSeq(rb.bytes \o data, 1, r.taken)

-----------------------------------------------------------------------------
(* hello.c *)

Version == IF isSocks THEN VERSION ELSE MNG_VERSION
Wanted == IF isSocks THEN auth_method ELSE MNG_AUTH_METHOD

hello_read_init(version_, wanted) ==
    [state |-> "hello_version", remaining |-> 0, version |-> version_, wanted |-> wanted,
     method |-> METHOD_NO_ACCEPTABLE_METHODS]

on_hello_method(p, b) == IF p.wanted = b THEN [p EXCEPT !.method = b] ELSE p

hello_methods(p, b) ==
    LET q == on_hello_method(p, b)
    IN [q EXCEPT !.remaining = @ - 1,
                 !.state = IF p.remaining = 1 THEN "hello_done" ELSE @]

\* Mutation: a greeting without methods waits for one.
Mut_hello_waits(p, b) ==
    CASE p.state = "hello_version" ->
           [p EXCEPT !.state = IF b = p.version THEN "hello_nmethods"
                                                ELSE "hello_error_unsupported_version"]
      [] p.state = "hello_nmethods" -> [p EXCEPT !.remaining = b, !.state = "hello_methods"]
      [] p.state = "hello_methods" -> hello_methods(p, b)
      [] OTHER -> p

hello_parser_feed(p, b) ==
    CASE p.state = "hello_version" ->
           [p EXCEPT !.state = IF b = p.version THEN "hello_nmethods"
                                                ELSE "hello_error_unsupported_version"]
      [] p.state = "hello_nmethods" ->
           [p EXCEPT !.remaining = b, !.state = IF b = 0 THEN "hello_done" ELSE "hello_methods"]
      [] p.state = "hello_methods" -> hello_methods(p, b)
      [] OTHER -> p

hello_is_done(p) == p.state \in {"hello_done", "hello_error_unsupported_version"}

hello_consume(p, bytes) ==
    LET run[n \in 0..Len(bytes)] ==
          IF n = 0 THEN [parser |-> p, taken |-> 0]
          ELSE LET before == run[n - 1]
               IN IF hello_is_done(before.parser) THEN before
                  ELSE [parser |-> hello_parser_feed(before.parser, bytes[n]), taken |-> n]
    IN run[Len(bytes)]

hello_marshal(p) == <<Version, p.method>>

\* The reply is marshalled for a wrong version too, and not sent.
hello_read(data) ==
    /\ stage = "HELLO_READ"
    /\ LET r == hello_consume(parser, rb.bytes \o data)
       IN /\ Receives(r, data)
          /\ parser' = r.parser
          /\ fed' = fed \o Taken(r, data)
          /\ wb' = IF hello_is_done(r.parser) THEN Written(wb, hello_marshal(r.parser)) ELSE wb
          /\ stage' = CASE r.parser.state = "hello_done" -> "HELLO_WRITE"
                        [] r.parser.state = "hello_error_unsupported_version" -> "ERROR"
                        [] OTHER -> stage
    /\ UNCHANGED <<connection, authentication, result>>

\* The stage after the handshake: a request, or the index of a command.
checkVersion == {USERPASS_METHOD_VERSION}
checkIndex == Indexes
EntersRequest ==
    IF isSocks THEN Enters("REQUEST_READ", request_parser_init)
    ELSE Enters("MNG_REQUEST_READ_INDEX", parser_init(<<OneByte(checkIndex)>>))

auth_read_init == parser_init(<<OneByte(checkVersion), Count, Counted, Count, Counted>>)

\* send() took n bytes.
Sends(b, n) ==
    /\ wb' = Sent(b, n)
    /\ got' = got \o SubSeq(b.bytes, 1, n)

hello_write(n) ==
    /\ stage = "HELLO_WRITE" /\ n <= Len(wb.bytes)
    /\ Sends(wb, n)
    /\ \/ n < Len(wb.bytes) /\ UNCHANGED <<stage, parser, fed>>
       \/ /\ n = Len(wb.bytes)
          /\ CASE parser.method = METHOD_NO_ACCEPTABLE_METHODS ->
                    stage' = "DONE" /\ UNCHANGED <<parser, fed>>
               [] parser.method = METHOD_NO_AUTHENTICATION_REQUIRED -> EntersRequest
               [] parser.method = METHOD_USERNAME_PASSWORD ->
                    Enters("USERPASS_READ", auth_read_init)
    /\ UNCHANGED <<connection, rb, authentication, result>>

-----------------------------------------------------------------------------
(* authentication.c *)

\* checkCredentials and checkMngCredentials; the index the first one keeps is
\* the subject of Management.
checkCredentials(name, pass) ==
    LET table == IF isSocks THEN Users ELSE Admins
    IN IF \E i \in 1..Len(table) : table[i].name = name /\ table[i].pass = pass THEN 0 ELSE 1

\* bound
WithinBound(p) == \A i \in 1..Len(p.states) : p.states[i].size <= MaxText

\* With a wrong version the texts are null pointers when they are compared
\* with the table's.
auth_read(data) ==
    /\ stage = "USERPASS_READ"
    /\ LET r == consume(parser, rb.bytes \o data)
           table == IF isSocks THEN Users ELSE Admins
       IN /\ WithinBound(r.parser)
          /\ Receives(r, data)
          /\ parser' = r.parser
          /\ fed' = fed \o Taken(r, data)
          /\ stage' = CASE r.parser.current = "done_read" -> "USERPASS_WRITE"
                        [] r.parser.current = "error_read" ->
                             IF table = << >> THEN "ERROR" ELSE "NULL_READ"
                        [] OTHER -> stage
          /\ authentication' =
                CASE r.parser.current = "done_read" ->
                       checkCredentials(CString(r.parser, 3), CString(r.parser, 5))
                  [] r.parser.current = "error_read" /\ table = << >> -> 1
                  [] OTHER -> authentication
    /\ UNCHANGED <<connection, wb, result>>

auth_reply(b, verdict) ==
    IF WbSize - b.write < 2 THEN b ELSE Written(b, <<USERPASS_METHOD_VERSION, verdict>>)

\* Mutation: the stage ends with the first send.
Mut_auth_write_early(n) ==
    LET b == auth_reply(wb, authentication)
    IN /\ stage = "USERPASS_WRITE" /\ n <= Len(b.bytes)
       /\ Sends(b, n)
       /\ IF authentication = 0 THEN EntersRequest
          ELSE stage' = "DONE" /\ UNCHANGED <<parser, fed>>
       /\ UNCHANGED <<connection, rb, authentication, result>>

\* Every call marshals the reply again, if it fits.
auth_write(n) ==
    LET b == auth_reply(wb, authentication)
    IN /\ stage = "USERPASS_WRITE" /\ n <= Len(b.bytes)
       /\ Sends(b, n)
       /\ \/ n < Len(b.bytes) /\ UNCHANGED <<stage, parser, fed>>
          \/ n = Len(b.bytes) /\ authentication = 0 /\ EntersRequest
          \/ n = Len(b.bytes) /\ authentication # 0 /\ stage' = "DONE" /\ UNCHANGED <<parser, fed>>
       /\ UNCHANGED <<connection, rb, authentication, result>>

-----------------------------------------------------------------------------
(* request.c.  What the parser ignores after an error is not kept in fed.   *)

request_read(data) ==
    /\ stage = "REQUEST_READ"
    /\ LET r == request_consume(parser, rb.bytes \o data)
       IN /\ Receives(r, data)
          /\ parser' = r.parser
          /\ fed' = IF parser.state \in ErrorStates THEN fed ELSE fed \o Taken(r, data)
          /\ IF r.parser.state = "request_done"
             THEN /\ stage' \in NextStages(r.parser)
                  /\ result' = IF stage' = "REQUEST_WRITE" THEN result ELSE Destination(r.parser)
             ELSE UNCHANGED <<stage, result>>
    /\ UNCHANGED <<connection, wb, authentication>>

-----------------------------------------------------------------------------
(* mng_request.c *)

\* Mutation: deleting a user shares the case of adding one.
Mut_init_shared(index) ==
    parser_init(IF index \in OnOff THEN <<OneByte({})>> ELSE <<Count, Counted, Count, Counted>>)

mng_request_init(index) ==
    parser_init(CASE index = add_user    -> <<Count, Counted, Count, Counted>>
                  [] index = delete_user -> <<Count, Counted>>
                  [] OTHER               -> <<OneByte({})>>)

\* One byte is received, behind those that were sent ahead: the first of them
\* all is the index.
mng_request_index_read(data) ==
    /\ stage = "MNG_REQUEST_READ_INDEX" /\ Len(data) = 1
    /\ LET r == consume(parser, rb.bytes \o data)
           index == r.parser.states[1].result[0]
       IN /\ Receives(r, data)
          /\ result' = [index |-> index, texts |-> << >>]
          /\ IF index \in {add_user, delete_user} \cup OnOff
             THEN Enters("MNG_REQUEST_READ", mng_request_init(index))
             ELSE stage' = "MNG_REQUEST_WRITE" /\ parser' = r.parser /\ fed' = Taken(r, data)
    /\ UNCHANGED <<connection, wb, authentication>>

\* No room is a server error here, and the end of the stream elsewhere.
mng_request_index_full ==
    /\ stage = "MNG_REQUEST_READ_INDEX" /\ Room = 0
    /\ stage' = "MNG_REQUEST_WRITE"
    /\ UNCHANGED <<connection, parser, rb, wb, authentication, result, fed, got>>

\* What process_mng_params_request takes from its parser.
Params(p, index) ==
    CASE index = add_user    -> <<CString(p, 2), CString(p, 4)>>
      [] index = delete_user -> <<CString(p, 2)>>
      [] OTHER               -> <<p.states[1].result[0]>>

mng_request_read(data) ==
    /\ stage = "MNG_REQUEST_READ"
    /\ LET r == consume(parser, rb.bytes \o data)
       IN /\ WithinBound(r.parser)
          /\ Receives(r, data)
          /\ parser' = r.parser
          /\ fed' = fed \o Taken(r, data)
          /\ IF is_done(r.parser)
             THEN /\ stage' = "MNG_REQUEST_WRITE"
                  /\ result' = [result EXCEPT !.texts = Params(r.parser, result.index)]
             ELSE UNCHANGED <<stage, result>>
    /\ UNCHANGED <<connection, wb, authentication>>

-----------------------------------------------------------------------------
(* Specification *)

\* recv() returned 0, as it does with no room, or -1.
read_end ==
    /\ stage \in ReadStages /\ ~(stage = "MNG_REQUEST_READ_INDEX" /\ Room = 0)
    /\ stage' = "ERROR"
    /\ UNCHANGED <<connection, parser, rb, wb, authentication, result, fed, got>>

\* send() returned -1.
write_fails ==
    /\ stage \in WriteStages
    /\ stage' = "ERROR"
    /\ wb' = IF stage = "USERPASS_WRITE" THEN auth_reply(wb, authentication) ELSE wb
    /\ UNCHANGED <<connection, parser, rb, authentication, result, fed, got>>

\* The later stages are the subject of Proxy and Management.
Left == stage \in LastStages /\ UNCHANGED vars

Init ==
    /\ isSocks \in BOOLEAN
    /\ auth_method \in {METHOD_NO_AUTHENTICATION_REQUIRED, METHOD_USERNAME_PASSWORD}
    /\ stage = "HELLO_READ"
    /\ parser = hello_read_init(Version, Wanted)
    /\ rb = Empty /\ wb = Empty
    /\ authentication = 0
    /\ result = None /\ fed = << >> /\ got = << >>

Next ==
    \/ /\ stage \in ReadStages
       /\ \E data \in BoundedSeq(Sendable[stage], Room) \ {<< >>} :
             \/ hello_read(data)
             \/ auth_read(data)
             \/ request_read(data)
             \/ mng_request_index_read(data)
             \/ mng_request_read(data)
    \/ \E n \in 1..WbSize : hello_write(n) \/ auth_write(n)
    \/ mng_request_index_full
    \/ read_end
    \/ write_fails
    \/ Left

Spec == Init /\ [][Next]_vars

-----------------------------------------------------------------------------
(* The layout of the messages *)

First(s, n) == SubSeq(s, 1, n)
UpToNul(s) ==
    LET nul == {i \in 1..Len(s) : s[i] = 0}
    IN IF nul = {} THEN s ELSE First(s, (CHOOSE i \in nul : \A j \in nul : i <= j) - 1)

\* The text whose count stands at position k, and the position after it.
TextAt(s, k) == SubSeq(s, k + 1, k + s[k])
After(s, k) == k + s[k] + 1
EndsText(s, k) == Len(s) >= k /\ Len(s) + 1 = After(s, k)
EndsTwoTexts(s, k) == Len(s) >= k /\ Len(s) >= After(s, k) /\ EndsText(s, After(s, k))

WholeGreeting(s) == EndsText(s, 2)
WholeLogin(s) == EndsTwoTexts(s, 2)
WholeParams(s) == CASE result.index = add_user    -> EndsTwoTexts(s, 1)
                    [] result.index = delete_user -> EndsText(s, 1)
                    [] OTHER -> Len(s) = 1
\* s has no message at its start.
Short(s, Whole(_)) == \A n \in 0..Len(s) : ~Whole(First(s, n))

\* m, once or several times.
Repeats(s, m) ==
    /\ Len(s) > 0 /\ Len(s) % Len(m) = 0
    /\ \A i \in 1..Len(s) : s[i] = m[((i - 1) % Len(m)) + 1]

-----------------------------------------------------------------------------
(* Properties *)

\* However the greeting is cut and whatever follows it, it is answered at its
\* last byte (hello_consume), and the answer is the method this service wants
\* exactly when the client offers it (on_hello_method).
GreetingExact ==
    /\ stage = "HELLO_READ" => Short(fed, WholeGreeting)
    /\ stage = "HELLO_WRITE" =>
         /\ WholeGreeting(fed) /\ fed[1] = Version
         /\ parser.method = IF \E i \in 3..Len(fed) : fed[i] = Wanted
                            THEN Wanted ELSE METHOD_NO_ACCEPTABLE_METHODS

\* The login is judged at its last byte (consume), and granted exactly when
\* the table holds the name and the password that stand in it up to a NUL
\* (auth_process), with bytes sent ahead in front of it or not.
LoginExact ==
    /\ stage = "USERPASS_READ" => Short(fed, WholeLogin)
    /\ stage = "USERPASS_WRITE" =>
         /\ WholeLogin(fed) /\ fed[1] = USERPASS_METHOD_VERSION
         /\ (authentication = 0) <=>
               \E i \in 1..Len(IF isSocks THEN Users ELSE Admins) :
                  (IF isSocks THEN Users ELSE Admins)[i] =
                     [name |-> UpToNul(TextAt(fed, 2)), pass |-> UpToNul(TextAt(fed, After(fed, 2)))]

\* A command runs at its last byte with the parameters that stand in it up to
\* a NUL (process_mng_params_request).
CommandExact ==
    /\ stage = "MNG_REQUEST_READ" => Short(fed, WholeParams)
    /\ stage = "MNG_REQUEST_WRITE" /\ result # None /\ result.texts # << >> =>
         /\ WholeParams(fed)
         /\ result.texts =
               CASE result.index = add_user -> <<UpToNul(TextAt(fed, 1)),
                                                 UpToNul(TextAt(fed, After(fed, 1)))>>
                 [] result.index = delete_user -> <<UpToNul(TextAt(fed, 1))>>
                 [] OTHER -> fed

\* However send() splits them, a client gets the whole greeting's answer once,
\* then whole copies of one verdict, before the next stage begins (hello_write,
\* auth_write).  Several copies are possible.
RepliesExact ==
    LET sent == got \o wb.bytes
        answer == <<Version, METHOD_USERNAME_PASSWORD>>
    IN CASE stage = "HELLO_WRITE"    -> sent = <<Version, parser.method>>
         [] stage = "USERPASS_READ"  -> sent \in {<< >>, answer}
         [] stage = "USERPASS_WRITE" -> sent = << >> \/ Repeats(sent, <<1, authentication>>)
         [] stage \in {"REQUEST_READ", "MNG_REQUEST_READ_INDEX"} ->
              \/ sent = << >>
              \/ isSocks /\ auth_method = 0 /\ sent = <<Version, 0>>
              \/ Wanted = METHOD_USERNAME_PASSWORD /\ Repeats(sent, <<1, 0>>)
         [] stage = "DONE" -> sent = <<Version, METHOD_NO_ACCEPTABLE_METHODS>>
                              \/ Repeats(sent, <<1, 1>>)
         [] OTHER -> TRUE

\* However recv() splits the bytes, and with any bytes sent ahead, the parser
\* (request_parser_feed, request_consume) stops exactly at the last byte of a
\* request, and is in an error state exactly when the bytes so far cannot
\* begin one.  It leaves REQUEST_READ, for an answer or a connection, with the
\* complete ones alone: a client whose command or address type is refused stays
\* there unanswered (request_is_done).  Requests with an empty name are
\* excepted: dest_addr takes a byte of their port as the name.
VerdictExact ==
    stage \in {"REQUEST_READ", "REQUEST_CONNECTING", "REQUEST_RESOLV", "REQUEST_WRITE"} =>
        \/ EmptyName(fed)
        \/ /\ (parser.state \in ErrorStates) <=> Malformed(fed)
           /\ LET complete == ~Malformed(fed) /\ Len(fed) >= 5 /\ Len(fed) >= RequestLen(fed)
              IN /\ (parser.state = "request_done") <=> complete
                 /\ complete => Len(fed) = RequestLen(fed)
                 /\ stage # "REQUEST_READ" <=> complete

\* connect() and getaddrinfo() are asked for the address and the port that
\* stand in the request (request_process, request_resolv_blocking), whatever
\* the split.  Empty names are excepted as above.
TargetExact ==
    stage \in {"REQUEST_CONNECTING", "REQUEST_RESOLV"} /\ ~EmptyName(fed) =>
        result = [kind |-> fed[4],
                  addr |-> Field(fed, AddrStart(fed), AddrLen(fed)),
                  port |-> Field(fed, AddrStart(fed) + AddrLen(fed), 2)]

\* Both together: a request is decoded exactly.
RequestExact == VerdictExact /\ TargetExact

\* dest_addr, dest_port and parser_feed store through an index that only 8-bit
\* counters bound: every store falls within the field, or the memory, of its
\* text, but for one, the terminator of an empty name (dest_address_fqdn), and
\* that one is the cell before the name and no other.  Neither do the buffers
\* overflow, repeated verdicts included.
StoresInField ==
    /\ Len(rb.bytes) <= rb.write /\ rb.write <= RbSize
    /\ Len(wb.bytes) <= wb.write /\ wb.write <= WbSize
    /\ stage = "REQUEST_READ" =>
         /\ DOMAIN parser.addr \subseteq OutsideHost(fed) \cup
               0..((CASE parser.type = socks_req_addrtype_ipv4 -> IPV4_LEN
                      [] parser.type = socks_req_addrtype_ipv6 -> IPV6_LEN
                      [] OTHER -> MAX_FQDN_SIZE) - 1)
         /\ DOMAIN parser.port \subseteq 0..1
    /\ stage \in {"USERPASS_READ", "MNG_REQUEST_READ"} =>
         \A i \in 1..Len(parser.states) :
            DOMAIN parser.states[i].result \subseteq 0..parser.states[i].size

=============================================================================
