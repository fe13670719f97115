---------------------------- MODULE RequestParser ----------------------------
(***************************************************************************)
(* The parser of request_parser.c, which the REQUEST_READ stage feeds one  *)
(* byte at a time, and what request_process makes of its result.  There is *)
(* no state here: Handshake keeps the parser in a variable.                *)
(***************************************************************************)
EXTENDS Integers, Sequences, SequencesExt

CONSTANTS Byte,          \* the values of a byte, 0..255 in the code
          IPV4_LEN, IPV6_LEN, \* bytes of an address, 4 and 16 in the code
          MAX_FQDN_SIZE  \* cells of fqdn.host, 255 in the code

\* The values the parser compares with.
VERSION == 5
socks_req_cmd_connect == 1
socks_req_addrtype_ipv4 == 1
socks_req_addrtype_domain == 3
socks_req_addrtype_ipv6 == 4

ASSUME ByteAssumption == Byte \subseteq 0..255 /\ {0, 1, 3, 4, 5} \subseteq Byte
ASSUME SizesAssumption ==
    {IPV4_LEN, IPV6_LEN, MAX_FQDN_SIZE} \subseteq 1..255

ErrorStates == {"request_error", "request_error_unsupported_cmd",
                "request_error_unsupported_type", "request_error_unsupported_version"}

None == << >>

-----------------------------------------------------------------------------
(* request_parser.c.  A field of bytes is a function from the indices       *)
(* written so far to bytes; malloc leaves the others undefined.             *)

request_parser_init ==
    [state |-> "request_version", remaining |-> 0, read |-> 0,
     type |-> 0, addr |-> None, size |-> 0, port |-> None]

Goto(p, s) == [p EXCEPT !.state = s]
remaining_set(p, n) == [p EXCEPT !.remaining = n, !.read = 0]
remaining_is_done(p) == p.read >= p.remaining
Zeros(n) == [i \in 0..(n - 1) |-> 0]
Store(field, i, b) == [k \in DOMAIN field \cup {i} |-> IF k = i THEN b ELSE field[k]]

version(p, b) ==
    Goto(p, IF b = VERSION THEN "request_cmd" ELSE "request_error_unsupported_version")

cmd(p, b) ==
    Goto(p, IF b = socks_req_cmd_connect THEN "request_rsv" ELSE "request_error_unsupported_cmd")

address_type(p, b) ==
    LET typed == [p EXCEPT !.type = b]
        Address(n) == [remaining_set(typed, n) EXCEPT
                          !.addr = Zeros(n), !.state = "request_dest_addr"]
    IN CASE b = socks_req_addrtype_ipv4   -> Address(IPV4_LEN)
         [] b = socks_req_addrtype_domain -> Goto(typed, "request_dest_addr_fqdn")
         [] b = socks_req_addrtype_ipv6   -> Address(IPV6_LEN)
         [] OTHER -> Goto(typed, "request_error_unsupported_type")

\* The terminator of a name of length 0 goes to host[-1], the last byte of
\* dest_addr_type, which the structure holds in front of the name.
dest_address_fqdn(p, b) ==
    IF b > MAX_FQDN_SIZE - 1
    THEN Goto(p, "request_error")
    ELSE [remaining_set(p, b) EXCEPT
             !.addr = Store(@, b - 1, 0),
             !.size = b,
             !.state = "request_dest_addr"]

\* Mutation: the end of the address is noticed one byte late.
Mut_address_one_more(p, b) ==
    LET q == [p EXCEPT !.addr = Store(@, p.read, b), !.read = (@ + 1) % 256]
    IN IF q.read > q.remaining
       THEN [remaining_set(q, 2) EXCEPT !.port = Zeros(2), !.state = "request_dest_port"]
       ELSE q

\* The byte is stored before the count is looked at, so an empty name takes
\* one byte too.
dest_addr(p, b) ==
    LET q == [p EXCEPT !.addr = Store(@, p.read, b), !.read = (@ + 1) % 256]
    IN IF remaining_is_done(q)
       THEN [remaining_set(q, 2) EXCEPT !.port = Zeros(2), !.state = "request_dest_port"]
       ELSE q

dest_port(p, b) ==
    LET q == [p EXCEPT !.port = Store(@, p.read, b), !.read = (@ + 1) % 256]
    IN IF remaining_is_done(q) THEN Goto(q, "request_done") ELSE q

request_parser_feed(p, b) ==
    CASE p.state = "request_version"        -> version(p, b)
      [] p.state = "request_cmd"            -> cmd(p, b)
      [] p.state = "request_rsv"            -> Goto(p, "request_atyp")
      [] p.state = "request_atyp"           -> address_type(p, b)
      [] p.state = "request_dest_addr"      -> dest_addr(p, b)
      [] p.state = "request_dest_addr_fqdn" -> dest_address_fqdn(p, b)
      [] p.state = "request_dest_port"      -> dest_port(p, b)
      [] OTHER -> p

-----------------------------------------------------------------------------
(* request.c *)

\* Mutation: the loop does not stop at the end of the request.
Mut_consume_all(p, bytes) ==
    [parser |-> FoldLeft(request_parser_feed, p, bytes), taken |-> Len(bytes)]

\* Feeds bytes until the parser is done; an error does not end the loop.
request_consume(p, bytes) ==
    LET run[n \in 0..Len(bytes)] ==
          IF n = 0 THEN [parser |-> p, taken |-> 0]
          ELSE LET before == run[n - 1]
               IN IF before.parser.state = "request_done" THEN before
                  ELSE [parser |-> request_parser_feed(before.parser, bytes[n]), taken |-> n]
    IN run[Len(bytes)]

\* The resolver's thread copies fqdn.size bytes of the name.
ResolverName(p) == [i \in 0..(p.size - 1) |-> p.addr[i]]

\* An IP address goes to connect() with the port set_port put beside it.
Destination(p) ==
    [kind |-> p.type,
     addr |-> IF p.type = socks_req_addrtype_domain THEN ResolverName(p) ELSE p.addr,
     port |-> p.port]

\* The stages request_process may name; without memory for the thread's
\* argument the client gets an error reply.
NextStages(p) ==
    IF p.type = socks_req_addrtype_domain
    THEN {"REQUEST_RESOLV", "REQUEST_WRITE"}
    ELSE {"REQUEST_CONNECTING"}

-----------------------------------------------------------------------------
(* The layout of a request, from the table in request.h. *)

AddrStart(s) == IF s[4] = socks_req_addrtype_domain THEN 6 ELSE 5
AddrLen(s) ==
    CASE s[4] = socks_req_addrtype_ipv4 -> IPV4_LEN
      [] s[4] = socks_req_addrtype_ipv6 -> IPV6_LEN
      [] OTHER -> s[5]
RequestLen(s) == AddrStart(s) + AddrLen(s) + 1

Malformed(s) ==
    \/ Len(s) >= 1 /\ s[1] # VERSION
    \/ Len(s) >= 2 /\ s[2] # socks_req_cmd_connect
    \/ Len(s) >= 4 /\ s[4] \notin {socks_req_addrtype_ipv4, socks_req_addrtype_domain,
                                   socks_req_addrtype_ipv6}
    \/ Len(s) >= 5 /\ s[4] = socks_req_addrtype_domain /\ s[5] >= MAX_FQDN_SIZE

EmptyName(s) == Len(s) >= 5 /\ s[4] = socks_req_addrtype_domain /\ s[5] = 0

\* The cell outside fqdn.host that a request has written.
OutsideHost(s) == IF EmptyName(s) THEN {-1} ELSE {}

\* The bytes n from position k on, as a field.
Field(s, k, n) == [i \in 0..(n - 1) |-> s[k + i]]

=============================================================================
