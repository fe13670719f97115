----------------------------- MODULE Management -----------------------------
(***************************************************************************)
(* The management service: clientM16 processes, the sessions that serve    *)
(* them (mng_nio.c, mng_request.c and the handshake they share with SOCKS) *)
(* and what their commands change under running SOCKS sessions: the users  *)
(* table, the authentication method and the dissectors' switch.            *)
(*                                                                         *)
(* A message is an atom: hello.c and myParser.c are the subject of         *)
(* Handshake.  A client speaks in lock step, so each direction of its      *)
(* connection holds at most one message.                                   *)
(***************************************************************************)
EXTENDS Integers, Sequences, SequencesExt, FiniteSets

CONSTANTS
    Names, Passes, \* what an account may be made of
    MAX_USERS,     \* entries of users[], 255 in the code
    Block,         \* what malloc() may return for an account's two strings
    NameLen,       \* NameLen[n]: strlen of a name
    wb_size,       \* bytes of write_buffer, 2048 in the code
    recv_size,     \* bytes the client's one recv() of an answer takes, 500 in the code
    Mng, Socks,    \* management and SOCKS connections
    OutOfMemory,   \* whether malloc() may fail while a session is served
    NULL, Free, Nobody \* no pointer, a block not in use, nobody logged in

ASSUME MaxUsersAssumption == MAX_USERS \in Nat \ {0}
ASSUME BlockAssumption == IsFiniteSet(Block) /\ Cardinality(Block) >= MAX_USERS
ASSUME NullAssumption == NULL \notin Block
ASSUME NameLenAssumption == NameLen \in [Names -> Nat]
ASSUME SizeAssumption == wb_size \in Nat /\ wb_size >= 2
ASSUME RecvAssumption == recv_size \in Nat
ASSUME MemoryAssumption == OutOfMemory \in BOOLEAN

Account == [name : Names, pass : Passes]
ASSUME NobodyAssumption == Nobody \notin Account /\ Free \notin Account

VARIABLES
    users,    \* users[i]: the block of entry i
    nusers,
    heap,     \* heap[b]: the strings in block b
    auth_method, password_dissectors,
    mng,      \* mng[c]: a clientM16 process and its session
    socks,    \* socks[s]: a SOCKS connection
    stopped   \* "no", or why the process died

vars == <<users, nusers, heap, auth_method, password_dissectors, mng, socks, stopped>>
table == <<users, nusers, heap>>
settings == <<auth_method, password_dissectors>>

Slots == 0..(MAX_USERS - 1)

-----------------------------------------------------------------------------
(* The users table.  T is a record of users, nusers and heap. *)

Table == [users |-> users, nusers |-> nusers, heap |-> heap]
SetTable(T) == users' = T.users /\ nusers' = T.nusers /\ heap' = T.heap
Live(T) == 0..(T.nusers - 1)
Entry(T, i) == T.heap[T.users[i]]

\* b is the block malloc() returned.
addUser(T, u, b) ==
    IF T.nusers >= MAX_USERS THEN T
    ELSE [users  |-> [T.users EXCEPT ![T.nusers] = b],
          nusers |-> T.nusers + 1,
          heap   |-> [T.heap EXCEPT ![b] = u]]

First(T, n) == CHOOSE i \in Live(T) :
    Entry(T, i).name = n /\ \A j \in 0..(i - 1) : Entry(T, j).name # n

\* Mutation: the count is not lowered.
Mut_delete_keeps_count(T, n) ==
    IF \A i \in Live(T) : Entry(T, i).name # n THEN T
    ELSE LET k == First(T, n)
         IN [users  |-> [i \in Slots |-> IF i \in k..(T.nusers - 2) THEN T.users[i + 1]
                                         ELSE IF i = k THEN NULL ELSE T.users[i]],
             nusers |-> T.nusers,
             heap   |-> [T.heap EXCEPT ![T.users[k]] = Free]]

\* The first entry of that name is freed and those after it move down; the
\* slot of the last one keeps its pointers.
deleteUser(T, n) ==
    IF \A i \in Live(T) : Entry(T, i).name # n THEN T
    ELSE LET k == First(T, n)
         IN [users  |-> [i \in Slots |-> IF i \in k..(T.nusers - 2) THEN T.users[i + 1]
                                         ELSE IF i = k THEN NULL ELSE T.users[i]],
             nusers |-> T.nusers - 1,
             heap   |-> [T.heap EXCEPT ![T.users[k]] = Free]]

\* list_users_mng_request_marshall: the room it asks for is that of the names
\* alone, what it writes has a length before each one too.
NamesLen(T) == FoldLeft(LAMBDA sum, i : sum + NameLen[Entry(T, i - 1).name],
                        0, [i \in 1..T.nusers |-> i])
ListChecked(T) == NamesLen(T) <= wb_size - 2
ListWritten(T) == 2 + NamesLen(T) + T.nusers

-----------------------------------------------------------------------------
(* Commands: an index and its parameters.  "metric" stands for the eight     *)
(* indexes that return a counter, "bad" for an index out of range.           *)

Queries == {"supported", "list", "metric"}
Command == [op : {"add"}, user : Account]
    \cup [op : {"delete"}, name : Names]
    \cup [op : {"auth", "dissectors"}, off : BOOLEAN]
    \cup [op : Queries \cup {"bad"}]
NoCommand == [op |-> "none"]

\* A session: st is the stage of its state machine, in what the client sent
\* and the server did not read, reply what write_buffer holds, out how much
\* of it the client may read, extra whether a repeated login reply lies ahead
\* of the answer.  Of the client: cl is what it waits for, who its
\* credentials, told what it printed.  did is history: the command was run.
Ended == [st |-> "CLOSED", cl |-> "over", who |-> "anonymous", cmd |-> NoCommand,
          in |-> "none", reply |-> "none", out |-> "none", extra |-> FALSE,
          did |-> FALSE, told |-> "nothing"]

CommandStages == {"MNG_REQUEST_READ_INDEX", "MNG_REQUEST_READ", "MNG_REQUEST_WRITE"}
ReadStages == {"MNG_HELLO_READ", "MNG_USERPASS_READ", "MNG_REQUEST_READ_INDEX",
               "MNG_REQUEST_READ"}
Waits == {"method", "verdict", "answer"}

\* Record r with new values for some of its fields.
With(r, fields) == [x \in DOMAIN r |-> IF x \in DOMAIN fields THEN fields[x] ELSE r[x]]

Running == stopped = "no"
Dies(why) == stopped' = why /\ UNCHANGED <<table, settings, mng, socks>>
Session(c, fields) == mng' = [mng EXCEPT ![c] = With(@, fields)]
Only(c, fields) == Session(c, fields) /\ UNCHANGED <<table, settings, socks, stopped>>

-----------------------------------------------------------------------------
(* clientM16 (client.c, clientUtils.c) *)

Gone(c) == mng[c].cl = "over"
Hears(c) == mng[c].out # "none"
\* recv() at the client returns no byte: the server closed, or died.
Cut(c) == ~Hears(c) /\ (mng[c].st = "CLOSED" \/ ~Running)
Quits(c) == Only(c, [cl |-> "over"])

\* connect() and handshake().
client_start(c) ==
    /\ Running /\ mng[c].st = "CLOSED" /\ Gone(c)
    /\ \E w \in {"anonymous", "wrong", "right"} :
         mng' = [mng EXCEPT ![c] = With(Ended, [st |-> "BACKLOG", cl |-> "method", who |-> w,
                                                in |-> "greeting"])]
    /\ UNCHANGED <<table, settings, socks, stopped>>

\* A reply that did not arrive whole ends the client; the credentials are
\* sent only if the server asks for them.
handshake_response(c) ==
    /\ mng[c].cl = "method"
    /\ \/ Hears(c) /\ mng[c].out = "whole" /\ mng[c].reply # "refused"
          /\ Only(c, [cl |-> "verdict", out |-> "none",
                      in |-> IF mng[c].reply = "user" THEN "login" ELSE "none"])
       \/ Hears(c) /\ (mng[c].out = "part" \/ mng[c].reply = "refused") /\ Quits(c)
       \/ Cut(c) /\ Quits(c)

\* credentials_response and send_request; an on/off option that is neither
\* ends the client.
credentials_response(c) ==
    /\ mng[c].cl = "verdict"
    /\ \/ Hears(c) /\ mng[c].out = "whole" /\ mng[c].reply = "granted"
          /\ \/ \E cmd \in Command :
                  Only(c, [cl |-> "answer", in |-> "request", out |-> "none", cmd |-> cmd])
             \/ Quits(c)
       \/ Hears(c) /\ (mng[c].out = "part" \/ mng[c].reply # "granted") /\ Quits(c)
       \/ Cut(c) /\ Quits(c)

\* One recv(), whose result is not looked at.  What the answer says beyond
\* the bytes it brought is read from whatever the buffer held ("garbled"), and
\* with no byte at all so is the status ("noise").  A repeated login reply
\* begins with 0x01, which reads as a server error.
request_response(c) ==
    /\ mng[c].cl = "answer"
    /\ \/ Hears(c) /\ ~mng[c].extra
          /\ Only(c, [cl |-> "over", out |-> "none",
                      told |-> IF mng[c].reply \notin {"ok", "long"} THEN "error"
                               ELSE IF mng[c].reply = "long" \/ mng[c].out = "part"
                               THEN "garbled" ELSE "ok"])
       \/ mng[c].extra /\ Only(c, [cl |-> "over", out |-> "none", told |-> "error"])
       \/ Cut(c) /\ ~mng[c].extra /\ Only(c, [cl |-> "over", told |-> "noise"])

client_killed(c) == ~Gone(c) /\ Quits(c)

-----------------------------------------------------------------------------
(* The server's side of a session *)

Closed(c) == Only(c, [st |-> "CLOSED"])  \* mng_done

\* accept() may fail, for want of descriptors, which leaves the connection in
\* the backlog; what comes after it may fail too, and closes the connection.
mng_passive_accept(c) ==
    /\ Running /\ mng[c].st = "BACKLOG"
    /\ Only(c, [st |-> "MNG_HELLO_READ"]) \/ Closed(c) \/ UNCHANGED vars

Reading(c, st, msg) == Running /\ mng[c].st = st /\ mng[c].in = msg

\* recv() returns 0 or an error.
peer_closed(c) ==
    /\ Running /\ mng[c].st \in ReadStages
    /\ mng[c].in = "none" /\ Gone(c)
    /\ Closed(c)

\* Mutation: the greeting is answered by the setting for SOCKS clients.
Mut_hello_read_setting(c) ==
    /\ Reading(c, "MNG_HELLO_READ", "greeting")
    /\ \/ Only(c, [st |-> "MNG_HELLO_WRITE", in |-> "none",
                   reply |-> IF auth_method = "none" THEN "no_auth"
                             ELSE IF mng[c].who = "anonymous" THEN "refused" ELSE "user"])
       \/ OutOfMemory /\ Closed(c)

\* An administrator has to log in whatever auth_method says.
hello_read(c) ==
    /\ Reading(c, "MNG_HELLO_READ", "greeting")
    /\ \/ Only(c, [st |-> "MNG_HELLO_WRITE", in |-> "none",
                   reply |-> IF mng[c].who = "anonymous" THEN "refused" ELSE "user"])
       \/ OutOfMemory /\ Closed(c)

\* Leaving the stage after a failed allocation frees pointers that were never
\* set, which may end the process.
auth_read(c) ==
    /\ Reading(c, "MNG_USERPASS_READ", "login")
    /\ \/ Only(c, [st |-> "MNG_USERPASS_WRITE", in |-> "none",
                   reply |-> IF mng[c].who = "right" THEN "granted" ELSE "denied"])
       \/ OutOfMemory /\ (Closed(c) \/ Dies("memory"))

\* send() of the pending bytes: all of them, or some if there are several,
\* or an error.  next is where the session goes with the last byte.
Multibyte(c) == mng[c].reply \notin {"empty", "server_error", "index_not_supported",
                                     "max_users_reached"}
                /\ ~(mng[c].reply = "ok" /\ mng[c].cmd.op \notin Queries)
Sending(c, st, next) ==
    /\ Running /\ mng[c].st = st
    /\ \/ Only(c, [st |-> next, out |-> IF mng[c].reply = "empty" THEN "none" ELSE "whole"])
       \/ Multibyte(c) /\ mng[c].out = "none" /\ Only(c, [out |-> "part"])
       \/ Gone(c) /\ Closed(c)

hello_write(c) ==
    Sending(c, "MNG_HELLO_WRITE",
            CASE mng[c].reply = "refused" -> "CLOSED"
              [] mng[c].reply = "no_auth" -> "MNG_REQUEST_READ_INDEX"
              [] OTHER -> "MNG_USERPASS_READ")

\* Every call marshals the reply again.
auth_write(c) ==
    \/ /\ mng[c].out = "none"
       /\ Sending(c, "MNG_USERPASS_WRITE",
                  IF mng[c].reply = "granted" THEN "MNG_REQUEST_READ_INDEX" ELSE "CLOSED")
    \/ /\ Running /\ mng[c].st = "MNG_USERPASS_WRITE" /\ mng[c].out = "part"
       /\ \/ Only(c, [st |-> IF mng[c].reply = "granted" THEN "MNG_REQUEST_READ_INDEX"
                             ELSE "CLOSED",
                      out |-> "whole", extra |-> TRUE])
          \/ Gone(c) /\ Closed(c)

\* The index of the command, one byte; its parameters stay on the socket.
Answer(c, reply, did) ==
    Only(c, [st |-> "MNG_REQUEST_WRITE", in |-> "none", reply |-> reply, did |-> did])

\* Mutation: listing the users waits for parameters.
Mut_index_list_waits(c) ==
    /\ Reading(c, "MNG_REQUEST_READ_INDEX", "request")
    /\ LET op == mng[c].cmd.op
       IN IF op = "bad" THEN Answer(c, "index_not_supported", FALSE)
          ELSE IF op \in {"supported", "metric"} THEN Answer(c, "ok", TRUE)
          ELSE Only(c, [st |-> "MNG_REQUEST_READ",
                        in |-> IF op = "list" THEN "none" ELSE "params"])

\* A name list that fails its own check leaves the reply empty; one that
\* passes it may still be longer than the buffer, or ("long") than what the
\* client receives.
mng_request_index_read(c) ==
    /\ Reading(c, "MNG_REQUEST_READ_INDEX", "request")
    /\ LET op == mng[c].cmd.op
       IN \/ op = "bad" /\ Answer(c, "index_not_supported", FALSE)
          \/ op \in {"supported", "metric"} /\ Answer(c, "ok", TRUE)
          \/ op = "list" /\ ~ListChecked(Table) /\ Answer(c, "empty", FALSE)
          \/ op = "list" /\ ListChecked(Table)
             /\ IF ListWritten(Table) > wb_size THEN Dies("overrun")
                ELSE Answer(c, IF ListWritten(Table) > recv_size THEN "long" ELSE "ok", TRUE)
          \/ op \in {"add", "delete", "auth", "dissectors"}
             /\ Only(c, [st |-> "MNG_REQUEST_READ", in |-> "params"])
          \/ OutOfMemory /\ Answer(c, "server_error", FALSE)

\* The session's part of process_mng_params_request, which replies.
Done(c, reply, did) ==
    /\ Session(c, [st |-> "MNG_REQUEST_WRITE", in |-> "none", reply |-> reply, did |-> did])
    /\ UNCHANGED stopped

\* An entry at or below the index of a logged-in session is gone.
Shift(k) == socks' = [s \in Socks |-> With(socks[s],
    [shifted |-> socks[s].shifted \/ (socks[s].st = "REQUEST" /\ k <= socks[s].index)])]

\* Mutation: a full table is not reported.
Mut_add_unreported(c) ==
    \E b \in Block :
        /\ heap[b] = Free \/ nusers = MAX_USERS
        /\ SetTable(addUser(Table, mng[c].cmd.user, b))
        /\ Done(c, "ok", nusers < MAX_USERS)
        /\ UNCHANGED <<settings, socks>>

add_user(c) ==
    IF nusers = MAX_USERS
    THEN Done(c, "max_users_reached", FALSE) /\ UNCHANGED <<table, settings, socks>>
    ELSE \E b \in {x \in Block : heap[x] = Free} :
           /\ SetTable(addUser(Table, mng[c].cmd.user, b))
           /\ Done(c, "ok", TRUE)
           /\ UNCHANGED <<settings, socks>>

\* A name that is not in the table is deleted with success too.
delete_user(c) ==
    LET n == mng[c].cmd.name
    IN /\ SetTable(deleteUser(Table, n))
       /\ Done(c, "ok", TRUE)
       /\ IF \E i \in Live(Table) : Entry(Table, i).name = n
          THEN Shift(First(Table, n)) ELSE UNCHANGED socks
       /\ UNCHANGED settings

disableAuth(c) ==
    /\ auth_method' = IF mng[c].cmd.off THEN "none" ELSE "user"
    /\ Done(c, "ok", TRUE)
    /\ UNCHANGED <<table, password_dissectors, socks>>

disablePasswordDissectors(c) ==
    /\ password_dissectors' = ~mng[c].cmd.off
    /\ Done(c, "ok", TRUE)
    /\ UNCHANGED <<table, auth_method, socks>>

process_mng_params_request(c) ==
    \/ mng[c].cmd.op = "add" /\ add_user(c)
    \/ mng[c].cmd.op = "delete" /\ delete_user(c)
    \/ mng[c].cmd.op = "auth" /\ disableAuth(c)
    \/ mng[c].cmd.op = "dissectors" /\ disablePasswordDissectors(c)

\* addUser does not look at what malloc() returns; see auth_read for the
\* other way to die.
mng_request_read(c) ==
    /\ Reading(c, "MNG_REQUEST_READ", "params")
    /\ \/ process_mng_params_request(c)
       \/ OutOfMemory /\ (Answer(c, "server_error", FALSE) \/ Dies("memory"))

mng_request_write(c) == Sending(c, "MNG_REQUEST_WRITE", "CLOSED")

-----------------------------------------------------------------------------
(* SOCKS connections, as far as the table and the settings reach *)

NoSocks == [st |-> "FREE", method |-> "unset", index |-> 0, who |-> Nobody, shifted |-> FALSE]
Sock(s, fields) ==
    /\ Running
    /\ socks' = [socks EXCEPT ![s] = With(@, fields)]
    /\ UNCHANGED <<table, settings, mng, stopped>>

\* hello_read_init, on the first event of the connection: the method is
\* taken now and holds however long the greeting takes.
socks_hello_init(s) ==
    socks[s].st = "FREE" /\ Sock(s, [st |-> "HELLO", method |-> auth_method])

\* Mutation: the method is looked up again when the greeting is complete.
Mut_socks_hello_late(s) ==
    /\ socks[s].st = "HELLO"
    /\ Sock(s, [st |-> IF auth_method = "user" THEN "LOGIN" ELSE "REQUEST"])

socks_hello(s) ==
    /\ socks[s].st = "HELLO"
    /\ Sock(s, [st |-> IF socks[s].method = "user" THEN "LOGIN" ELSE "REQUEST"])

\* Mutation: the index of the user is not recorded.
Mut_check_no_index(s, i) ==
    Sock(s, [st |-> "REQUEST", who |-> Entry(Table, i)])

\* checkCredentials stopped at entry i.
checkCredentials(s, i) ==
    Sock(s, [st |-> "REQUEST", index |-> i, who |-> Entry(Table, i)])

socks_login(s) ==
    /\ socks[s].st = "LOGIN"
    /\ \E u \in Account, i \in Live(Table) :
         /\ Entry(Table, i) = u /\ \A j \in 0..(i - 1) : Entry(Table, j) # u
         /\ checkCredentials(s, i)

\* The greeting or the login is refused, or the connection ends.
socks_close(s) ==
    /\ Running /\ socks[s].st # "FREE"
    /\ socks' = [socks EXCEPT ![s] = NoSocks]
    /\ UNCHANGED <<table, settings, mng, stopped>>

-----------------------------------------------------------------------------
(* Specification *)

\* The users of the command line, in the blocks user() allocated; -N sets the
\* dissectors' switch.
Init ==
    /\ \E given \in BoundedSeq(Account, MAX_USERS) :
         /\ nusers = Len(given)
         /\ \E at \in [1..Len(given) -> Block] :
              /\ \A i, j \in 1..Len(given) : at[i] = at[j] => i = j
              /\ users = [i \in Slots |-> IF i < Len(given) THEN at[i + 1] ELSE NULL]
              /\ heap = [b \in Block |-> IF \E i \in 1..Len(given) : at[i] = b
                                         THEN given[CHOOSE i \in 1..Len(given) : at[i] = b]
                                         ELSE Free]
    /\ auth_method = "user" /\ password_dissectors \in BOOLEAN
    /\ mng = [c \in Mng |-> Ended]
    /\ socks = [s \in Socks |-> NoSocks]
    /\ stopped = "no"

Client(c) == handshake_response(c) \/ credentials_response(c) \/ request_response(c)

Server(c) ==
    \/ mng_passive_accept(c) \/ peer_closed(c)
    \/ hello_read(c) \/ hello_write(c) \/ auth_read(c) \/ auth_write(c)
    \/ mng_request_index_read(c) \/ mng_request_read(c) \/ mng_request_write(c)

Next ==
    \/ \E c \in Mng : client_start(c) \/ Client(c) \/ client_killed(c) \/ Server(c)
    \/ \E s \in Socks : socks_hello_init(s) \/ socks_hello(s) \/ socks_login(s) \/ socks_close(s)
    \/ ~Running /\ UNCHANGED vars

\* The loop serves every descriptor that is ready; a client that recv() can
\* serve goes on.  Nobody has to start a client.  A step that leaves the
\* connection in the backlog does not count: accept() succeeds in the end.
Fairness == \A c \in Mng : WF_vars(Server(c)) /\ WF_vars(Client(c))

Spec == Init /\ [][Next]_vars /\ Fairness

-----------------------------------------------------------------------------
(* Properties *)

\* However additions and deletions alternate, the entries below nusers hold
\* distinct allocated blocks, and no allocated block is out of their reach:
\* deleteUser and addUser free nothing twice, leak nothing and list no freed
\* name, although deleteUser leaves a copy of a pointer past the end.
TableSound ==
    /\ \A i \in Live(Table) : users[i] \in Block /\ heap[users[i]] # Free
    /\ \A i, j \in Live(Table) : users[i] = users[j] => i = j
    /\ \A b \in Block : heap[b] # Free => \E i \in Live(Table) : users[i] = b

\* The log and the dissector name users[userIndex] (connecting.c,
\* dissec_parser.c): it is the user who logged in until an entry at or before
\* that one is deleted.  After that it may be another user, no one, or freed.
LogNamesUser ==
    \A s \in Socks : socks[s].st = "REQUEST" /\ socks[s].method = "user" /\ ~socks[s].shifted
        => socks[s].index < nusers /\ Entry(Table, socks[s].index) = socks[s].who

\* Nobody reaches the command stages of mng_nio.c without an administrator's
\* credentials, whatever the commands of others did to auth_method.
CommandsNeedLogin ==
    \A c \in Mng : mng[c].st \in CommandStages => mng[c].who = "right"

\* What clientM16 says of its command is what became of it
\* (process_mng_params_request, request_response).  Success, or the heading of
\* values that did not arrive whole, means that the command was run, and the
\* second never follows a change; an error means that it was not, unless a
\* repeated login reply (auth_write) hid the answer; and a status that never
\* arrived is read only when the server died or had a list that does not fit.
TruthfulAnswer ==
    \A c \in Mng :
        /\ mng[c].told = "ok" => mng[c].did
        /\ mng[c].told = "garbled" => mng[c].did /\ mng[c].cmd.op \in Queries
        /\ mng[c].told = "error" /\ mng[c].did => mng[c].extra
        /\ mng[c].told = "noise" => ~Running \/ mng[c].cmd.op = "list"

\* The client never waits forever: every recv() of client.c returns, with a
\* reply or with the end of the connection.
WaitsEnd ==
    \A c \in Mng, w \in Waits : (mng[c].cl = w) ~> (mng[c].cl # w)

-----------------------------------------------------------------------------
(* The abstract registry *)

SessionOf(s) ==
    CASE socks[s].st = "FREE" -> [kind |-> "out", who |-> Nobody]
      [] socks[s].st = "REQUEST" /\ socks[s].method = "user"
           -> [kind |-> "admitted", who |-> socks[s].who]
      [] socks[s].st = "LOGIN" -> [kind |-> "user", who |-> Nobody]
      [] socks[s].st = "REQUEST" /\ socks[s].method # "user"
           -> [kind |-> "none", who |-> Nobody]
      [] OTHER -> [kind |-> socks[s].method, who |-> Nobody]

Accounts == INSTANCE Registry WITH
    accounts   <- [i \in 1..nusers |-> Entry(Table, i - 1)],
    auth       <- auth_method,
    dissectors <- password_dissectors,
    session    <- [s \in Socks |-> SessionOf(s)]

\* The table, the settings and the sessions implement Registry: commands have
\* the effect of list operations, a login is checked against the list as it
\* stands, and a session keeps the method that was set when it began.
RegistrySpec == Accounts!Spec

-----------------------------------------------------------------------------
(* What a comment says and the code does not do *)

\* mng_request.c, list_users_mng_request_marshall: "Check si la info entra en
\* el wb", the list is written only if it fits in write_buffer.
ListFits == stopped # "overrun"
=============================================================================
