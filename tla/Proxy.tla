-------------------------------- MODULE Proxy --------------------------------
(***************************************************************************)
(* The life of SOCKS connections in the server's event loop: accept, the   *)
(* handshake stages, name resolution in its own thread, the connection to  *)
(* the origin with its retries over the resolved addresses, the reply, and *)
(* the teardown; with the selector's table, the descriptors the kernel     *)
(* hands out, the reference counts and the pool of struct socks5.          *)
(*                                                                         *)
(* The calls of the code that change state are operators from a world      *)
(* (the record of the variables they touch) to a world, so a handler reads *)
(* like the C function it models; an action runs one handler of one event. *)
(* Message contents are abstracted to their outcome: see Copy for COPY.    *)
(***************************************************************************)
EXTENDS Integers, Sequences, FiniteSets

CONSTANTS
    Conn,           \* the struct socks5 instances
    MaxFd,          \* bound: the descriptors 1..MaxFd are available; 0 listens
    MaxAccepts,     \* bound: connections offered to the listening socket
    MaxAddrs,       \* bound: addresses a name resolves to
    max_pool,       \* size limit of the pool of structs
    ConnectResults, \* what connect() on a new socket may do
    CopyArms,       \* bound: which ends of an open direction COPY may arm
    OutOfMemory,    \* whether the allocations of the handlers may fail
    BadVersion      \* whether a client may open its login with a bad version

ASSUME MaxFdAssumption == MaxFd \in Nat \ {0}
ASSUME MaxAcceptsAssumption == MaxAccepts \in Nat
ASSUME MaxAddrsAssumption == MaxAddrs \in Nat
ASSUME MaxPoolAssumption == max_pool \in Nat
ASSUME ConnAssumption == IsFiniteSet(Conn) /\ Conn \cap Int = {}
ASSUME ConnectAssumption == ConnectResults \subseteq {"inprogress", "now", "fail"}
ASSUME CopyAssumption == CopyArms # {} /\ CopyArms \subseteq (SUBSET {"r", "w"}) \ {{}}
ASSUME FaultAssumption == OutOfMemory \in BOOLEAN /\ BadVersion \in BOOLEAN

None == -1        \* no descriptor, or the owner of an unused item
Fd == 1..MaxFd
R == "r"
W == "w"

VARIABLES
    conn,    \* conn[c]: the fields of the struct
    item,    \* item[f]: the selector's entry: owner (None if unused), int
    sock,    \* sock[f]: the kernel's state of descriptor f
    pool,    \* the free structs, most recent first
    pool_size,
    metrics, \* the connection metrics
    stopped, \* "no", "abort" (the process aborted or crashed), "io" (select failed) or
             \* "exit" (main returned)
    phase,   \* "select", "serve" (handle_iteration) or "notify"
    todo,    \* events of this iteration not looked at yet, <<descriptor, op>>
    jobs,    \* resolution_jobs, most recent first
    accepts  \* connections offered so far

vars == <<conn, item, sock, pool, pool_size, metrics, stopped, phase, todo, jobs, accepts>>

Stages == {"HELLO_READ", "HELLO_WRITE", "USERPASS_READ", "USERPASS_WRITE",
           "REQUEST_READ", "REQUEST_RESOLV", "REQUEST_CONNECTING",
           "REQUEST_WRITE", "COPY", "DONE", "ERROR"}

\* The stages in which stm.c finds a handler; any other event aborts.
ReadStages  == {"HELLO_READ", "USERPASS_READ", "REQUEST_READ", "COPY"}
WriteStages == {"HELLO_WRITE", "USERPASS_WRITE", "REQUEST_CONNECTING",
                "REQUEST_WRITE", "COPY"}

\* A struct just cleared by socks5_new; live is false while it is free.
Blank == [live |-> FALSE, st |-> "HELLO_READ", client |-> None, origin |-> None,
          method |-> "unset", auth |-> "unset", status |-> "ok", addrs |-> 0,
          resolved |-> FALSE, refs |-> 0, replies |-> 0, thread |-> FALSE,
          open |-> {}]

Unused == [owner |-> None, int |-> {}]

World == [conn |-> conn, item |-> item, sock |-> sock, pool |-> pool,
          pool_size |-> pool_size, metrics |-> metrics, stopped |-> stopped]

Commit(w) ==
    /\ conn' = w.conn /\ item' = w.item /\ sock' = w.sock /\ pool' = w.pool
    /\ pool_size' = w.pool_size /\ metrics' = w.metrics /\ stopped' = w.stopped

-----------------------------------------------------------------------------
(* The kernel: descriptors are given out lowest first. *)

FreeFds(w) == {f \in Fd : w.sock[f] = "free"}
Lowest(S)  == CHOOSE f \in S : \A g \in S : f <= g
close(w, f) == IF f = None THEN w ELSE [w EXCEPT !.sock[f] = "free"]

\* connect() on descriptor f; r is what the network does for a new socket.
\* Linux: a repeated connect() gives EALREADY while in progress, 0 once the
\* connection is up, and the pending or ECONNABORTED after a failure.
ConnectResult(w, f, r) ==
    IF f = None THEN "fail"
    ELSE IF w.sock[f] = "new" THEN r
    ELSE IF w.sock[f] = "connected" THEN "now" ELSE "fail"

AfterConnect(w, f, res) ==
    IF f = None THEN w
    ELSE [w EXCEPT !.sock[f] =
            IF res = "inprogress" THEN "connecting"
            ELSE IF res = "now" THEN "up"
            ELSE IF @ \in {"error", "dead"} THEN "new" ELSE @]

-----------------------------------------------------------------------------
(* selector.c *)

ITEM_USED(w, f) == f \in Fd /\ w.item[f].owner # None

selector_set_interest(w, f, i) ==
    IF ITEM_USED(w, f) THEN [w EXCEPT !.item[f].int = i] ELSE w

\* The caller has checked that the item is not in use (SELECTOR_FDINUSE).
selector_register(w, f, c, i) == [w EXCEPT !.item[f] = [owner |-> c, int |-> i]]

(* socks5nio.c: references and the pool *)

\* Mutation: the struct is released whatever its reference count.
Mut_destroy_eager(w, c) ==
    IF w.pool_size < max_pool
    THEN [w EXCEPT !.conn[c] = Blank, !.pool = <<c>> \o @, !.pool_size = @ + 1]
    ELSE [w EXCEPT !.conn[c] = Blank]

\* Mutation: one struct too many enters the pool.
Mut_destroy_one_more(w, c) ==
    IF w.conn[c].refs # 1 THEN [w EXCEPT !.conn[c].refs = @ - 1]
    ELSE IF w.pool_size <= max_pool
    THEN [w EXCEPT !.conn[c] = Blank, !.pool = <<c>> \o @, !.pool_size = @ + 1]
    ELSE [w EXCEPT !.conn[c] = Blank]

\* pool_size counts every struct ever put in the pool.  A released struct's
\* fields are never read again before socks5_new clears them.
socks5_destroy(w, c) ==
    IF w.conn[c].refs # 1 THEN [w EXCEPT !.conn[c].refs = @ - 1]
    ELSE IF w.pool_size < max_pool
    THEN [w EXCEPT !.conn[c] = Blank, !.pool = <<c>> \o @, !.pool_size = @ + 1]
    ELSE [w EXCEPT !.conn[c] = Blank]

\* Mutation: the owner is not told.
Mut_unregister_silent(w, f) == [w EXCEPT !.item[f] = Unused]

\* handle_close is socksv5_close for every connection's item.
selector_unregister_fd(w, f) ==
    IF ITEM_USED(w, f)
    THEN [socks5_destroy(w, w.item[f].owner) EXCEPT !.item[f] = Unused]
    ELSE w

\* Mutation: the descriptor is closed but stays registered.
Mut_done_fd_only_close(w, f) == IF f = None THEN w ELSE close(w, f)

\* One descriptor of socksv5_done: a failed unregister aborts the process.
done_fd(w, f) ==
    IF f = None \/ w.stopped = "abort" THEN w
    ELSE IF ~ITEM_USED(w, f) THEN [w EXCEPT !.stopped = "abort"]
    ELSE close(selector_unregister_fd(w, f), f)

socksv5_done(w, c) ==
    LET cl == w.conn[c].client
        og == w.conn[c].origin
    IN done_fd(done_fd(w, cl), og)

-----------------------------------------------------------------------------
(* request.c and connecting.c *)

Stage(w, c, s)  == [w EXCEPT !.conn[c].st = s]
Status(w, c, s) == [w EXCEPT !.conn[c].status = s]

\* Mutation: the reply is queued but the client is not armed to send it.
Mut_error_handler_unarmed(w, c) ==
    selector_set_interest([w EXCEPT !.conn[c].replies = @ + 1], w.conn[c].origin, {})

\* Mutation: the origin stays armed.
Mut_error_handler_keeps_origin(w, c) ==
    selector_set_interest([w EXCEPT !.conn[c].replies = @ + 1], w.conn[c].client, {W})

\* Mutation: the client is armed with no reply queued.
Mut_error_handler_silent(w, c) ==
    selector_set_interest(selector_set_interest(w, w.conn[c].client, {W}), w.conn[c].origin, {})

error_handler_to_client(w, c) ==
    LET told == selector_set_interest([w EXCEPT !.conn[c].replies = @ + 1],
                                      w.conn[c].client, {W})
    IN selector_set_interest(told, w.conn[c].origin, {})

\* error_handler: the event's descriptor is the client's.
error_handler(w, c) ==
    selector_set_interest([w EXCEPT !.conn[c].replies = @ + 1], w.conn[c].client, {W})

\* Mutation: the reference for the origin's item is not taken.
Mut_refer_none(w, c) == w

refer(w, c) == [w EXCEPT !.conn[c].refs = @ + 1]

\* connection(): k is the descriptor of the event being served.
connection(w0, c, k, r) ==
    LET f   == w0.conn[c].origin
        res == ConnectResult(w0, f, r)
        w   == AfterConnect([w0 EXCEPT !.metrics.attempts = @ + 1], f, res)
        Fail(v) == error_handler_to_client(Status(v, c, "err"), c)
    IN CASE res = "fail" -> Fail(w)
         [] res = "inprogress" ->
              LET quiet == selector_set_interest(w, k, {})
              IN IF ITEM_USED(quiet, f)
                 THEN [close(Fail(quiet), f) EXCEPT !.conn[c].origin = None]
                 ELSE refer(selector_register(quiet, f, c, {W}), c)
         [] res = "now" ->
              LET heard == selector_set_interest(refer(w, c), k, {R})
              IN IF ITEM_USED(heard, f) THEN Fail(heard)
                 ELSE selector_register(heard, f, c, {R})

connecting_init(w, c, k, r) ==
    IF FreeFds(w) = {}
    THEN error_handler_to_client(Status(w, c, "err"), c)
    ELSE LET f == Lowest(FreeFds(w))
         IN connection([w EXCEPT !.sock[f] = "new", !.conn[c].origin = f,
                                 !.conn[c].status = "ok"], c, k, r)

HasNext(w, c) == w.conn[c].resolved /\ w.conn[c].addrs > 0
NextAddr(w, c) == [w EXCEPT !.conn[c].addrs = @ - 1]

\* Mutation: the maximum is updated before the connection is counted.
Mut_connected_max_first(w, c, k) ==
    LET n == w.metrics.concurrent
        counted == [w EXCEPT !.metrics.historic = @ + 1, !.metrics.concurrent = n + 1,
                             !.metrics.max = IF n > @ THEN n ELSE @,
                             !.conn[c].replies = @ + 1]
    IN Stage(selector_set_interest(
                selector_set_interest(counted, w.conn[c].client, {W}), k, {}),
             c, "REQUEST_WRITE")

\* Success seen by connecting_write: counted, then the reply is queued.
connected(w, c, k) ==
    LET n == w.metrics.concurrent + 1
        counted == [w EXCEPT !.metrics.historic = @ + 1, !.metrics.concurrent = n,
                             !.metrics.max = IF n > @ THEN n ELSE @,
                             !.conn[c].replies = @ + 1]
    IN Stage(selector_set_interest(
                selector_set_interest(counted, w.conn[c].client, {W}), k, {}),
             c, "REQUEST_WRITE")

\* Mutation: the origin's descriptor is closed but still recorded.
Mut_give_up_keeps_fd(w, c) ==
    LET f == w.conn[c].origin
    IN Stage(error_handler_to_client(close(selector_unregister_fd(w, f), f), c),
             c, "REQUEST_WRITE")

\* No address is left after a failure seen earlier.
give_up(w, c) ==
    LET f == w.conn[c].origin
        shut == [close(selector_unregister_fd(w, f), f) EXCEPT !.conn[c].origin = None]
    IN Stage(error_handler_to_client(shut, c), c, "REQUEST_WRITE")

connecting_write(w, c, k, r) ==
    IF w.conn[c].status # "ok"
    THEN IF HasNext(w, c) THEN connection(NextAddr(w, c), c, k, r) ELSE give_up(w, c)
    ELSE IF w.sock[k] # "error" THEN connected(w, c, k)
    ELSE LET bad == Status([w EXCEPT !.sock[k] = "dead"], c, "err")  \* SO_ERROR is consumed
         IN IF HasNext(bad, c) THEN connection(NextAddr(bad, c), c, k, r)
            ELSE Stage(error_handler_to_client(bad, c), c, "REQUEST_WRITE")

\* The interests COPY leaves, i for the client and o for the origin; setting
\* them on a descriptor that is not registered aborts.
copy_interests(w, c, i, o) ==
    LET Set(v, f, int) ==
          IF f = None THEN v
          ELSE IF ITEM_USED(v, f) THEN selector_set_interest(v, f, int)
          ELSE [v EXCEPT !.stopped = "abort"]
    IN Set(Set(w, w.conn[c].origin, o), w.conn[c].client, i)

-----------------------------------------------------------------------------
(* The event loop *)

Running == stopped = "no"

\* A registered socket may be reported ready unless its connection is still
\* in progress; whether it is depends on the peers.
Ready == {e \in Fd \X {R, W} : e[2] \in item[e[1]].int /\ sock[e[1]] # "connecting"}
         \cup (IF accepts < MaxAccepts THEN {<<0, R>>} ELSE {})

BadFd == \E f \in Fd : item[f].int # {} /\ sock[f] = "free"

\* pselect: any of the ready descriptors, none on a timeout or a signal;
\* EBADF ends the main loop.
selector_select ==
    /\ Running /\ phase = "select"
    /\ IF BadFd
       THEN stopped' = "io" /\ UNCHANGED <<phase, todo>>
       ELSE /\ todo' \in SUBSET Ready
            /\ phase' = IF todo' = {} THEN "notify" ELSE "serve"
            /\ UNCHANGED stopped
    /\ UNCHANGED <<conn, item, sock, pool, pool_size, metrics, jobs, accepts>>

\* handle_iteration looks at descriptors in order, reading before writing.
Before(a, b) == a[1] < b[1] \/ (a[1] = b[1] /\ a[2] = R)
Event == CHOOSE e \in todo : \A d \in todo : d = e \/ Before(e, d)

\* The event being looked at is consumed.
Serve(e) ==
    /\ Running /\ phase = "serve" /\ e = Event
    /\ todo' = todo \ {e}
    /\ phase' = IF todo' = {} THEN "notify" ELSE "serve"

\* Not registered any more, or not for this: the readiness is ignored.
skip_event ==
    \E e \in todo :
        /\ Serve(e) /\ e[1] # 0
        /\ e[2] \notin item[e[1]].int
        /\ UNCHANGED <<conn, item, sock, pool, pool_size, metrics, stopped, jobs, accepts>>

\* Event e is served by a handler of connection c in stage st.
Serving(e, op, c, st) ==
    /\ e[1] # 0 /\ e[2] = op /\ op \in item[e[1]].int
    /\ c = item[e[1]].owner /\ conn[c].st = st
    /\ Serve(e) /\ UNCHANGED <<jobs, accepts>>

\* stm.c has no handler for the event in this stage.
stm_abort ==
    \E e \in todo, c \in Conn :
        /\ Serving(e, e[2], c, conn[c].st)
        /\ conn[c].st \notin (IF e[2] = R THEN ReadStages ELSE WriteStages)
        /\ Commit([World EXCEPT !.stopped = "abort"])

\* Leaving for a terminal stage: socksv5_read and socksv5_write tear down.
Finish(w, c, s) == Commit(socksv5_done(Stage(w, c, s), c))

\* Going on to stage s with the event's descriptor k registered for i.
Advance(w, c, k, i, s) == Commit(Stage(selector_set_interest(w, k, i), c, s))

-----------------------------------------------------------------------------
(* socks5nio.c: accepting.  socks5_new reuses the last struct freed. *)

Fresh == {c \in Conn : ~conn[c].live /\ \A i \in 1..Len(pool) : pool[i] # c}

NextStruct == IF pool # << >> THEN Head(pool) ELSE CHOOSE x \in Fresh : TRUE

socks5_new(w, c, f) ==
    [w EXCEPT !.pool = IF @ # << >> THEN Tail(@) ELSE @,
              !.conn[c] = [Blank EXCEPT !.live = TRUE, !.client = f, !.refs = 1]]

socksv5_passive_accept ==
    /\ <<0, R>> \in todo /\ Serve(<<0, R>>)
    /\ UNCHANGED jobs
    /\ IF FreeFds(World) = {}
       THEN Commit(World) /\ UNCHANGED accepts       \* accept() fails
       ELSE LET f == Lowest(FreeFds(World))
                c == NextStruct
                w == socks5_new([World EXCEPT !.sock[f] = "client"], c, f)
            IN /\ accepts' = accepts + 1
               /\ Commit(IF pool = << >> /\ Fresh = {} THEN World  \* no memory
                         ELSE IF ITEM_USED(World, f)
                         THEN socks5_destroy(close(w, f), c)
                         ELSE selector_register(w, f, c, {R}))

-----------------------------------------------------------------------------
(* The handshake: hello.c, authentication.c and request_init *)

\* What parsing a greeting yields: the server's method if the client offers it.
Methods == {"none", "user", "refused"}

\* What checking a login against the users yields.
Verdicts == {"granted", "denied"}

\* Entering REQUEST_READ: the worlds request_init may leave.  Without memory
\* for the parser it goes on through a null pointer; without memory for the
\* request it queues an error, once or twice, and arms the client to send it in
\* a stage that has no handler for that.
request_init(w, c) ==
    {w} \cup {v \in {[w EXCEPT !.stopped = "abort"], error_handler(w, c),
                     error_handler(error_handler(w, c), c)} : OutOfMemory}

\* The login is over: the client is heard again, for its request.
begin_request(c, k) ==
    \E w \in request_init(Stage(selector_set_interest(World, k, {R}), c, "REQUEST_READ"), c) :
        Commit(w)

hello_read ==
    \E e \in todo, c \in Conn :
        /\ Serving(e, R, c, "HELLO_READ")
        /\ \/ Commit(World)                              \* incomplete
           \/ \E m \in Methods :
                Advance([World EXCEPT !.conn[c].method = m], c, e[1], {W}, "HELLO_WRITE")
           \/ Finish(World, c, "ERROR")

hello_write ==
    \E e \in todo, c \in Conn :
        /\ Serving(e, W, c, "HELLO_WRITE")
        /\ \/ Commit(World)                              \* sent in part
           \/ CASE conn[c].method = "refused" -> Finish(World, c, "DONE")
                [] conn[c].method = "none" -> begin_request(c, e[1])
                [] conn[c].method = "user" -> Advance(World, c, e[1], {R}, "USERPASS_READ")
           \/ Finish(World, c, "ERROR")

\* A login of another version reaches auth_process without a name: strcmp of
\* a null pointer, which either is not executed (no users) or ends the process.
auth_read ==
    \E e \in todo, c \in Conn :
        /\ Serving(e, R, c, "USERPASS_READ")
        /\ \/ Commit(World)
           \/ \E a \in Verdicts :
                Advance([World EXCEPT !.conn[c].auth = a], c, e[1], {W}, "USERPASS_WRITE")
           \/ Finish(World, c, "ERROR")
           \/ BadVersion /\ Commit([World EXCEPT !.stopped = "abort"])

\* Mutation: the verdict is sent but not acted upon.
Mut_auth_write_lenient ==
    \E e \in todo, c \in Conn :
        /\ Serving(e, W, c, "USERPASS_WRITE")
        /\ \/ Commit(World)
           \/ begin_request(c, e[1])
           \/ Finish(World, c, "ERROR")

auth_write ==
    \E e \in todo, c \in Conn :
        /\ Serving(e, W, c, "USERPASS_WRITE")
        /\ \/ Commit(World)
           \/ IF conn[c].auth = "granted" THEN begin_request(c, e[1])
              ELSE Finish(World, c, "DONE")
           \/ Finish(World, c, "ERROR")

-----------------------------------------------------------------------------
(* request.c, resolv.c and connecting.c: the request *)

\* An address is connected to at once; a name is resolved by a thread, with
\* nothing armed meanwhile.  Without memory for the thread's argument the
\* error is replied with orig.conn.status still "ok"; a thread that does not
\* start is not noticed (pthread_create never returns -1).
request_process(c, k) ==
    \/ \E r \in ConnectResults :
         Commit(connecting_init(Stage(World, c, "REQUEST_CONNECTING"), c, k, r))
    \/ Advance([World EXCEPT !.conn[c].thread = TRUE], c, k, {}, "REQUEST_RESOLV")
    \/ OutOfMemory /\ Commit(Stage(error_handler(World, c), c, "REQUEST_WRITE"))
    \/ OutOfMemory /\ Advance(World, c, k, {}, "REQUEST_RESOLV")

\* After a failure in request_init, which left a reply, nothing is read, and
\* request_close may use the request that is missing.
request_read ==
    \E e \in todo, c \in Conn :
        /\ Serving(e, R, c, "REQUEST_READ")
        /\ IF conn[c].replies > 0
           THEN \E w \in {Stage(World, c, "REQUEST_WRITE"), [World EXCEPT !.stopped = "abort"]} :
                  Commit(w)
           ELSE \/ Commit(World)
                \/ request_process(c, e[1])
                \/ Finish(World, c, "ERROR")

\* Mutation: the notification is queued twice.
Mut_resolv_notifies_twice(c) ==
    /\ Running /\ phase # "notify" /\ conn[c].thread
    /\ \E n \in 0..MaxAddrs :
         conn' = [conn EXCEPT ![c].thread = FALSE, ![c].addrs = n]
    /\ jobs' = <<conn[c].client, conn[c].client>> \o jobs
    /\ UNCHANGED <<item, sock, pool, pool_size, metrics, stopped, phase, todo, accepts>>

\* The resolver's thread: its result, then the notification, whose mutex the
\* loop holds while it handles notifications.
request_resolv_blocking(c) ==
    /\ Running /\ phase # "notify" /\ conn[c].thread
    /\ \E n \in 0..MaxAddrs :
         conn' = [conn EXCEPT ![c].thread = FALSE, ![c].addrs = n]
    /\ \/ jobs' = <<conn[c].client>> \o jobs
       \/ OutOfMemory /\ UNCHANGED jobs
    /\ UNCHANGED <<item, sock, pool, pool_size, metrics, stopped, phase, todo, accepts>>

request_resolv_done(w, c, k, r) ==
    IF w.conn[c].addrs = 0
    THEN Stage(error_handler(Status(w, c, "err"), c), c, "REQUEST_WRITE")
    ELSE connecting_init([Stage(w, c, "REQUEST_CONNECTING")
                            EXCEPT !.conn[c].addrs = @ - 1, !.conn[c].resolved = TRUE],
                         c, k, r)

\* Mutation: the list is emptied after its first job.
Mut_notifications_first_only ==
    /\ Running /\ phase = "notify" /\ phase' = "select" /\ jobs' = << >>
    /\ IF jobs = << >> THEN Commit(World)
       ELSE LET f == Head(jobs)
            IN \E r \in ConnectResults : Commit(request_resolv_done(World, item[f].owner, f, r))
    /\ UNCHANGED <<todo, accepts>>

handle_block_notifications ==
    /\ Running /\ phase = "notify"
    /\ IF jobs = << >>
       THEN phase' = "select" /\ Commit(World) /\ UNCHANGED jobs
       ELSE LET f == Head(jobs)
                c == item[f].owner
            IN /\ jobs' = Tail(jobs) /\ UNCHANGED phase
               /\ IF ~ITEM_USED(World, f) THEN Commit(World)
                  ELSE IF conn[c].st # "REQUEST_RESOLV"
                  THEN Commit([World EXCEPT !.stopped = "abort"])
                  ELSE \E r \in ConnectResults : Commit(request_resolv_done(World, c, f, r))
    /\ UNCHANGED <<todo, accepts>>

connecting ==
    \E e \in todo, c \in Conn, r \in ConnectResults :
        /\ Serving(e, W, c, "REQUEST_CONNECTING")
        /\ Commit(connecting_write(World, c, e[1], r))

\* The network answers a connection attempt.
attempt_ends(f) ==
    /\ Running /\ sock[f] = "connecting"
    /\ \E s \in {"connected", "error"} : sock' = [sock EXCEPT ![f] = s]
    /\ UNCHANGED <<conn, item, pool, pool_size, metrics, stopped, phase, todo, jobs, accepts>>

(* COPY, abstracted from module Copy: the two directions, up from client to *)
(* origin and down, are open until an end of file or an error.  An open one  *)
(* has its reading end armed, its writing end or both (Copy's NoStall).      *)

\* The directions o are open, direction d armed at the ends a[d].
Relay(w, c, o, a) ==
    LET Arm(in, out) == {op \in {R, W} : LET d == IF op = R THEN in ELSE out
                                         IN d \in o /\ op \in a[d]}
    IN copy_interests([w EXCEPT !.conn[c].open = o], c, Arm("up", "down"), Arm("down", "up"))

\* Bytes the client sent early wait for the origin.  Without an origin only
\* the client is armed, until its buffer is full.
copy_init(w, c) ==
    IF w.conn[c].origin = None
    THEN {copy_interests(w, c, i, {}) : i \in {{}, {R}}}
    ELSE {Relay(w, c, {"up", "down"}, [up |-> a, down |-> {R}]) : a \in CopyArms}

request_write ==
    \E e \in todo, c \in Conn :
        /\ Serving(e, W, c, "REQUEST_WRITE")
        /\ \/ Commit(World)
           \/ IF conn[c].status = "ok"
              THEN \E w \in copy_init(Stage(World, c, "COPY"), c) : Commit(w)
              ELSE Finish(selector_set_interest(World, conn[c].client, {}), c, "DONE")
           \/ Finish(World, c, "ERROR")

\* copy_read (op is R) and copy_write (op is W) of one event: its direction
\* stays open or ends; with the last one the connection is done.
copy_event(op) ==
    \E e \in todo, c \in Conn :
        /\ Serving(e, op, c, "COPY")
        /\ LET d == IF (e[1] = conn[c].client) = (op = R) THEN "up" ELSE "down"
           IN \/ conn[c].origin = None /\ \E w \in copy_init(World, c) : Commit(w)
              \/ /\ conn[c].origin # None
                 /\ \E o \in {conn[c].open, conn[c].open \ {d}} :
                      IF o = {}
                      THEN Finish([World EXCEPT !.metrics.concurrent = @ - 1], c, "DONE")
                      ELSE \E a \in [o -> CopyArms] : Commit(Relay(World, c, o, a))

\* Allocations whose result is used unchecked: the texts of a login, the parser
\* that auth_read_close walks, the log of connecting_write, what the password
\* dissector collects and, in the resolver's thread, the copy of the name.  The
\* process ends through a bad pointer.
unchecked_malloc ==
    /\ OutOfMemory /\ Commit([World EXCEPT !.stopped = "abort"])
    /\ \/ \E e \in todo, c \in Conn :
            \E h \in {<<R, "USERPASS_READ">>, <<W, "REQUEST_CONNECTING">>, <<R, "COPY">>} :
                Serving(e, h[1], c, h[2])
       \/ /\ Running /\ \E c \in Conn : conn[c].thread
          /\ UNCHANGED <<phase, todo, jobs, accepts>>

-----------------------------------------------------------------------------
(* Specification *)

Init ==
    /\ conn = [c \in Conn |-> Blank]
    /\ item = [f \in Fd |-> Unused]
    /\ sock = [f \in Fd |-> "free"]
    /\ pool = << >> /\ pool_size = 0
    /\ metrics = [attempts |-> 0, historic |-> 0, concurrent |-> 0, max |-> 0]
    /\ stopped = "no" /\ phase = "select" /\ todo = {}
    /\ jobs = << >> /\ accepts = 0

Terminated == ~Running /\ UNCHANGED vars

\* selector_destroy unregisters every item in order and frees the jobs.
Unregistered[f \in 0..MaxFd] ==
    IF f = 0 THEN World ELSE selector_unregister_fd(Unregistered[f - 1], f)

\* After a signal, or after select failed, main frees what it can reach.  A
\* resolver's thread that is still running is not waited for; what it writes
\* until the process is gone is not followed.
shutdown ==
    /\ (Running /\ phase = "select") \/ stopped = "io"
    /\ Commit([Unregistered[MaxFd] EXCEPT !.stopped = "exit", !.pool = << >>])
    /\ jobs' = << >>
    /\ UNCHANGED <<phase, todo, accepts>>

Loop ==
    \/ selector_select \/ skip_event \/ stm_abort \/ socksv5_passive_accept
    \/ hello_read \/ hello_write \/ auth_read \/ auth_write
    \/ request_read \/ handle_block_notifications \/ connecting \/ request_write
    \/ copy_event(R) \/ copy_event(W)

Next ==
    \/ Loop
    \/ \E c \in Conn : request_resolv_blocking(c)
    \/ \E f \in Fd : attempt_ends(f)
    \/ unchecked_malloc
    \/ shutdown
    \/ Terminated

\* The event loop and the resolver's threads run; the peers owe nothing.
Fairness == WF_vars(Loop) /\ \A c \in Conn : SF_vars(request_resolv_blocking(c))

Spec == Init /\ [][Next]_vars /\ Fairness

-----------------------------------------------------------------------------
(* Properties *)

OwnedBy(c) == {f \in Fd : item[f].owner = c}
Registered(f, c) == f \in Fd /\ item[f].owner = c
Armed(f) == f \in Fd /\ item[f].int # {}
Pooled == {pool[i] : i \in 1..Len(pool)}

\* Every variable has its type (socks5nio.h, selector.c and main.c declare them).
TypeOK ==
    /\ conn \in [Conn -> [live : BOOLEAN, st : Stages, client : Fd \cup {None},
                          origin : Fd \cup {None},
                          method : {"unset"} \cup Methods,
                          auth : {"unset"} \cup Verdicts,
                          status : {"ok", "err"}, addrs : 0..MaxAddrs,
                          resolved : BOOLEAN, refs : Nat, replies : Nat,
                          thread : BOOLEAN, open : SUBSET {"up", "down"}]]
    /\ item \in [Fd -> [owner : Conn \cup {None}, int : SUBSET {R, W}]]
    /\ sock \in [Fd -> {"free", "client", "new", "connecting", "connected",
                        "up", "error", "dead"}]
    /\ pool \in Seq(Conn) /\ pool_size \in 0..max_pool
    /\ metrics \in [attempts : Nat, historic : Nat, concurrent : Nat, max : Nat]
    /\ stopped \in {"no", "abort", "io", "exit"} /\ phase \in {"select", "serve", "notify"}
    /\ todo \subseteq (0..MaxFd) \X {R, W}
    /\ jobs \in Seq(Fd) /\ accepts \in 0..MaxAccepts

\* No selector entry outlives what it refers to.  Whatever handlers ran and
\* failed, its struct is allocated and has a reference for each of its entries
\* (selector_unregister_fd, socksv5_close, socks5_destroy), and select is never
\* asked about a closed descriptor, where EBADF would end the main loop, even
\* if one stays registered.
NoDanglingEntry ==
    \A f \in Fd : item[f].owner # None =>
        /\ conn[item[f].owner].live
        /\ conn[item[f].owner].refs >= Cardinality(OwnedBy(item[f].owner))
        /\ Armed(f) => sock[f] # "free"

\* references is the number of the selector's entries for the struct, so the
\* struct is released with its last entry and not later.
RefsExact == \A c \in Conn : conn[c].live => conn[c].refs = Cardinality(OwnedBy(c))

\* A struct is in the pool at most once and never while it is in use
\* (socks5_new, socks5_destroy).
PoolSound ==
    /\ Cardinality(Pooled) = Len(pool)
    /\ \A c \in Pooled : ~conn[c].live /\ OwnedBy(c) = {}

\* A descriptor is unregistered before it is closed.
RegisteredIsOpen == \A f \in Fd : item[f].owner # None => sock[f] # "free"

\* No event finds a stage without a handler and no teardown meets an
\* unregistered descriptor: the abort() of stm.c, copy.c and socksv5_done.
NeverAborts == stopped # "abort"

\* The server never forgets a client: a registered connection has a
\* descriptor armed or a resolution on its way.
NotForgotten ==
    \A c \in Conn : Registered(conn[c].client, c) =>
        \/ Armed(conn[c].client)
        \/ Registered(conn[c].origin, c) /\ Armed(conn[c].origin)
        \/ conn[c].thread
        \/ \E i \in 1..Len(jobs) : jobs[i] = conn[c].client

\* While a thread resolves a name, and until its notification is handled, the
\* struct it writes to stays allocated, registered and in REQUEST_RESOLV; a
\* notification reaches the connection that asked.
ResolverKeepsStruct ==
    /\ \A c \in Conn : conn[c].thread =>
         /\ conn[c].live /\ conn[c].st = "REQUEST_RESOLV"
         /\ Registered(conn[c].client, c)
    /\ \A i \in 1..Len(jobs) :
         LET c == item[jobs[i]].owner
         IN /\ c # None /\ conn[c].client = jobs[i]
            /\ conn[c].st = "REQUEST_RESOLV" /\ ~conn[c].thread
            /\ \A j \in 1..Len(jobs) : jobs[j] = jobs[i] => j = i

\* Nobody gets a request served without the login the negotiated method asks
\* for (hello_write, auth_read, auth_write).
AuthBeforeRequest ==
    \A c \in Conn : Registered(conn[c].client, c) /\ conn[c].st \in
        {"REQUEST_READ", "REQUEST_RESOLV", "REQUEST_CONNECTING", "REQUEST_WRITE", "COPY"}
        => conn[c].method = "none" \/ (conn[c].method = "user" /\ conn[c].auth = "granted")

\* In REQUEST_WRITE there is a reply to send: no path into the stage forgets to
\* marshal one, which would let request_write go on without an answer.
AnswerQueued ==
    \A c \in Conn : Registered(conn[c].client, c) /\ conn[c].st = "REQUEST_WRITE"
        => conn[c].replies > 0

\* After a signal nothing is left: selector_destroy gives back every reference,
\* whatever stage the connections are in, and the pool frees the rest
\* (main, socksv5_pool_destroy).
ExitReleasesAll ==
    stopped = "exit" => pool = << >> /\ \A c \in Conn : ~conn[c].live /\ OwnedBy(c) = {}

\* The connections being relayed, and those about to be.
Relaying == {c \in Conn : /\ Registered(conn[c].client, c) /\ conn[c].origin # None
                          /\ \/ conn[c].st = "COPY"
                             \/ conn[c].st = "REQUEST_WRITE" /\ conn[c].status = "ok"}

\* The gauge of concurrent connections never falls below the connections
\* being relayed, so its decrement in COPY never wraps, and the four metrics
\* keep their order.
MetricsOrdered ==
    /\ Cardinality(Relaying) <= metrics.concurrent
    /\ metrics.concurrent <= metrics.max
    /\ metrics.max <= metrics.historic
    /\ metrics.historic <= metrics.attempts

\* A name being resolved is answered or connected to, however many
\* resolutions end together (selector_notify_block, handle_block_notifications).
ResolutionEnds ==
    \A c \in Conn : (conn[c].st = "REQUEST_RESOLV") ~> (conn[c].st # "REQUEST_RESOLV")

-----------------------------------------------------------------------------
(* What the documentation says and the code does not do *)

\* connecting.h: a connection that completes is answered with success, the
\* ones to a later address of the name included.
CompletedIsAnswered ==
    [][\A c \in Conn :
         /\ conn[c].st = "REQUEST_CONNECTING" /\ conn'[c].st = "REQUEST_WRITE"
         /\ conn[c].origin # None /\ sock[conn[c].origin] = "connected"
         => conn'[c].status = "ok"]_vars
=============================================================================
