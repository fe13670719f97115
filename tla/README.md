# Verification of the SOCKSv5 proxy

The program is a SOCKSv5 proxy (RFC 1928, username/password of RFC 1929) with a
management service, written in C around one `pselect` loop. This directory holds
TLA+ models of its core, TLC configurations that check them, and TLAPS proofs of
their main invariants. Source paths below are relative to the repository.

## Inventory

| Component | Source | State | Operations |
|---|---|---|---|
| I/O buffer | `src/buffer.c` | a byte array, read and write pointers | reset, read, write, `*_ptr`, `*_adv`, compact |
| Selector | `src/selector.c` | table of items (descriptor, interest, data), `max_fd`, the sets for `pselect`, list of finished blocking jobs | register, unregister, set interest, select, iterate, notify, destroy |
| State machine engine | `src/stm.c` | current stage | dispatch read/write/block, jump (departure, arrival) |
| Connection lifecycle | `src/socks5nio.c` | `struct socks5`, reference count, pool | accept, new, destroy, done |
| Greeting | `src/Etapas/hello.c` | parser, chosen method | read, write |
| Login | `src/Etapas/authentication.c`, `src/myParser.c` | parser, verdict | read, write |
| Request | `src/Etapas/request.c`, `request_parser.c` | parser, reply status | read, process, write |
| Name resolution | `src/Etapas/resolv.c` | list of addresses | blocking lookup in a thread, continuation |
| Connecting | `src/Etapas/connecting.c` | attempt status, current address, metrics | init, completion, retry, reply |
| COPY | `src/Etapas/copy.c` | open directions of each socket, two buffers, metrics | init, read, write |
| Management service | `src/mng_nio.c`, `src/Etapas/mng_request.c` | user table, settings, its own stages and pool | metrics queries, list, add/delete user, settings |
| Management client | `src/client/` | one exchange | greeting, login, command, answer |
| Password dissector | `src/password_dissector/` | an automaton per connection | consume |
| Start-up, shutdown | `src/main.c` | listening sockets, metrics, `done` | register, loop, destroy |
| Arguments, helpers, debug | `src/args.c`, `netutils.c`, `debug.c` | none shared | pure I/O |

How they interact: `main` registers the listening sockets and calls
`selector_select` for ever. A pass asks the kernel which descriptors are ready,
then looks at the table in descriptor order and calls the item's handler, which
dispatches through the state machine of the connection. A handler reads or
writes one socket, changes interests (its own descriptor's or the other
socket's), and names the next stage. A name is resolved by a detached thread
that writes its result into the connection's struct, queues a job under a mutex
and signals the loop; jobs are handled at the end of the pass. A struct is
shared by up to two selector items and released when the last is unregistered.
An administrator's commands change the users table, the authentication method
and the dissectors' switch while SOCKS sessions use them. `copy_read` shows what
it reads, of either end, to the connection's dissector.

What is hard here:

* *within a pass*: readiness is computed once; handlers close descriptors, open
  others with the same number, and change what other sockets wait for;
* *threads*: the resolver writes to a struct the loop owns;
* *failure paths*: descriptors, memory and connections fail between two steps of
  a handler, with a reply already queued or a reference already taken;
* *retries*: the next address is tried with the descriptor, the status and the
  registration of the previous attempt;
* *waiting*: a connection lives only through the interests it leaves armed;
* *shared tables*: a deletion shifts the users under sessions that hold an index;
  handlers change the selector's table while `handle_iteration` walks it;
* *splits*: a message arrives in any pieces, with bytes of the next one behind
  it, and a reply leaves in any pieces;
* *boundaries*: full and empty buffers, a full pool, a full users table, the last
  descriptor, counters and averages.

`PROJECT.json` lists each hazard at its line with the properties that cover it.

What makes each part correct: the buffer is a queue; the relay delivers both
streams unchanged and never stalls; every selector item points to a live struct
and an open descriptor; reference counts equal the number of items; no client is
left with nothing to wake it; no stage meets an event it has no handler for; a
request needs the negotiated login, a command an administrator's; each message
is recognised at its last byte and decoded to what it holds; the users table
neither leaks nor lists a freed name; the sets given to `pselect` are those of
the items; the reply says what happened; the metrics are what the manual says.

## Modules

| Module | Models |
|---|---|
| `Buffer` | the operations of `buffer.c` as operators on a record `[data, read, write, limit]` |
| `BufferQueue` | one buffer under any sequence of calls, beside the queue it should be |
| `Relay` | abstract: two streams, bounded, in order, each shut once |
| `Copy` | the COPY stage of one connection, with the two peers; implements `Relay` |
| `MyParser` | `myParser.c`: a list of substates run over bytes (operators only) |
| `RequestParser` | `request_parser.c`, and the layout of a request read by position (operators only) |
| `Handshake` | one client byte by byte: greeting, login, then request or management command |
| `Proxy` | the connections' whole life in the loop: selector, kernel descriptors, pool, threads, handshake, connecting, teardown, exit; COPY reduced to its open directions |
| `Registrations` | abstract: descriptors with an interest and an owner, events to the owner of the moment, one release per registration |
| `SelectorTable` | `selector.c` from the inside, with handlers that change the table while it is walked; implements `Registrations` |
| `Registry` | abstract: a bounded list of accounts, two settings, sessions admitted by them as they stand |
| `Management` | `clientM16` processes, management sessions, the users table and the SOCKS sessions it reaches; implements `Registry` |
| `Dissector` | the password automaton of one connection with its memory, against a definition of the exchanges it should find |
| `DataLemmas` | lemmas about operators: buffers, sets of naturals, remainders |
| `BufferQueueProofs`, `CopyProofs`, `ManagementProofs`, `SelectorTableProofs`, `ProxyProofs`, `DissectorProofs`, `HandshakeProofs` | inductive invariants and theorems |
| `MC*` | model-checking instances |

Names are those of the source. In each module `Mut_*` definitions are plausible
bugs of one definition; replacing it by the mutation makes TLC find the named
property violated (`PROJECT.json`, "mutants"), which shows that the property
depends on the code.

**Buffer, BufferQueue.** Pointers are offsets from `b->data`. `recv` and `send`
through the returned pointer are `Fill` and `Outgoing`. The ghost `q` is the queue.

**Copy.** `interest[s]` is `copy_st.interest`, `armed[s]` the interest in the
selector, `rb[s]` the buffer side `s` reads into (the other side's `wb`). An
action is one handler call: `recv` or `send`, metrics, both
`copy_compute_interests` and the decision on DONE. A byte is its position in its
stream, because COPY never looks at values. The peers send, end or reset at any
time. `Init` is the moment the reply's last byte is about to leave, with any
number of bytes the client sent early already in `read_buffer`.
A `recv` returns everything available up to the room (a short count otherwise
adds only splits that two sends of the peer also produce); a `send` takes any
part. Spurious readiness (`EAGAIN`) is not part of `Copy`; `Proxy` lets a
direction end on any event.

**MyParser, RequestParser, Handshake.** One operator per function of the three
parsers; an action of `Handshake` is a handler's whole call: `recv` of any bytes
that fit (or the end of the stream), the consumption of what is in the buffer
until the message is complete, the decision, and the reply placed in
`write_buffer`; or `send` of any part of it. `read_buffer` and `write_buffer`
keep their bytes and their write pointer, so their room runs out as in the code.
Bytes sent ahead of a stage wait in `rb` for the next stage's `recv`. A field of
a request is a function from the indices written so far, so a store outside it
shows, as does the one that an empty name makes at index -1. The references
(`RequestLen`, `Malformed`, `Field` and their like for the greeting, the login
and the commands) are read by position, not by state, and compared with `fed`,
the bytes the stage's parser took. Allocations that fail are left to `Proxy` and
`Management`.

**Proxy.** Calls that change state are operators from a *world* (a record of the
variables they touch) to a world, so `connection`, `connecting_write`,
`socksv5_done` and the others compose as the C functions do; an action is one
event served by one handler, including the state machine's jump, its arrival
code and the teardown on a terminal stage. The pass is explicit: `phase`, and
`todo`, the events of this pass not looked at yet. A stale event is served when
the item at that number wants it. `conn[c]` keeps the struct's fields that
decide control; the bytes of messages are reduced to their outcome (complete or
not, method, verdict, reply status), each chosen freely: `Handshake` shows which
bytes give which. `origin_addr` and the
list of addresses are a count. The kernel gives the lowest free descriptor;
descriptor 0 stands for the listening socket. `connect` follows Linux: a second
call on the same socket gives `EALREADY` while in progress (an error to the
code), 0 once the connection is up and unreported, and after a failure was
reported the socket can be connected again. A struct's fields after release are
reset in the model; `socks5_new` clears them before they are read again.
A login with a bad version passes a null pointer to `strcmp`: with
`BadVersion` the process may end there. With `OutOfMemory`, allocations fail
where they are made: the struct's, the thread's argument and its job,
`request_init`'s two (which queue an error and arm the client to write in a stage
that only reads, or use the null pointer), and, as `unchecked_malloc`, those whose
result nobody looks at. `shutdown` is what `main` does after the
signal, between two passes: `selector_destroy`, then the pools.

**SelectorTable.** The fields of `struct fdselector` are variables; the functions
of `selector.c` take and return them as one record `S`. `scan` is where
`handle_iteration` is: which item, which half of it, and, while a handler runs,
the `selector_key` it was given, which is filled in once per item. A running
handler (or `main` before the loop) calls any sequence of register, set
interest, and unregister-and-close; no handler of the program registers after it
unregistered, which `scan.dropped` states. `overrun` records an access past the
table. `held`, `due` and `overrun` are history.

**Management.** `users` is an array of pointers, `heap` what `malloc` gave out,
so that a copy left past the end or a freed name is visible. A message is one
atom (`Handshake` has the bytes); a session and its client share a record, with
at most one message in each direction because the client speaks in turn. The
handlers of `mng_nio.c`'s stages are the actions; `process_mng_params_request`
runs the four commands that change state. The eight counters are one command
("metric"). SOCKS sessions take the method when they begin, look up the table
when they log in and keep `userIndex`. With `OutOfMemory`, allocations fail at
each place where one is made, and the process may die where the code then uses
the null or uninitialised pointer. The client takes an answer with one `recv` of
`recv_size` bytes and ignores its result: it may bring nothing, the status alone,
a part of the values or all of them, and a list may be longer than it. `told` is
what the client then says: "ok", "error", "garbled" (success, with values that did
not arrive) or "noise" (not even the status did). A connection that `accept`
cannot take stays in the backlog.

**Dissector.** `dissec_consume` is the code's automaton with its two heap
strings (`checkSize`, the resets, frees). `Advance` keeps the longest end of the
stream that can still become an exchange, by definition and not by states. A text
may have `MaxText` bytes, as the header says; one of exactly that length is part
of a beginning that the automaton never finishes (`Finishes`).
`copy_read` gives bytes of either end: the automaton does not know whose, so
their interleavings are all byte sequences.

## Runs

| Run | Instance | Result |
|---|---|---|
| `BufferQueue` | 4 cells, 2 byte values | the pointers stay in order, the buffer is the queue, a drained buffer is rewound |
| `Copy` | buffers of 2, 3 bytes per peer | streams intact, directions closed at both ends, no stall, no idle handler, exact transfer counter, discounted once; ends propagate, bytes are delivered, `Copy` implements `Relay` |
| `Handshake` | `read_buffer` of 3, `write_buffer` of 5, texts of 0 to 2, both services, both settings | each message is recognised at its last byte whatever the split, decoded to what it holds, answered with whole and agreeing replies, stored within its memory (but for an empty name's terminator) |
| `Proxy` | 2 connections, 4 descriptors, names of 0 to 2 addresses, pool of 1 | references, registration, no abort, nobody forgotten, resolver threads, login before request, everything released at exit |
| `ProxyFaults` | 2 connections, 3 descriptors (they run out), names of 0 to 3 addresses, failing allocations, immediate connects, bad login versions | what holds under any failure: no entry outlives its struct and none armed its descriptor, the pool, the order of the metrics and a gauge that never falls short, a reply whenever one is waited for |
| `ProxyLive` | 2 connections | every resolution ends |
| `SelectorTable` | 3 valid descriptors out of 4, 2 owners | the sets and `max_fd` are those of the items, no access past the table, one release per registration, reported events handled in turn; it implements `Registrations` |
| `Management` | a table of 2, 2 names, an administrator and a SOCKS session, failing allocations | the table is sound, the log names who logged in, commands need a login, the status the client reads is that of its command, and it never waits for ever; it implements `Registry` |
| `Dissector` | words of 2 and 3 bytes, texts given up at 3, reads of up to 2 bytes | the automaton is as far as the longest candidate, prints exactly the exchanges that end (a password of the maximum length does not end one), and keeps to its memory |

Three statements of the sources' own comments do not hold. Each has a run
whose counterexample shows it and a finding in `PROJECT.json`:

| Run | What it shows |
|---|---|
| `CopyLoss` | bytes queued when the end of stream arrives are dropped |
| `ProxyRetry` | success on a later address is reported as the earlier failure |
| `ManagementList` | a list of users that passes its check is longer than the buffer it is written to |

### Departures the models make visible

These follow from the code as it is; the properties are stated so as to say what
remains true in spite of them.

*Connecting.* With a third address, a retry on the registered descriptor may
close it without unregistering it (`RegisteredIsOpen`) or keep a reference too
many (`RefsExact`); `Proxy` checks the strict properties with at most two
addresses and asynchronous connects, `ProxyFaults` what is left beyond that: a
reference is never missing and a closed descriptor is never armed. Failed
attempts leave their replies in the buffer, so a client may receive several
(`AnswerQueued` says that one is never missing). A `connect` that completes at
once aborts the server. Readiness of a closed descriptor is served on its
successor, to its present owner.

*Counting.* A client lost between the successful connect and COPY stays in the
gauge. `pool_size` never shrinks, so a pool that has taken `max_pool` structs
takes no more. The running averages truncate at every step and drift below the
mean, of which `MetricsBounded` states the safe half. A failed allocation in
`request_process` ends in COPY without an origin; one in `request_init` arms
OP_WRITE in REQUEST_READ, which has no handler for it, so the server aborts unless
the client is heard first.

*Messages.* A login with a wrong version compares null pointers with the names
of the table (the stage `NULL_READ`). A name of length 0 writes its terminator
to the cell before the name (which `StoresInField` excepts, and nothing else)
and takes a byte of the port as the name. After an unsupported command or
address type the bytes are swallowed and the client is never answered, although
`request.h` lists the replies (`RequestExact` says that only complete requests
leave REQUEST_READ). A complete message sent ahead waits for another `recv`.
Bytes sent ahead that fill `read_buffer` look like an end of stream (in the
index stage, like a server error). Each call of `auth_write` marshals its
verdict again, so partial sends repeat it; a management client may then take the
repetition for a server error. An answer that arrives in parts, or a list longer
than the client's buffer, is printed, and with `-f` written to a file, with
bytes that never arrived. `TruthfulAnswer` says what remains: a status that
arrived is that of the command, unless it is such a repetition, and only the
values of queries can be garbled.

*Users.* From the deletion of an entry at or below it, a session's `userIndex`
may name another user, nobody, or freed memory (`LogNamesUser` says exactly
when). Sessions without login are logged as `users[0]`. Deleting an unknown name
is answered with success. A list that fails its check is answered with nothing,
and the client prints what its buffer held.

*Dissector.* A text of exactly the maximum length (255) is given up, although
`dissec_parser.h` calls 255 the maximum; `ReportsExact` takes the header's bound
and says that such a password is not reported. A NUL cuts what is printed. An
empty password and a search given up within one leak their memory. Bytes read
while the switch is off are skipped, so an exchange may be joined across the
gap.

*Exit.* Resolver threads are not waited for.

### Bounds, and why they suffice

* *Buffers of 2 to 4 cells*: full, empty, partly read and compacted buffers all
  occur; the proofs cover every size.
* *`Handshake`*: `Sendable` gives each stage the byte values its parser compares
  with and a wrong one for each field; 3 bytes of `read_buffer` give every split
  of a message, bytes behind it and a buffer that fills up; 5 of `write_buffer`
  hold two verdicts of two bytes and refuse a third; `MaxText` 2 gives empty,
  short and cut texts.
* *Two connections*: descriptors and structs are shared by pairs; a second one is
  enough for reuse through the pool, two resolutions at once and one client's
  events between another's.
* *Descriptors*: 4 let two connections have an origin each; 3 make the second
  one run out. In `SelectorTable` a fourth descriptor is past the limit, and
  three give an item below, at and above the one being handled.
* *Addresses*: with 2 there is one retry, with 3 a retry of a retry.
* *`max_pool` 1*: the pool is full after one release.
* *`MaxAccepts`* bounds the clients; every counter is bounded by it.
* *`CopyArms`*: an open direction is armed at its reading end, or at both. The
  third case (only the writing end) is in the constant's range; `Copy` covers it.
* *`Management`*: two entries are enough for a shift, a full table and a duplicate
  name; administrators come one after another, any number of times, so their
  commands interleave with a SOCKS session's stages (commands are single
  handlers, so two sessions add no interleaving within one; the proofs cover any
  number, and `ManagementList` runs with two). `NameLen`, `wb_size` and
  `recv_size` (2048 and 500 in the code) are chosen so that some lists fit and some
  do not.
* *`Dissector`*: the words are as short as their comparison allows (a first byte
  that does not recur, a line end within the second one), `MaxText` and
  `BUFFER_SIZE` are such that memory grows once and a text is given up.

`Terminated` in `Copy` and `Proxy`, and the last disjunct of `Next` elsewhere,
stutter after an abort, DONE or the end of the loop, so that every other state
without a successor is reported as a deadlock.

### Fairness

`Copy`: weak fairness of the handlers of each socket. The loop serves in each
pass every armed socket the kernel reports, and readiness is level-triggered. A
peer that stops reading is not modelled as blocking `send` for ever. Nothing is
assumed of what the peers send.

`Proxy`: weak fairness of the loop as a whole (it never waits more than the ten
seconds of `select_timeout`, and ends each pass with the notifications), and
strong fairness of each resolver thread, since the mutex it needs is held by the
loop again and again but never for ever. No fairness for clients, origins or the
network. `getaddrinfo` is assumed to return.

`Management`: weak fairness of the handlers of each session, for the same reason
as in `Copy`, and of each client's `recv`, which is blocking and is all the
client does between two messages. An `accept` that fails changes nothing, so this
also assumes that it succeeds in the end. Nobody has to start a client or to go on
living.

## Proofs

**Buffer.** `BufferIsQueue` (`BufferQueueProofs`): for every set of bytes and
every size, `Spec => []IsQueue`, the pointers in order, the contents the queue, a
drained buffer rewound. The conjunction is inductive as it stands; `DataLemmas`
states what each operation does to the contents (`Contents`) and to the pointers,
with sequences as functions so that `q \o msg` and `SubSeq` reduce to their
values at each index.

**COPY** (`CopyProofs`, for every buffer size and stream length). `CopyTypeOK`,
`CopyNoStall` (the property `InterestsSound`), `CopyStreamIntact`: that a
direction has an armed end depends on what the registrations are computed from,
so `NoStall` is not inductive. The invariant `CInv` adds to the type invariant
that directions are paired, that in COPY `armed` is exactly
`copy_compute_interests` of the current interests and buffers, that a drained
buffer is rewound, and that the delivered bytes followed by the buffered ones
are the received ones. A buffer with neither room nor content would need a size
of 0, which `BufferSizeAssumption` excludes; that is the step that gives
`NoStall`. `CopyMetrics`: `MetricsBounded` is inductive beside `CInv`, with one
fact about a truncated running average (`AverageBound`: it never gains what its
division drops) and two about `recvd` and `out` as sums of two sides.
`CopyImplementsRelay`: every `recv` is an `Accept`, every `send` a `Deliver`,
and what either closes a `Shut`, or nothing of `Relay` changes; `CInv` gives the
bound on what is in flight and the order. `Relay`'s own fairness stays with the
run `Copy`, which checks the whole of `Relay`'s specification.

**Management** (`ManagementProofs`, for every table size, any accounts and any
number of administrators and sessions). `LoginBeforeCommands`,
`TableStaysSound`, `LogNamesLoggedIn`: `CommandsNeedLogin` needs to know what
the pending reply of each stage was computed from (`RepliesKnown`). `TableSound`
is inductive with the types of the table: it is the distinctness of the blocks
that makes the entry freed by `deleteUser` nobody else's. `LogNamesUser` rests
on it. The entry that `deleteUser` finds is a `CHOOSE` over the entries of a
name: `DataLemmas` proves that a set of naturals has a least element, from the
well-foundedness of `<`, and a bounded one a greatest. `AnswersTruthful`: what
the client prints depends on the whole exchange; `AnswerInv` says that the
server's reply tells what it did (`ServerTells`), that client and server are in
lock step, with the one exception of a verdict sent again (`LockStep`), and what
the client may hear from there (`ClientHears`): the status of a change's answer
is the whole of it, so that a part of an answer can only garble a query's
values. `ImplementsRegistry`: the list of accounts of `Registry` is the table's
first `nusers` entries read through their pointers, so a shift of pointers is
the removal of an element (`RemoveAtIs`) because `TableSound` keeps every other
entry's block where it was; `SockKinds` says that a session past its greeting
holds the method it was greeted with.

**Selector** (`SelectorTableProofs`, for every `FD_SETSIZE`, any number of
descriptors and any owners). `SelectWatchesItems`, `NoOverrun`,
`OwnersReleasedOnce`: each function of `selector.c` is shown to map a sound table
(`Good`) to a sound one and to add or remove exactly its descriptor; an action
commits the result of one function. `Good` is the properties with two facts they
need: item `i` holds descriptor `i` or nothing (`ItemsOwn`), since the sets are
updated through the item's own number, and the table has its largest size, from
`InitialAssumption`. The open descriptors are the registered ones, which is why
the kernel's next one is always a free item and a retry's registration changes
nothing. `ReportedIsHandled`: `HandledInTurn` speaks of the end of a pass only;
`WalkInv` carries it through the walk: whatever is owed is registered for, is in
the sets that `pselect` returned, and lies ahead of the walk's position (`DueOK`),
and the key filled in once per item is its owner's or the handler unregistered
the item (`KeyOK`, `OwnerOK`), which is what the second half of an item relies
on. `ImplementsRegistrations` follows with the same facts: an event is delivered
to the owner the item has at that moment.

**Connections** (`ProxyProofs`): `TypeCorrect`,
`EntriesDoNotDangle`, `PoolIsSound`, `ResolverWritesToItsOwn`, `LoginComesFirst`,
`ReplyIsQueued`, `MetricsKeepOrder`, for any numbers of connections,
descriptors, addresses and accepted clients, any pool size, and whatever connects
and allocations do. `ProxyInv` is their common invariant, in terms of the world
an action commits:

* `Basic`, which even `selector_destroy` keeps half way: types, an unused item is
  not armed, a used one has a live struct, an armed one an open descriptor, a
  struct at least one reference per entry, and the pool holds each struct once
  and none in use. The references cannot be counted exactly, because a retry
  takes one for an entry it already has.
* `Links`: what is armed is the client or the origin of its owner (`Uses`), and a
  descriptor is used by one connection in one role. Without it, closing a
  connection's origin could close a stranger's descriptor. An entry may outlive
  its use, when a retry closes a descriptor it leaves registered, which is why
  `Links` speaks of use and not of entries.
* `Conns`: what each stage is entered with (`Staged`: no origin and one reference
  before the request, the method, the verdict, a reply) and that an origin no
  failure was seen of has its own entry, so that COPY's interests reach it.
* `Queued`: each notification is for a connection that waits for it, once.
* `Counted`: relayed connections are within the gauge, and attempts that are
  undecided within the attempts that are not yet successes, which is the slack
  that a success uses.
* `Gone`, after the exit.

The first half of `ProxyProofs` proves of each operator (`socks5_destroy`,
`connection`, `give_up`, `Relay` and the others) that it takes a safe world to a
safe one and what it does to connections it was not called for (`Frame`): their
stage, descriptors and entries stay; one may only lose a stale entry, with its
reference, when its descriptor's number is used again. `Serves` composes this
with what a handler does to its own connection and to the metrics; `HandlerNext`
turns it into the invariant's next state, once for all handlers. What is done to
*every* connection at the exit, `selector_destroy`, is a recursive function of
the number of items visited: `VisitsExist` shows by the least counterexample
that there is such a function, and `AllVisited` what it has done after each item
by the same argument. TLC checked `ProxyInv` on `ProxyFaults`' instance before
it was proved.

The strict properties are false for every value of the constants (see the
departures above), so five more theorems have the hypothesis `OneRetry`: names
have at most two addresses and no connect succeeds at once, the limits of the run
`Proxy`. Connections, descriptors, accepted clients and the pool are any number.
`ReferencesAreEntries` (`RefsExact`), `EntriesAreOpen` (`RegisteredIsOpen`) and
`ExitIsClean` (`ExitReleasesAll`) hold then even when memory runs out and
with bad login versions; `NeverReachesAbort` (`NeverAborts`) needs that no client
opens its login with a bad version and that allocations succeed, since either ends
in an abort; `NobodyIsForgotten`
(`NotForgotten`) that allocations succeed, because a failed one leaves a request
waiting for a notification that never comes. None is inductive; `TightInv`
strengthens `ProxyInv`:

* every entry is used by its owner and every struct in use has its client's
  entry, so nothing waits for a stale entry to be replaced;
* `Shaped`: the references are two if the origin has its entry and one if not, and
  in each stage it is known what the client and the origin are armed for. While
  allocations succeed the handlers' `abort()` is unreachable, because these
  interests are those `stm.c` has a handler for; `Faulty` is the one exception, a
  connection in REQUEST_READ for which `request_init` has queued an error;
* `Attempting`, of `REQUEST_CONNECTING`: a second attempt is made on the socket of
  the first, and only one attempt can follow a failure. Before it starts the origin
  is silent and the client armed. This is where more fails: a third
  attempt finds the socket usable again and closes it although it is registered,
  and a connect that completes at once arms the client to read, for which the
  stage has no handler;
* `Awaited`: a name asked for is being resolved, or its notification is queued.

There is a lemma for each operator (`GiveUpIs`, `ConnectionIs` and the others say
what it does to the fields `Shaped` is about), one for each action, and for the
exit `AllExact`: references stay equal to entries as one item after the other is
unregistered (`ExactStep`), so none are left when all items are unused. TLC
checked `TightInv` on the instance of `Proxy`, with failing allocations and bad
versions too, before it was proved.

**Handshake** (`HandshakeProofs`, for every set of bytes, every table of users,
every length of a field and size of a buffer, and every split of a message into
`recv`s and of a reply into `send`s). `GreetingIsExact`, `LoginIsExact`,
`CommandIsExact`, `RequestIsExact`, `RepliesAreExact`, `StoresStayInField`: the six
properties of the run `Handshake`. None is inductive, because each compares the
end of a message with the message, and says little of a parser on its way.
`HandshakeInv` gives the state of the parser of each stage as a function of `fed`,
the bytes the stage's parser took, read by position: `HelloGood` for the greeting;
`RequestGood` for the request, where the address and the port are the bytes of
`fed` from `AddrStart` and `PortStart` on, as far as `read` has come, and an error
means `Malformed`; `ListGood` for every list of substates of `myParser.c` (`c`
says whether it has a lead byte, with which check, and how many texts), where
the texts already read lie in their memory with a NUL behind them. To these it
adds what the stage owes the client (`Said`, `Admitted`, `Refused`) and the
order of the buffers. Three layers prove it:

* one byte: `HelloFeeds`, `ListFeeds` and `RequestFeeds` show that a parser that is
  not done goes from what `fed` says to what `fed` with the byte says;
* one read: the loops of `hello_consume`, `consume` and `request_consume` are
  recursive functions of the number of bytes; `RunGood` carries the layer below
  through all three at once, by the least counterexample, and adds that a read
  that does not end the message takes every byte;
* one handler: a lemma for each action (`HelloReadKeeps` and the others).

From `HandshakeInv` the properties follow without another induction: no prefix
of an unfinished stream is a message (`TwoTextsShort`, `VerdictHolds`), a
finished one ends where its counts say (`TwoTextsEnd`), and the C string in a
text's memory is the text up to its first NUL (`CStringText`).
`StoresStayInField` excepts one store, `OutsideHost`: of a request with an empty
name, the cell at -1. TLC checked `HandshakeInv` on the run's instance before it
was proved.

**Dissector** (`DissectorProofs`, for any bytes, any split into reads, any maximal
text length and any step of growth). `MemoryStaysSafe`: `MemorySafe` says nothing
of what the next store needs; `Sane` adds what each state of the automaton relies
on: while a text is read, its string has memory in whole steps of `BUFFER_SIZE`
with room for the next byte unless `checkSize` comes first (`Grown`), and between
the name's line end and the reset the name is live. A read is a recursive
function of the number of bytes, as in `dissec_consume`'s loop; that it exists
and stays sane is an induction by the least counterexample, as for
`selector_destroy`.

`ProgressIsExact` and `ReportsAreExact` compare the automaton with the definition
of an exchange. `ProgressExact` alone is not inductive: it does not say that the
texts in memory are those of the candidate, nor that no later beginning is
overlooked. `DissectorInv` (`Together`) says both. Its proof has three layers:

* the definition: `PlaceGrows` gives the place of `w` with one more byte from the
  place of `w` (`PlaceOf` itself looks at the whole of `w`), and `Beside` says what
  place a shorter end of the candidate can have: past the name's line the same
  byte, within a line one before that line's last byte (`BesideGrows` keeps it,
  `BesideFresh` and `BesideStuck` begin and end it). With these `AdvanceMoves`
  turns the search for the longest candidate into a case
  distinction on the last byte: the form the automaton has;
* one byte: for each of the four states, the handler does to the struct what
  `Advance` does to the candidate (`UserWordFollows` and the others), and what is
  printed is what the stream holds up to its first NUL (`TextIs`);
* one read: `ReadTogether` carries this through the loop, by the least
  counterexample.

TLC checked `DissectorInv` and the claims of the first layer on the run's instance
before they were proved.

Assumptions: sizes are positive naturals, sets of bytes are not empty, bounds are
naturals, the values that stand for "none" are not values of the data, the
connections are finitely many. In `SelectorTable` the initial size is at least
`FD_SETSIZE`, as `main.c` asks, and a smallest power of two above it exists, which
`next_capacity` asserts. In `Dissector` CR, LF and the bytes over 127 differ, the
word "user " has at least two bytes, none of which ends a line or is over 127,
and its first byte recurs in neither word, all of which the words of
`dissec_parser.c` satisfy. Nothing is assumed about interleaving, peers, clients or
kernels.

Only model-checked: the liveness properties, `Relay`'s fairness included,
because the prover handles neither fairness nor `ENABLED`. Every invariant that
a run expects to hold is proved, those of `Proxy` that are strict under
`OneRetry` alone.

## Not modelled

* The management service's pool of structs: the shape of the SOCKS pool, which
  `Proxy` has. The encoding of the counters.
* The bytes of a reply after its status, the freeing of parsers and of the address
  list, the text of the access log, the login counter (one increment).
* `single_read` of `myParser.c`, which no list of substates uses.
* The administrators' file, argument parsing (the users it stores are the
  initial states of `Management`), set-up of sockets and signals,
  `selector_error`, address formatting, debug output, the client's prompts and
  the layout of what it prints: they carry no state that anything else changes.
* Memory that is lost without being touched again (leaks of the dissector).

## Plan

1. *Done*: `Buffer`, `Copy`, `Relay`, `Proxy` and their runs; proofs of the buffer
   and of the relay's safety.
2. *Done*: `Handshake` with `MyParser` and `RequestParser`; `Management` with
   `Registry`; `SelectorTable` with `Registrations`; the exit, in `Proxy`;
   `Dissector`; proofs of the users table, of the management login and of the
   selector's table.
3. *Done*, proofs: `Copy`'s metrics and its refinement of `Relay`; the walk of
   `SelectorTable` and its refinement of `Registrations`; `TruthfulAnswer` and the
   refinement of `Registry`; `Proxy`'s types, entries, pool, resolver, login,
   replies and metrics, and under `OneRetry` its strict properties; `Dissector`
   and the parsers of `Handshake` with all their properties.
4. *Left*: a bound on the references that a third address may leak, and how
   many replies a client may receive, in place of `OneRetry`.
