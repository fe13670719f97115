---------------------------- MODULE SelectorTable ----------------------------
(***************************************************************************)
(* selector.c from the inside: the growing table of items, max_fd, the     *)
(* descriptor sets kept beside it, and handle_iteration, which walks the   *)
(* table while the handlers it calls change it.  Registrations is what     *)
(* this implements.  The notifications of resolver threads and the jobs    *)
(* they queue are in Proxy.                                                *)
(***************************************************************************)
EXTENDS Integers, FiniteSets

CONSTANTS
    ITEMS_MAX_SIZE,            \* FD_SETSIZE, 1024 in the build
    SELECTOR_INITIAL_ELEMENTS, \* what main.c asks for, 1024
    OpenMax,                   \* bound: the kernel gives out 0..OpenMax
    Data,                      \* what registrations carry: a struct socks5, or a
                               \* listening socket's own handler
    Nobody                     \* the data of an unused item

ASSUME SizeAssumption == ITEMS_MAX_SIZE \in Nat \ {0} /\ OpenMax \in Nat
\* As in main.c, the table is asked for at its largest.
ASSUME InitialAssumption ==
    SELECTOR_INITIAL_ELEMENTS \in Nat /\ SELECTOR_INITIAL_ELEMENTS >= ITEMS_MAX_SIZE
\* next_capacity asserts that its shift ends above n: there is a smallest power.
ASSUME PowerAssumption ==
    LET n == SELECTOR_INITIAL_ELEMENTS
    IN /\ \A b \in 0..n : 2^b \in Nat
       /\ \E b \in 0..n : 2^b > n /\ \A c \in 0..n : 2^c > n => 2^b <= 2^c
ASSUME DataAssumption == Nobody \notin Data

VARIABLES
    fds,          \* fds[i] for i < fd_size
    fd_size, max_fd,
    master_r, master_w, slave_r, slave_w,
    scan,         \* where handle_iteration is
    open,         \* the descriptors the kernel has given out
    held,         \* history: held[d], registrations of d without handle_close
    due,          \* history: events of this iteration that must be handled
    overrun       \* history: an item past the end of fds was touched

sets == <<master_r, master_w>>
vars == <<fds, fd_size, max_fd, sets, slave_r, slave_w, scan, open, held, due, overrun>>

R == "r"
W == "w"
FD_UNUSED == -1
Unused == [fd |-> FD_UNUSED, interest |-> {}, data |-> Nobody]

INVALID_FD(f) == f < 0 \/ f >= ITEMS_MAX_SIZE
Valid == 0..(ITEMS_MAX_SIZE - 1)

\* The selector's own fields, as one value.
S0 == [fds |-> fds, fd_size |-> fd_size, max_fd |-> max_fd,
       master_r |-> master_r, master_w |-> master_w, held |-> held, overrun |-> overrun]
Commit(S) ==
    /\ fds' = S.fds /\ fd_size' = S.fd_size /\ max_fd' = S.max_fd
    /\ master_r' = S.master_r /\ master_w' = S.master_w
    /\ held' = S.held /\ overrun' = S.overrun

ITEM_USED(S, i) == S.fds[i].fd # FD_UNUSED

-----------------------------------------------------------------------------
(* The table *)

\* The smallest power of two above n, within the platform's limit, plus one.
next_capacity(n) ==
    LET power == CHOOSE p \in {2^b : b \in 0..n} :
                     p > n /\ \A q \in {2^b : b \in 0..n} : q > n => p <= q
    IN (IF power > ITEMS_MAX_SIZE THEN ITEMS_MAX_SIZE ELSE power) + 1

items_max_fd(S) ==
    LET used == {S.fds[i].fd : i \in {j \in 0..S.max_fd : ITEM_USED(S, j)}}
    IN IF used = {} THEN 0 ELSE CHOOSE m \in used : \A f \in used : f <= m

items_update_fdset_for_fd(S, i) ==
    LET it == S.fds[i]
    IN [S EXCEPT !.master_r = (@ \ {it.fd}) \cup (IF R \in it.interest THEN {it.fd} ELSE {}),
                 !.master_w = (@ \ {it.fd}) \cup (IF W \in it.interest THEN {it.fd} ELSE {})]

\* Growing keeps the items.
ensure_capacity(S, n) ==
    IF n < S.fd_size \/ n > ITEMS_MAX_SIZE THEN S
    ELSE LET size == next_capacity(n)
         IN [S EXCEPT !.fd_size = size,
                      !.fds = [i \in 0..(size - 1) |->
                                 IF i < S.fd_size THEN S.fds[i] ELSE Unused]]

Store(S, f, d, int) ==
    items_update_fdset_for_fd(
        [S EXCEPT !.fds[f] = [fd |-> f, interest |-> int, data |-> d],
                  !.max_fd = IF f > @ THEN f ELSE @,
                  !.held[d] = @ + 1], f)

\* The table grows for a descriptor past fd_size, not for fd_size itself.
selector_register(S, f, d, int) ==
    IF INVALID_FD(f) THEN S
    ELSE LET G == IF f > S.fd_size THEN ensure_capacity(S, f) ELSE S
         IN IF f \notin DOMAIN G.fds THEN [G EXCEPT !.overrun = TRUE]
            ELSE IF ITEM_USED(G, f) THEN G
            ELSE Store(G, f, d, int)

\* Mutation: the item is cleared before the sets are updated.
Mut_unregister_clears_first(S, f) ==
    IF INVALID_FD(f) \/ ~ITEM_USED(S, f) THEN S
    ELSE LET G == [S EXCEPT !.held[S.fds[f].data] = @ - 1, !.fds[f] = Unused]
             U == items_update_fdset_for_fd(G, f)
         IN [U EXCEPT !.max_fd = items_max_fd(U)]

\* handle_close, then the sets while the item still knows its descriptor,
\* then the item.
selector_unregister_fd(S, f) ==
    IF INVALID_FD(f) \/ ~ITEM_USED(S, f) THEN S
    ELSE LET closed == [S EXCEPT !.held[S.fds[f].data] = @ - 1]
             U == items_update_fdset_for_fd([closed EXCEPT !.fds[f].interest = {}], f)
             C == [U EXCEPT !.fds[f] = Unused]
         IN [C EXCEPT !.max_fd = items_max_fd(C)]

selector_set_interest(S, f, int) ==
    IF INVALID_FD(f) \/ ~ITEM_USED(S, f) THEN S
    ELSE items_update_fdset_for_fd([S EXCEPT !.fds[f].interest = int], f)

-----------------------------------------------------------------------------
(* The loop: at is "boot" before it, "idle" between two calls of            *)
(* selector_select, then "item", "read", "write" for item i, or "call"      *)
(* while a handler runs.  key is the event's selector_key; dropped says     *)
(* whether the running handler unregistered anything.                       *)

NoKey == [fd |-> 0, op |-> "none", data |-> Nobody]
At(a) == scan.at = a
Walk(fields) == scan' = [x \in DOMAIN scan |-> IF x \in DOMAIN fields THEN fields[x] ELSE scan[x]]
tables == <<fds, fd_size, max_fd, sets, held, overrun>>

start ==
    /\ At("boot") /\ Walk([at |-> "idle"])
    /\ UNCHANGED <<tables, slave_r, slave_w, open, due>>

\* pselect over the descriptors up to max_fd reports any of those asked for.
selector_select ==
    /\ At("idle")
    /\ slave_r' \in SUBSET {f \in master_r : f <= max_fd}
    /\ slave_w' \in SUBSET {f \in master_w : f <= max_fd}
    /\ due' = (slave_r' \X {R}) \cup (slave_w' \X {W})
    /\ Walk([at |-> "item", i |-> 0, n |-> max_fd])
    /\ UNCHANGED <<tables, open>>

\* The key is filled in once for both operations of an item.
next_item ==
    /\ At("item") /\ scan.i <= scan.n
    /\ IF ITEM_USED(S0, scan.i) THEN Walk([at |-> "read", data |-> fds[scan.i].data])
       ELSE Walk([i |-> scan.i + 1])
    /\ UNCHANGED <<tables, slave_r, slave_w, open, due>>

\* The slave sets are not read again before selector_select fills them.
iteration_ends ==
    /\ At("item") /\ scan.i > scan.n
    /\ Walk([at |-> "idle", i |-> 0, n |-> 0])
    /\ slave_r' = {} /\ slave_w' = {}
    /\ UNCHANGED <<tables, open, due>>

Call(op) ==
    /\ Walk([at |-> "call", dropped |-> FALSE,
             key |-> [fd |-> scan.i, op |-> op, data |-> scan.data]])
    /\ due' = due \ {<<scan.i, op>>}

\* Mutation: the interest is not looked at again.
Mut_write_half_unarmed ==
    /\ At("write")
    /\ IF scan.i \in slave_w THEN Call(W)
       ELSE Walk([at |-> "item", i |-> scan.i + 1, data |-> Nobody]) /\ UNCHANGED due
    /\ UNCHANGED <<tables, slave_r, slave_w, open>>

read_half ==
    /\ At("read")
    /\ IF scan.i \in slave_r /\ R \in fds[scan.i].interest THEN Call(R)
       ELSE Walk([at |-> "write"]) /\ UNCHANGED due
    /\ UNCHANGED <<tables, slave_r, slave_w, open>>

write_half ==
    /\ At("write")
    /\ IF scan.i \in slave_w /\ W \in fds[scan.i].interest THEN Call(W)
       ELSE Walk([at |-> "item", i |-> scan.i + 1, data |-> Nobody]) /\ UNCHANGED due
    /\ UNCHANGED <<tables, slave_r, slave_w, open>>

\* Mutation: writing is left for the next iteration.
Mut_handler_skips_write ==
    /\ At("call")
    /\ Walk([at |-> "item", i |-> scan.i + 1, data |-> Nobody, key |-> NoKey, dropped |-> FALSE])
    /\ UNCHANGED <<tables, slave_r, slave_w, open, due>>

handler_returns ==
    /\ At("call")
    /\ IF scan.key.op = R
       THEN Walk([at |-> "write", key |-> NoKey, dropped |-> FALSE])
       ELSE Walk([at |-> "item", i |-> scan.i + 1, data |-> Nobody, key |-> NoKey,
                  dropped |-> FALSE])
    /\ UNCHANGED <<tables, slave_r, slave_w, open, due>>

-----------------------------------------------------------------------------
(* What the program does with it.  No handler of socks5nio.c, mng_nio.c or   *)
(* the stages opens or registers a descriptor after it unregistered one.     *)

Lowest(F) == CHOOSE f \in F : \A g \in F : f <= g

\* main.c at the start, or a handler, gets a descriptor and registers it; if
\* that fails it is closed again.
open_and_register(d, int) ==
    /\ At("boot") \/ (At("call") /\ ~scan.dropped)
    /\ (0..OpenMax) \ open # {}
    /\ LET f == Lowest((0..OpenMax) \ open)
           S == selector_register(S0, f, d, int)
       IN /\ Commit(S)
          /\ open' = IF S.held = held THEN open ELSE open \cup {f}
    /\ UNCHANGED <<slave_r, slave_w, scan, due>>

\* connection() registers the origin's descriptor again on a retry.
register_again(f) ==
    /\ At("call") /\ ~scan.dropped /\ f \in open
    /\ Commit(selector_register(S0, f, fds[f].data, {W}))
    /\ UNCHANGED <<slave_r, slave_w, scan, open, due>>

set_interest(f, int) ==
    /\ At("call")
    /\ Commit(selector_set_interest(S0, f, int))
    /\ due' = {e \in due : e[1] # f \/ e[2] \in int}
    /\ UNCHANGED <<slave_r, slave_w, scan, open>>

\* A handler unregisters a descriptor and closes it.
unregister_and_close(f) ==
    /\ At("call") /\ f \in open
    /\ Commit(selector_unregister_fd(S0, f))
    /\ open' = open \ {f}
    /\ due' = {e \in due : e[1] # f}
    /\ Walk([dropped |-> TRUE])
    /\ UNCHANGED <<slave_r, slave_w>>

\* Mutation: the last item is left out.
Mut_destroy_short ==
    /\ At("idle")
    /\ held' = [d \in Data |-> held[d] - Cardinality({i \in 0..(max_fd - 1) : fds[i].data = d})]
    /\ fds' = << >> /\ fd_size' = 0 /\ max_fd' = 0
    /\ master_r' = {} /\ master_w' = {}
    /\ Walk([at |-> "destroyed"])
    /\ UNCHANGED <<slave_r, slave_w, open, due, overrun>>

\* After SIGTERM: every used item is unregistered, its owner told, and the
\* table freed.  The descriptors stay open until the process ends.
selector_destroy ==
    /\ At("idle")
    /\ held' = [d \in Data |-> held[d] - Cardinality({i \in DOMAIN fds : fds[i].data = d})]
    /\ fds' = << >> /\ fd_size' = 0 /\ max_fd' = 0
    /\ master_r' = {} /\ master_w' = {}
    /\ Walk([at |-> "destroyed"])
    /\ UNCHANGED <<slave_r, slave_w, open, due, overrun>>

\* Mutation: the table starts small and is left to grow.
Mut_selector_new_small == next_capacity(0)

\* The capacity selector_new(SELECTOR_INITIAL_ELEMENTS) allocates.
selector_new == next_capacity(SELECTOR_INITIAL_ELEMENTS)

Init ==
    /\ fd_size = selector_new /\ max_fd = 0
    /\ fds = [i \in 0..(fd_size - 1) |-> Unused]
    /\ master_r = {} /\ master_w = {} /\ slave_r = {} /\ slave_w = {}
    /\ scan = [at |-> "boot", i |-> 0, n |-> 0, data |-> Nobody, key |-> NoKey,
               dropped |-> FALSE]
    /\ open = {} /\ held = [d \in Data |-> 0] /\ due = {} /\ overrun = FALSE

Interests == SUBSET {R, W}

Program ==
    \/ \E d \in Data, int \in Interests : open_and_register(d, int)
    \/ \E f \in Valid, int \in Interests : set_interest(f, int)
    \/ \E f \in Valid : register_again(f) \/ unregister_and_close(f)

Next ==
    \/ start \/ selector_select \/ next_item \/ read_half \/ write_half
    \/ handler_returns \/ iteration_ends
    \/ Program
    \/ selector_destroy
    \/ At("destroyed") /\ UNCHANGED vars

Spec == Init /\ [][Next]_vars

-----------------------------------------------------------------------------
(* Properties *)

Used == {f \in DOMAIN fds : fds[f].fd # FD_UNUSED}

\* The sets given to pselect are always those of the items: whatever order
\* handlers register, change and unregister in, no descriptor is watched
\* without an item asking for it and none that asks is left out, max_fd
\* being the largest in use (items_update_fdset_for_fd, items_max_fd).
SetsMatchItems ==
    /\ master_r = {f \in Used : R \in fds[f].interest}
    /\ master_w = {f \in Used : W \in fds[f].interest}
    /\ \A f \in Used : f <= max_fd
    /\ max_fd = 0 \/ max_fd \in Used

\* No item past the end of fds is touched.  selector_register grows the table
\* one descriptor too late (fd > fd_size); main.c asks for the largest table
\* at the start, and that is what keeps every access within it.
InBounds == ~overrun /\ (At("item") /\ scan.i <= scan.n => scan.i \in DOMAIN fds)

\* handle_close is called once for each registration and never otherwise, so
\* owners are neither leaked nor released twice, by selector_destroy either.
ClosedOnce ==
    \A d \in Data : held[d] = Cardinality({f \in DOMAIN fds : fds[f].data = d})

\* What pselect reported is handled in the same iteration (handle_iteration),
\* unless a handler took the interest back meanwhile.
HandledInTurn == At("idle") => due = {}

Table == INSTANCE Registrations WITH
    Fds   <- Valid,
    reg   <- [f \in Valid |-> IF f \in Used THEN [owner |-> fds[f].data, int |-> fds[f].interest]
                                            ELSE [owner |-> Nobody, int |-> {}]],
    event <- scan.key

\* The table implements Registrations: in particular the data filled in for
\* an item before handle_read is still its owner's when handle_write gets it.
RegistrationsSpec == Table!Spec
=============================================================================
