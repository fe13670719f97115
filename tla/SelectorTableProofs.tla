------------------------- MODULE SelectorTableProofs -------------------------
(***************************************************************************)
(* The selector for every FD_SETSIZE, every number of descriptors and any  *)
(* owners.  The facts hold of each value S that an operation of selector.c *)
(* computes, so the lemmas are about operations and the steps only compose *)
(* them.  What makes them inductive is that item i holds descriptor i or   *)
(* none, and that the table has its largest size from the start.           *)
(***************************************************************************)
EXTENDS SelectorTable, DataLemmas, FiniteSetTheorems, TLAPS

StateFields == {"fds", "fd_size", "max_fd", "master_r", "master_w", "held", "overrun"}
ItemFields == {"fd", "interest", "data"}
ScanFields == {"at", "i", "n", "data", "key", "dropped"}
Cells == 0..ITEMS_MAX_SIZE

UsedIn(S) == {f \in Cells : S.fds[f].fd # FD_UNUSED}
OwnedIn(S, d) == {f \in Cells : S.fds[f].data = d}

\* The table and its types.
Shape(S) ==
    /\ DOMAIN S = StateFields
    /\ S.fd_size = ITEMS_MAX_SIZE + 1 /\ DOMAIN S.fds = Cells
    /\ S.overrun = FALSE /\ S.held \in [Data -> Nat]

\* Item i holds descriptor i and an owner, or nothing.
ItemsOwn(S) ==
    \A i \in Cells :
        /\ DOMAIN S.fds[i] = ItemFields
        /\ \/ S.fds[i] = Unused
           \/ S.fds[i].fd = i /\ i \in Valid /\ S.fds[i].data \in Data

\* The parts of SetsMatchItems and ClosedOnce for S.
SetsOf(S) ==
    /\ S.master_r = {f \in UsedIn(S) : R \in S.fds[f].interest}
    /\ S.master_w = {f \in UsedIn(S) : W \in S.fds[f].interest}
MaxOf(S) ==
    /\ S.max_fd \in Valid /\ \A f \in UsedIn(S) : f <= S.max_fd
    /\ S.max_fd = 0 \/ S.max_fd \in UsedIn(S)
HeldOf(S) == \A d \in Data : S.held[d] = Cardinality(OwnedIn(S, d))

Good(S) == Shape(S) /\ ItemsOwn(S) /\ SetsOf(S) /\ MaxOf(S) /\ HeldOf(S)

\* U has the items of S except for f's.
SameBut(U, S, f) == \A i \in Cells : i # f => U.fds[i] = S.fds[i]

\* U is S with f registered, with another interest for f, and without f.
Added(U, S, f, d, int) ==
    /\ UsedIn(U) = UsedIn(S) \cup {f} /\ SameBut(U, S, f)
    /\ U.held = [S.held EXCEPT ![d] = @ + 1] /\ U.held # S.held
    /\ U.fds[f].data = d /\ U.fds[f].interest = int
Changed(U, S, f, int) ==
    /\ UsedIn(U) = UsedIn(S) /\ SameBut(U, S, f) /\ U.held = S.held
    /\ U.fds[f].data = S.fds[f].data /\ U.fds[f].interest = int
Removed(U, S, f) ==
    /\ UsedIn(U) = UsedIn(S) \ {f} /\ SameBut(U, S, f)
    /\ U.held = [S.held EXCEPT ![S.fds[f].data] = @ - 1]

-----------------------------------------------------------------------------
(* The operations *)

\* What updating the sets does.
LEMMA UpdateFields ==
    ASSUME NEW S, Shape(S), NEW i
    PROVE  LET U == items_update_fdset_for_fd(S, i)
               g == S.fds[i].fd
           IN /\ Shape(U) /\ U.fds = S.fds /\ U.held = S.held /\ U.max_fd = S.max_fd
              /\ U.master_r = (S.master_r \ {g}) \cup (IF R \in S.fds[i].interest THEN {g} ELSE {})
              /\ U.master_w = (S.master_w \ {g}) \cup (IF W \in S.fds[i].interest THEN {g} ELSE {})
BY DEF items_update_fdset_for_fd, StateFields, Shape

\* Unused holds nothing.
LEMMA UnusedFields ==
    /\ Unused.fd = FD_UNUSED /\ Unused.data = Nobody /\ Unused.interest = {}
    /\ DOMAIN Unused = ItemFields /\ FD_UNUSED \notin Nat
BY DEF Unused, FD_UNUSED, ItemFields

\* An item is in use or empty.
LEMMA ItemCases ==
    ASSUME NEW S, ItemsOwn(S), NEW i \in Cells
    PROVE  /\ i \in UsedIn(S) => S.fds[i].fd = i /\ i \in Valid /\ S.fds[i].data \in Data
           /\ i \notin UsedIn(S) => S.fds[i] = Unused
BY UnusedFields, SizeAssumption DEF ItemsOwn, UsedIn, Valid, Cells

\* The cells of an owner are finite in number.
LEMMA OwnedFinite ==
    ASSUME NEW S, NEW d PROVE IsFiniteSet(OwnedIn(S, d))
<1>1. IsFiniteSet(Cells)
  BY FS_Interval, SizeAssumption DEF Cells
<1>2. OwnedIn(S, d) \subseteq Cells
  BY DEF OwnedIn
<1> QED
  BY <1>1, <1>2, FS_Subset

\* Changing an interest.
LEMMA SetInterestGood ==
    ASSUME NEW S, Good(S), NEW f \in Valid, NEW int
    PROVE  LET U == selector_set_interest(S, f, int)
           IN /\ Good(U) /\ UsedIn(U) = UsedIn(S)
              /\ f \notin UsedIn(S) => U = S
              /\ f \in UsedIn(S) => Changed(U, S, f, int)
<1>1. CASE ~ITEM_USED(S, f)
  BY <1>1 DEF selector_set_interest, UsedIn, ITEM_USED
<1>2. CASE ITEM_USED(S, f)
  <2> DEFINE G == [S EXCEPT !.fds[f].interest = int]
             U == items_update_fdset_for_fd(G, f)
  <2>1. selector_set_interest(S, f, int) = U
    BY <1>2, SizeAssumption DEF selector_set_interest, INVALID_FD, Valid
  <2>2. f \in Cells /\ f \in UsedIn(S) /\ S.fds[f].fd = f /\ S.fds[f].data \in Data
    BY <1>2, ItemCases, SizeAssumption DEF Valid, Cells, ITEM_USED, UsedIn, Good
  <2>3. /\ Shape(G) /\ G.held = S.held /\ G.max_fd = S.max_fd
        /\ G.master_r = S.master_r /\ G.master_w = S.master_w
        /\ G.fds[f].fd = f /\ G.fds[f].interest = int /\ G.fds[f].data = S.fds[f].data
        /\ DOMAIN G.fds[f] = ItemFields
        /\ \A i \in Cells : i # f => G.fds[i] = S.fds[i]
    BY <2>2 DEF Good, Shape, StateFields, ItemsOwn, ItemFields
  <2> HIDE DEF G
  <2>4. /\ Shape(U) /\ U.fds = G.fds /\ U.held = S.held /\ U.max_fd = S.max_fd
        /\ U.master_r = (S.master_r \ {f}) \cup (IF R \in int THEN {f} ELSE {})
        /\ U.master_w = (S.master_w \ {f}) \cup (IF W \in int THEN {f} ELSE {})
    BY <2>3, UpdateFields
  <2> HIDE DEF U
  <2>5. UsedIn(U) = UsedIn(S) /\ \A d \in Data : OwnedIn(U, d) = OwnedIn(S, d)
    BY <2>2, <2>3, <2>4 DEF UsedIn, OwnedIn
  <2>6. ItemsOwn(U)
    BY <2>2, <2>3, <2>4, SizeAssumption DEF Good, ItemsOwn, Valid, Cells
  <2>7. SetsOf(U)
    BY <2>2, <2>3, <2>4, <2>5 DEF Good, SetsOf, UsedIn
  <2>8. MaxOf(U) /\ HeldOf(U)
    BY <2>4, <2>5 DEF Good, MaxOf, HeldOf
  <2>9. Changed(U, S, f, int)
    BY <2>3, <2>4, <2>5 DEF Changed, SameBut
  <2> QED
    BY <2>1, <2>2, <2>4, <2>5, <2>6, <2>7, <2>8, <2>9 DEF Good
<1> QED
  BY <1>1, <1>2

\* Registering a free descriptor adds its item; anything else changes nothing.
LEMMA RegisterGood ==
    ASSUME NEW S, Good(S), NEW f \in Nat, NEW d \in Data, NEW int
    PROVE  LET U == selector_register(S, f, d, int)
           IN /\ Good(U)
              /\ f \in Valid /\ f \notin UsedIn(S) =>
                   Added(U, S, f, d, int)
              /\ f \notin Valid \/ f \in UsedIn(S) => U = S
<1>1. CASE f \notin Valid
  BY <1>1, SizeAssumption DEF selector_register, INVALID_FD, Valid
<1>2. CASE f \in Valid
  <2>1. ~INVALID_FD(f) /\ ~(f > S.fd_size) /\ f \in DOMAIN S.fds /\ f \in Cells
    BY <1>2, SizeAssumption DEF INVALID_FD, Valid, Good, Shape, Cells
  <2>2. CASE f \in UsedIn(S)
    BY <1>2, <2>1, <2>2 DEF selector_register, UsedIn, ITEM_USED
  <2>3. CASE f \notin UsedIn(S)
    <3> DEFINE G == [S EXCEPT !.fds[f] = [fd |-> f, interest |-> int, data |-> d],
                              !.max_fd = IF f > @ THEN f ELSE @,
                              !.held[d] = @ + 1]
               U == items_update_fdset_for_fd(G, f)
    <3>1. selector_register(S, f, d, int) = U
      BY <2>1, <2>3 DEF selector_register, Store, UsedIn, ITEM_USED
    <3>2. /\ Shape(G) /\ G.held = [S.held EXCEPT ![d] = @ + 1]
          /\ G.max_fd = (IF f > S.max_fd THEN f ELSE S.max_fd)
          /\ G.master_r = S.master_r /\ G.master_w = S.master_w
          /\ G.fds[f].fd = f /\ G.fds[f].interest = int /\ G.fds[f].data = d
          /\ DOMAIN G.fds[f] = ItemFields
          /\ \A i \in Cells : i # f => G.fds[i] = S.fds[i]
      BY <2>1 DEF Good, Shape, StateFields, ItemFields
    <3> HIDE DEF G
    <3>3. /\ Shape(U) /\ U.fds = G.fds /\ U.held = G.held /\ U.max_fd = G.max_fd
          /\ U.master_r = (S.master_r \ {f}) \cup (IF R \in int THEN {f} ELSE {})
          /\ U.master_w = (S.master_w \ {f}) \cup (IF W \in int THEN {f} ELSE {})
      BY <3>2, UpdateFields
    <3> HIDE DEF U
    <3>4. S.fds[f] = Unused /\ f # FD_UNUSED
      BY <2>1, <2>3, ItemCases, UnusedFields DEF Good
    <3>5. UsedIn(U) = UsedIn(S) \cup {f}
      BY <2>1, <3>2, <3>3, <3>4 DEF UsedIn
    <3>6. /\ OwnedIn(U, d) = OwnedIn(S, d) \cup {f} /\ f \notin OwnedIn(S, d)
          /\ \A e \in Data : e # d => OwnedIn(U, e) = OwnedIn(S, e)
      <4>1. \A i \in Cells : i # f => U.fds[i] = S.fds[i]
        BY <3>2, <3>3
      <4>2. U.fds[f].data = d /\ S.fds[f].data = Nobody
        BY <3>2, <3>3, <3>4, UnusedFields
      <4>3. \A e \in Data : e # Nobody
        BY DataAssumption
      <4> QED
        BY <2>1, <4>1, <4>2, <4>3 DEF OwnedIn
    <3>7. HeldOf(U)
      <4>1. Cardinality(OwnedIn(U, d)) = Cardinality(OwnedIn(S, d)) + 1
        BY <3>6, OwnedFinite, FS_AddElement
      <4>2. U.held[d] = S.held[d] + 1 /\ \A e \in Data : e # d => U.held[e] = S.held[e]
        BY <3>2, <3>3 DEF Good, Shape
      <4> QED
        BY <4>1, <4>2, <3>6 DEF Good, HeldOf
    <3>8. ItemsOwn(U)
      BY <1>2, <2>1, <3>2, <3>3 DEF Good, ItemsOwn
    <3>9. SetsOf(U)
      <4>1. /\ \A i \in UsedIn(S) : U.fds[i] = S.fds[i] /\ i # f
            /\ U.fds[f].interest = int
        BY <2>3, <3>2, <3>3 DEF UsedIn
      <4>2. /\ S.master_r = {g \in UsedIn(S) : R \in S.fds[g].interest}
            /\ S.master_w = {g \in UsedIn(S) : W \in S.fds[g].interest}
        BY DEF Good, SetsOf
      <4>3. U.master_r = {g \in UsedIn(U) : R \in U.fds[g].interest}
        BY <3>3, <3>5, <4>1, <4>2
      <4>4. U.master_w = {g \in UsedIn(U) : W \in U.fds[g].interest}
        BY <3>3, <3>5, <4>1, <4>2
      <4> QED
        BY <4>3, <4>4 DEF SetsOf
    <3>10. MaxOf(U)
      <4>1. \A g \in UsedIn(S) : g \in Nat
        BY SizeAssumption DEF UsedIn, Cells
      <4>2. S.max_fd \in Nat
        BY SizeAssumption DEF Good, MaxOf, Valid
      <4> QED
        BY <1>2, <4>1, <4>2, <3>2, <3>3, <3>5 DEF Good, MaxOf
    <3>11. U.held # S.held
      BY <3>2, <3>3 DEF Good, Shape
    <3>12. Added(U, S, f, d, int)
      BY <3>2, <3>3, <3>5, <3>11 DEF Added, SameBut
    <3> QED
      BY <1>2, <2>3, <3>1, <3>3, <3>7, <3>8, <3>9, <3>10, <3>12 DEF Good
  <2> QED
    BY <2>2, <2>3
<1> QED
  BY <1>1, <1>2

\* The new max_fd, when every item in use is at or below the old one.
LEMMA MaxFd ==
    ASSUME NEW S, ItemsOwn(S), S.max_fd \in Valid, \A f \in UsedIn(S) : f <= S.max_fd
    PROVE  LET m == items_max_fd(S)
           IN /\ m \in Valid /\ \A f \in UsedIn(S) : f <= m
              /\ m = 0 \/ m \in UsedIn(S)
<1> DEFINE used == {S.fds[i].fd : i \in {j \in 0..S.max_fd : ITEM_USED(S, j)}}
<1>1. used = UsedIn(S)
  <2>1. \A j \in 0..S.max_fd : j \in Cells
    BY SizeAssumption DEF Valid, Cells
  <2>2. \A j \in UsedIn(S) : j \in 0..S.max_fd
    BY SizeAssumption DEF UsedIn, Cells, Valid
  <2>3. \A j \in UsedIn(S) : ITEM_USED(S, j) /\ S.fds[j].fd = j
    BY ItemCases DEF UsedIn, ITEM_USED
  <2>4. \A j \in 0..S.max_fd : ITEM_USED(S, j) => j \in UsedIn(S)
    BY <2>1 DEF UsedIn, ITEM_USED
  <2> QED
    BY <2>2, <2>3, <2>4
<1>2. items_max_fd(S) = IF used = {} THEN 0 ELSE CHOOSE m \in used : \A f \in used : f <= m
  BY DEF items_max_fd
<1> HIDE DEF used
<1>3. CASE used = {}
  BY <1>1, <1>2, <1>3, SizeAssumption DEF Valid
<1>4. CASE used # {}
  <2>1. used \subseteq 0..S.max_fd /\ S.max_fd \in Nat
    BY <1>1, SizeAssumption DEF UsedIn, Cells, Valid
  <2>2. \E m \in used : \A f \in used : f <= m
    BY <1>4, <2>1, GreatestNat
  <2>3. items_max_fd(S) \in used /\ \A f \in used : f <= items_max_fd(S)
    BY <1>2, <1>4, <2>2
  <2>4. used \subseteq Valid
    BY <1>1, ItemCases DEF UsedIn
  <2> QED
    BY <1>1, <2>3, <2>4
<1> QED
  BY <1>3, <1>4

\* Unregistering a descriptor in use removes its item.
LEMMA UnregisterGood ==
    ASSUME NEW S, Good(S), NEW f \in Valid, f \in UsedIn(S)
    PROVE  LET U == selector_unregister_fd(S, f)
           IN Good(U) /\ Removed(U, S, f)
<1> DEFINE d == S.fds[f].data
           B == [S EXCEPT !.held[S.fds[f].data] = @ - 1]
           G == [B EXCEPT !.fds[f].interest = {}]
           M == items_update_fdset_for_fd(G, f)
           C == [M EXCEPT !.fds[f] = Unused]
           U == [C EXCEPT !.max_fd = items_max_fd(C)]
<1>1. f \in Cells /\ S.fds[f].fd = f /\ d \in Data
  BY ItemCases, SizeAssumption DEF Good, Valid, Cells
<1>2. selector_unregister_fd(S, f) = U
  BY SizeAssumption DEF selector_unregister_fd, INVALID_FD, Valid, UsedIn, ITEM_USED
<1>3. IsFiniteSet(OwnedIn(S, d)) /\ f \in OwnedIn(S, d)
  BY <1>1, OwnedFinite DEF OwnedIn
<1>4. Cardinality(OwnedIn(S, d) \ {f}) = Cardinality(OwnedIn(S, d)) - 1
      /\ Cardinality(OwnedIn(S, d) \ {f}) \in Nat
  BY <1>3, FS_RemoveElement, FS_CardinalityType
<1>5. S.held[d] - 1 = Cardinality(OwnedIn(S, d) \ {f}) /\ S.held[d] - 1 \in Nat
  BY <1>1, <1>4 DEF Good, HeldOf
<1>6. /\ Shape(B) /\ B.held = [S.held EXCEPT ![d] = @ - 1] /\ B.max_fd = S.max_fd
      /\ B.master_r = S.master_r /\ B.master_w = S.master_w /\ B.fds = S.fds
  BY <1>1, <1>5 DEF Good, Shape, StateFields
<1> HIDE DEF B
<1>7. /\ Shape(G) /\ G.held = B.held /\ G.max_fd = S.max_fd
      /\ G.master_r = S.master_r /\ G.master_w = S.master_w
      /\ G.fds[f].fd = f /\ G.fds[f].interest = {}
      /\ \A i \in Cells : i # f => G.fds[i] = S.fds[i]
  BY <1>1, <1>6 DEF Good, Shape, StateFields, ItemsOwn, ItemFields
<1> HIDE DEF G
<1>8. /\ Shape(M) /\ M.fds = G.fds /\ M.held = B.held /\ M.max_fd = S.max_fd
      /\ M.master_r = S.master_r \ {f} /\ M.master_w = S.master_w \ {f}
  BY <1>7, UpdateFields
<1> HIDE DEF M
<1>9. /\ Shape(C) /\ C.held = B.held /\ C.max_fd = S.max_fd
      /\ C.master_r = S.master_r \ {f} /\ C.master_w = S.master_w \ {f}
      /\ C.fds[f] = Unused
      /\ \A i \in Cells : i # f => C.fds[i] = S.fds[i]
  BY <1>1, <1>7, <1>8 DEF Shape, StateFields
<1> HIDE DEF C
<1>10. /\ Shape(U) /\ U.held = B.held /\ U.max_fd = items_max_fd(C)
       /\ U.master_r = S.master_r \ {f} /\ U.master_w = S.master_w \ {f}
       /\ U.fds = C.fds
  BY <1>9 DEF Shape, StateFields
<1> HIDE DEF U
<1>11. UsedIn(U) = UsedIn(S) \ {f} /\ UsedIn(C) = UsedIn(U)
  BY <1>1, <1>9, <1>10, UnusedFields DEF UsedIn
<1>12. /\ OwnedIn(U, d) = OwnedIn(S, d) \ {f}
       /\ \A e \in Data : e # d => OwnedIn(U, e) = OwnedIn(S, e)
  BY <1>1, <1>9, <1>10, UnusedFields, DataAssumption DEF OwnedIn
<1>13. HeldOf(U)
  <2>1. U.held[d] = S.held[d] - 1 /\ \A e \in Data : e # d => U.held[e] = S.held[e]
    BY <1>1, <1>6, <1>10 DEF Good, Shape
  <2> QED
    BY <2>1, <1>5, <1>12 DEF Good, HeldOf
<1>14. ItemsOwn(C) /\ ItemsOwn(U)
  BY <1>1, <1>9, <1>10, UnusedFields DEF Good, ItemsOwn
<1>15. SetsOf(U)
  BY <1>1, <1>9, <1>10, <1>11 DEF Good, SetsOf, UsedIn
<1>16. MaxOf(U)
  <2>1. C.max_fd \in Valid /\ \A g \in UsedIn(C) : g <= C.max_fd
    BY <1>9, <1>11 DEF Good, MaxOf
  <2> QED
    BY <2>1, <1>10, <1>11, <1>14, MaxFd DEF MaxOf
<1> QED
  BY <1>2, <1>6, <1>9, <1>10, <1>11, <1>13, <1>14, <1>15, <1>16 DEF Good, Removed, SameBut

-----------------------------------------------------------------------------
(* The loop *)

\* selector_new allocates the largest table, one item past the last valid
\* descriptor.
LEMMA NewCapacity == selector_new = ITEMS_MAX_SIZE + 1
<1> DEFINE n == SELECTOR_INITIAL_ELEMENTS
           P == {2^b : b \in 0..n}
           p == CHOOSE q \in P : q > n /\ \A r \in P : r > n => q <= r
<1>1. P \subseteq Nat
  BY PowerAssumption
<1>2. \E q \in P : q > n /\ \A r \in P : r > n => q <= r
  BY PowerAssumption
<1>3. selector_new = (IF p > ITEMS_MAX_SIZE THEN ITEMS_MAX_SIZE ELSE p) + 1
  BY DEF selector_new, next_capacity
<1> HIDE DEF P
<1>4. p \in P /\ p > n
  BY <1>2
<1> HIDE DEF p
<1> QED
  BY <1>1, <1>3, <1>4, SizeAssumption, InitialAssumption

ScanOK == DOMAIN scan = ScanFields /\ scan.i \in Nat /\ scan.n \in Valid

\* While the loop runs the open descriptors are the registered ones.
Running == ~At("destroyed") /\ Good(S0) /\ open = UsedIn(S0)

Destroyed ==
    /\ At("destroyed") /\ fds = << >> /\ max_fd = 0
    /\ master_r = {} /\ master_w = {}
    /\ held = [d \in Data |-> 0] /\ overrun = FALSE

\* The inductive invariant.
STInv == ScanOK /\ (Running \/ Destroyed)

\* S0's fields are the variables.
LEMMA S0Fields ==
    /\ DOMAIN S0 = StateFields
    /\ S0.fds = fds /\ S0.fd_size = fd_size /\ S0.max_fd = max_fd
    /\ S0.master_r = master_r /\ S0.master_w = master_w
    /\ S0.held = held /\ S0.overrun = overrun
BY DEF S0, StateFields

\* And after a step.
LEMMA S0FieldsPrime ==
    /\ (DOMAIN S0)' = StateFields
    /\ S0'.fds = fds' /\ S0'.fd_size = fd_size' /\ S0'.max_fd = max_fd'
    /\ S0'.master_r = master_r' /\ S0'.master_w = master_w'
    /\ S0'.held = held' /\ S0'.overrun = overrun'
BY DEF S0, StateFields

\* The variables while the table stands, in the words of the properties.
LEMMA RunningFacts ==
    ASSUME Running
    PROVE  /\ DOMAIN fds = Cells /\ Used = UsedIn(S0)
           /\ \A d \in Data : {f \in DOMAIN fds : fds[f].data = d} = OwnedIn(S0, d)
BY S0Fields DEF Running, Good, Shape, Used, UsedIn, OwnedIn

\* Storing a sound value in the selector.
LEMMA CommitGood ==
    ASSUME NEW S, Good(S), Commit(S)
    PROVE  /\ Good(S0)' /\ UsedIn(S0)' = UsedIn(S) /\ Used' = UsedIn(S)
           /\ fds' = S.fds /\ held' = S.held
<1>1. /\ DOMAIN S0' = DOMAIN S
      /\ S0'.fds = S.fds /\ S0'.fd_size = S.fd_size /\ S0'.max_fd = S.max_fd
      /\ S0'.master_r = S.master_r /\ S0'.master_w = S.master_w
      /\ S0'.held = S.held /\ S0'.overrun = S.overrun
  BY S0FieldsPrime DEF Commit, Good, Shape
<1>2. Good(S0') /\ UsedIn(S0') = UsedIn(S)
  BY <1>1 DEF Good, Shape, ItemsOwn, SetsOf, MaxOf, HeldOf, UsedIn, OwnedIn
<1>3. Good(S0)' <=> Good(S0')
  BY DEF Good, Shape, ItemsOwn, SetsOf, MaxOf, HeldOf, UsedIn, OwnedIn
<1>4. UsedIn(S0)' = UsedIn(S0')
  BY DEF UsedIn
<1>5. fds' = S.fds /\ held' = S.held /\ DOMAIN S.fds = Cells
  BY DEF Commit, Good, Shape
<1>6. Used' = UsedIn(S)
  BY <1>5 DEF Used, UsedIn
<1> QED
  BY <1>2, <1>3, <1>4, <1>5, <1>6

\* The loop's own steps touch neither the table nor the descriptors.
LEMMA SameTable ==
    ASSUME Good(S0), open = UsedIn(S0), UNCHANGED <<tables, open>>
    PROVE  Good(S0)' /\ open' = UsedIn(S0)'
<1>1. Commit(S0)
  BY S0Fields DEF Commit, tables, sets
<1> QED
  BY <1>1, CommitGood

\* What a step of the program does to the items and to what owners hold.
ItemAdded(f, d, int) ==
    /\ f \in Valid /\ f \notin Used /\ Used' = Used \cup {f}
    /\ \A i \in Cells : i # f => fds'[i] = fds[i]
    /\ fds'[f].data = d /\ fds'[f].interest = int
    /\ held' = [held EXCEPT ![d] = @ + 1]
ItemChanged(f, int) ==
    /\ f \in Used /\ Used' = Used
    /\ \A i \in Cells : i # f => fds'[i] = fds[i]
    /\ fds'[f].data = fds[f].data /\ fds'[f].interest = int
    /\ held' = held
ItemRemoved(f) ==
    /\ f \in Used /\ Used' = Used \ {f}
    /\ \A i \in Cells : i # f => fds'[i] = fds[i]
    /\ held' = [held EXCEPT ![fds[f].data] = @ - 1]

\* A handler registers a descriptor the kernel just gave out.
LEMMA OpenStep ==
    ASSUME STInv, NEW d \in Data, NEW int, open_and_register(d, int)
    PROVE  STInv' /\ (UNCHANGED <<fds, held>> \/ \E f \in Valid : ItemAdded(f, d, int))
<1> DEFINE F == (0..OpenMax) \ open
           f == Lowest(F)
           S == selector_register(S0, f, d, int)
<1>1. /\ At("boot") \/ At("call")
      /\ F # {} /\ Commit(S) /\ scan' = scan
      /\ open' = IF S.held = held THEN open ELSE open \cup {f}
  BY DEF open_and_register
<1>2. Running /\ ScanOK
  BY <1>1 DEF STInv, Destroyed, At
<1>3. f \in F /\ f \in Nat
  <2>1. F \subseteq Nat
    BY SizeAssumption
  <2>2. \E m \in F : \A k \in F : m <= k
    BY <1>1, <2>1, LeastNat
  <2>3. f \in F
    BY <2>2 DEF Lowest
  <2> QED
    BY <2>1, <2>3
<1>4. f \notin UsedIn(S0)
  BY <1>2, <1>3 DEF Running
<1> HIDE DEF f
<1>5. /\ Good(S)
      /\ f \in Valid => Added(S, S0, f, d, int)
      /\ f \notin Valid => S = S0
  BY <1>2, <1>3, <1>4, RegisterGood DEF Running
<1> HIDE DEF S
<1>6. /\ Good(S0)' /\ UsedIn(S0)' = UsedIn(S) /\ Used' = UsedIn(S)
      /\ fds' = S.fds /\ held' = S.held
  BY <1>1, <1>5, CommitGood
<1>7. open' = UsedIn(S)
  BY <1>1, <1>2, <1>5, S0Fields DEF Running, Added
<1>8. STInv'
  BY <1>1, <1>2, <1>6, <1>7 DEF STInv, Running, ScanOK, At
<1>9. CASE f \in Valid
  <2>1. ItemAdded(f, d, int)
    BY <1>2, <1>4, <1>5, <1>6, <1>9, S0Fields, RunningFacts DEF Added, ItemAdded, SameBut
  <2> QED
    BY <1>8, <1>9, <2>1
<1>10. CASE f \notin Valid
  BY <1>5, <1>6, <1>8, <1>10, S0Fields
<1> QED
  BY <1>9, <1>10

\* A retry registers a descriptor that is registered.
LEMMA AgainStep ==
    ASSUME STInv, NEW f \in Valid, register_again(f)
    PROVE  STInv' /\ UNCHANGED <<fds, held>>
<1> DEFINE S == selector_register(S0, f, fds[f].data, {W})
<1>1. At("call") /\ f \in open /\ Commit(S) /\ open' = open /\ scan' = scan
  BY DEF register_again
<1>2. Running /\ ScanOK
  BY <1>1 DEF STInv, Destroyed, At
<1>3. f \in Nat /\ f \in UsedIn(S0) /\ f \in Cells
  BY <1>1, <1>2, SizeAssumption DEF Running, Valid, Cells
<1>4. fds[f].data \in Data
  BY <1>2, <1>3, ItemCases, S0Fields DEF Running, Good
<1>5. Good(S) /\ S = S0
  BY <1>2, <1>3, <1>4, RegisterGood DEF Running
<1> HIDE DEF S
<1>6. Good(S0)' /\ UsedIn(S0)' = UsedIn(S0) /\ UNCHANGED <<fds, held>>
  BY <1>1, <1>5, CommitGood, S0Fields
<1> QED
  BY <1>1, <1>2, <1>6 DEF STInv, Running, ScanOK, At

\* A handler changes an interest.
LEMMA InterestStep ==
    ASSUME STInv, NEW f \in Valid, NEW int, set_interest(f, int)
    PROVE  /\ STInv'
           /\ f \in Used => ItemChanged(f, int)
           /\ f \notin Used => UNCHANGED <<fds, held>>
<1> DEFINE S == selector_set_interest(S0, f, int)
<1>1. At("call") /\ Commit(S) /\ open' = open /\ scan' = scan
  BY DEF set_interest
<1>2. Running /\ ScanOK
  BY <1>1 DEF STInv, Destroyed, At
<1>3. /\ Good(S) /\ UsedIn(S) = UsedIn(S0)
      /\ f \notin UsedIn(S0) => S = S0
      /\ f \in UsedIn(S0) => Changed(S, S0, f, int)
  BY <1>2, SetInterestGood DEF Running
<1> HIDE DEF S
<1>4. /\ Good(S0)' /\ UsedIn(S0)' = UsedIn(S) /\ Used' = UsedIn(S)
      /\ fds' = S.fds /\ held' = S.held
  BY <1>1, <1>3, CommitGood
<1>5. STInv'
  BY <1>1, <1>2, <1>3, <1>4 DEF STInv, Running, ScanOK, At
<1>6. f \in Used => ItemChanged(f, int)
  BY <1>2, <1>3, <1>4, S0Fields, RunningFacts DEF Changed, ItemChanged, SameBut
<1>7. f \notin Used => UNCHANGED <<fds, held>>
  BY <1>2, <1>3, <1>4, S0Fields, RunningFacts
<1> QED
  BY <1>5, <1>6, <1>7

\* A handler unregisters and closes a descriptor.
LEMMA CloseStep ==
    ASSUME STInv, NEW f \in Valid, unregister_and_close(f)
    PROVE  STInv' /\ ItemRemoved(f)
<1> DEFINE S == selector_unregister_fd(S0, f)
<1>1. /\ At("call") /\ f \in open /\ Commit(S) /\ open' = open \ {f}
      /\ Walk([dropped |-> TRUE])
  BY DEF unregister_and_close
<1>2. Running /\ ScanOK
  BY <1>1 DEF STInv, Destroyed, At
<1>3. Good(S) /\ Removed(S, S0, f)
  BY <1>1, <1>2, UnregisterGood DEF Running
<1> HIDE DEF S
<1>4. /\ Good(S0)' /\ UsedIn(S0)' = UsedIn(S) /\ Used' = UsedIn(S)
      /\ fds' = S.fds /\ held' = S.held
  BY <1>1, <1>3, CommitGood
<1>5. ScanOK' /\ scan'.at = scan.at
  BY <1>1, <1>2 DEF ScanOK, Walk, ScanFields
<1>6. STInv'
  BY <1>1, <1>2, <1>3, <1>4, <1>5 DEF STInv, Running, At, Removed
<1>7. ItemRemoved(f)
  BY <1>1, <1>2, <1>3, <1>4, S0Fields, RunningFacts
     DEF Removed, ItemRemoved, SameBut, Running
<1> QED
  BY <1>6, <1>7

\* selector_destroy releases every owner as often as it is registered.
LEMMA DestroyStep ==
    ASSUME STInv, selector_destroy
    PROVE  STInv'
<1>1. Running /\ ScanOK
  BY DEF STInv, Destroyed, selector_destroy, At
<1>2. ScanOK' /\ scan'.at = "destroyed"
  BY <1>1 DEF ScanOK, selector_destroy, Walk, ScanFields
<1>3. \A d \in Data : {i \in DOMAIN fds : fds[i].data = d} = OwnedIn(S0, d)
  BY <1>1, S0Fields DEF Running, Good, Shape, OwnedIn
<1>4. \A d \in Data : held[d] \in Nat /\ held[d] = Cardinality(OwnedIn(S0, d))
  BY <1>1, S0Fields DEF Running, Good, Shape, HeldOf
<1>5. \A d \in Data : held[d] - Cardinality({i \in DOMAIN fds : fds[i].data = d}) = 0
  <2> DEFINE Own(d) == {i \in DOMAIN fds : fds[i].data = d}
  <2>1. \A d \in Data : Own(d) = OwnedIn(S0, d)
    BY <1>3
  <2> HIDE DEF Own
  <2>2. \A d \in Data : held[d] - Cardinality(Own(d)) = 0
    BY <1>4, <2>1
  <2> QED
    BY <2>2 DEF Own
<1>6. held' = [d \in Data |-> 0]
  BY <1>5 DEF selector_destroy
<1>7. overrun' = FALSE
  BY <1>1, S0Fields DEF selector_destroy, Running, Good, Shape
<1> QED
  BY <1>2, <1>6, <1>7 DEF STInv, Destroyed, At, selector_destroy

\* The steps of handle_iteration and of main's loop.
LEMMA LoopStep ==
    ASSUME STInv,
           \/ start \/ selector_select \/ next_item \/ read_half \/ write_half
           \/ handler_returns \/ iteration_ends
    PROVE  STInv'
<1> USE DEF At
<1>1. Running /\ ScanOK /\ UNCHANGED <<tables, open>>
  BY DEF STInv, Destroyed, start, selector_select, next_item, read_half, write_half,
         handler_returns, iteration_ends
<1>2. Good(S0)' /\ open' = UsedIn(S0)'
  BY <1>1, SameTable DEF Running
<1>3. max_fd \in Valid
  BY <1>1, S0Fields DEF Running, Good, MaxOf
<1>4. ASSUME NEW fields,
             Walk(fields),
             "at" \in DOMAIN fields => fields.at # "destroyed",
             "i" \in DOMAIN fields => fields.i \in Nat,
             "n" \in DOMAIN fields => fields.n \in Valid
      PROVE  STInv'
  <2>1. ScanOK' /\ scan'.at # "destroyed"
    BY <1>1, <1>4 DEF Walk, ScanOK, ScanFields, Running
  <2> QED
    BY <1>2, <2>1 DEF STInv, Running
<1>5. 0 \in Valid /\ scan.i + 1 \in Nat
  BY <1>1, SizeAssumption DEF ScanOK, Valid
<1>6. CASE start
  BY <1>4, <1>6 DEF start
<1>7. CASE selector_select
  BY <1>3, <1>4, <1>7 DEF selector_select
<1>8. CASE next_item
  BY <1>4, <1>5, <1>8 DEF next_item
<1>9. CASE read_half
  BY <1>4, <1>9 DEF read_half, Call
<1>10. CASE write_half
  BY <1>4, <1>5, <1>10 DEF write_half, Call
<1>11. CASE handler_returns
  BY <1>4, <1>5, <1>11 DEF handler_returns
<1>12. CASE iteration_ends
  BY <1>4, <1>5, <1>12 DEF iteration_ends
<1> QED
  BY <1>6, <1>7, <1>8, <1>9, <1>10, <1>11, <1>12

\* The empty table of selector_new.
LEMMA InitSTInv == Init => STInv
<1> SUFFICES ASSUME Init PROVE STInv
  OBVIOUS
<1>1. fd_size = ITEMS_MAX_SIZE + 1 /\ ITEMS_MAX_SIZE \in Nat \ {0}
  BY NewCapacity, SizeAssumption DEF Init
<1>2. fds = [i \in Cells |-> Unused]
  BY <1>1 DEF Init, Cells
<1>3. ScanOK /\ ~At("destroyed")
  BY <1>1 DEF Init, ScanOK, ScanFields, At, Valid
<1>4. UsedIn(S0) = {} /\ \A d \in Data : OwnedIn(S0, d) = {}
  BY <1>2, S0Fields, UnusedFields, DataAssumption DEF UsedIn, OwnedIn
<1>5. Shape(S0)
  BY <1>1, <1>2, S0Fields DEF Init, Shape
<1>6. ItemsOwn(S0)
  BY <1>2, S0Fields, UnusedFields DEF ItemsOwn
<1>7. SetsOf(S0) /\ MaxOf(S0)
  BY <1>1, <1>4, S0Fields DEF Init, SetsOf, MaxOf, Valid
<1>8. HeldOf(S0)
  BY <1>4, S0Fields, FS_EmptySet DEF Init, HeldOf
<1> QED
  BY <1>3, <1>4, <1>5, <1>6, <1>7, <1>8 DEF STInv, Running, Good, Init

\* Every step of the loop, of a handler or of the shutdown keeps it.
LEMMA NextSTInv == STInv /\ [Next]_vars => STInv'
<1> SUFFICES ASSUME STInv, [Next]_vars PROVE STInv'
  OBVIOUS
<1>1. CASE \/ start \/ selector_select \/ next_item \/ read_half \/ write_half
           \/ handler_returns \/ iteration_ends
  BY <1>1, LoopStep
<1>2. CASE Program
  <2>1. CASE \E d \in Data, int \in Interests : open_and_register(d, int)
    BY <2>1, OpenStep
  <2>2. CASE \E f \in Valid, int \in Interests : set_interest(f, int)
    BY <2>2, InterestStep
  <2>3. CASE \E f \in Valid : register_again(f) \/ unregister_and_close(f)
    BY <2>3, AgainStep, CloseStep
  <2> QED
    BY <1>2, <2>1, <2>2, <2>3 DEF Program
<1>3. CASE selector_destroy
  BY <1>3, DestroyStep
<1>4. CASE UNCHANGED vars
  <2>1. UNCHANGED <<tables, open, scan>>
    BY <1>4 DEF vars, tables, sets
  <2>2. CASE Destroyed
    BY <2>1, <2>2 DEF STInv, Destroyed, ScanOK, At, tables, sets
  <2>3. CASE Running
    BY <2>1, <2>3, SameTable DEF STInv, Running, ScanOK, At
  <2> QED
    BY <2>2, <2>3 DEF STInv
<1> QED
  BY <1>1, <1>2, <1>3, <1>4 DEF Next

\* The invariant of every behaviour.
LEMMA Invariant == Spec => []STInv
BY InitSTInv, NextSTInv, PTL DEF Spec

\* Whatever order handlers register, change and unregister in, the sets given
\* to pselect are those of the items in use and max_fd is the largest of them
\* (items_update_fdset_for_fd, items_max_fd).
THEOREM SelectWatchesItems == Spec => []SetsMatchItems
<1>1. STInv => SetsMatchItems
  <2>1. CASE Running
    BY <2>1, RunningFacts, S0Fields DEF Running, Good, SetsOf, MaxOf, SetsMatchItems
  <2>2. CASE Destroyed
    <3>1. Used = {}
      BY <2>2 DEF Destroyed, Used
    <3> QED
      BY <2>2, <3>1 DEF Destroyed, SetsMatchItems
  <2> QED
    BY <2>1, <2>2 DEF STInv
<1> QED
  BY <1>1, Invariant, PTL

\* The growth that comes one descriptor too late in selector_register is
\* never needed: with the table main.c asks for, no item past the end of fds
\* is read or written, for any FD_SETSIZE.
THEOREM NoOverrun == Spec => []InBounds
<1>1. STInv => InBounds
  <2>1. CASE Running
    <3>1. overrun = FALSE
      BY <2>1, S0Fields DEF Running, Good, Shape
    <3>2. ASSUME STInv, scan.i <= scan.n PROVE scan.i \in Cells
      BY <3>2, SizeAssumption DEF STInv, ScanOK, Valid, Cells
    <3> QED
      BY <2>1, <3>1, <3>2, RunningFacts DEF InBounds
  <2>2. CASE Destroyed
    BY <2>2 DEF Destroyed, InBounds, At
  <2> QED
    BY <2>1, <2>2 DEF STInv
<1> QED
  BY <1>1, Invariant, PTL

\* An owner is told handle_close once per registration, through retries,
\* reused descriptors and selector_destroy.
THEOREM OwnersReleasedOnce == Spec => []ClosedOnce
<1>1. STInv => ClosedOnce
  <2>1. CASE Running
    BY <2>1, RunningFacts, S0Fields DEF Running, Good, HeldOf, ClosedOnce
  <2>2. CASE Destroyed
    <3>1. \A d \in Data : {f \in DOMAIN fds : fds[f].data = d} = {}
      BY <2>2 DEF Destroyed
    <3>2. \A d \in Data : held[d] = 0
      BY <2>2 DEF Destroyed
    <3> QED
      BY <3>1, <3>2, FS_EmptySet DEF ClosedOnce
  <2> QED
    BY <2>1, <2>2 DEF STInv
<1> QED
  BY <1>1, Invariant, PTL

-----------------------------------------------------------------------------
(* The walk of handle_iteration.  What it still owes is ahead of it, and the *)
(* key it filled in is the item's owner's or the item is gone.               *)

Places == {"boot", "idle", "item", "read", "write", "call", "destroyed"}
Ops == {R, W}

KeyOK ==
    /\ scan.at \in Places
    /\ At("call") => /\ scan.key.op \in Ops
                     /\ scan.key = [fd |-> scan.i, op |-> scan.key.op, data |-> scan.data]
    /\ ~At("call") => scan.key = NoKey

\* A handler that unregistered nothing still has its own item; no handler
\* registers a descriptor after it unregistered one.
OwnerOK ==
    At("read") \/ At("write") \/ At("call") =>
        /\ scan.i <= scan.n
        /\ scan.i \in Used => fds[scan.i].data = scan.data
        /\ At("read") \/ (At("call") /\ ~scan.dropped) => scan.i \in Used

\* The walk has not passed operation op of item f.
Ahead(f, op) ==
    /\ scan.at \in {"item", "read", "write", "call"}
    /\ scan.i <= f /\ f <= scan.n
    /\ f = scan.i /\ At("write") => op = W
    /\ f = scan.i /\ At("call") => op = W /\ scan.key.op = R

Owed(f, op) ==
    /\ f \in Used /\ op \in fds[f].interest
    /\ op = R => f \in slave_r
    /\ op = W => f \in slave_w
    /\ Ahead(f, op)

DueOK ==
    /\ due \subseteq Valid \X Ops
    /\ \A f \in Valid, op \in Ops : <<f, op>> \in due => Owed(f, op)

WalkInv == KeyOK /\ OwnerOK /\ DueOK

\* The fields of scan after a step of the walk.
LEMMA WalkFields ==
    ASSUME ScanOK, NEW fields, Walk(fields)
    PROVE  /\ DOMAIN scan' = ScanFields
           /\ scan'.at = IF "at" \in DOMAIN fields THEN fields.at ELSE scan.at
           /\ scan'.i = IF "i" \in DOMAIN fields THEN fields.i ELSE scan.i
           /\ scan'.n = IF "n" \in DOMAIN fields THEN fields.n ELSE scan.n
           /\ scan'.data = IF "data" \in DOMAIN fields THEN fields.data ELSE scan.data
           /\ scan'.key = IF "key" \in DOMAIN fields THEN fields.key ELSE scan.key
           /\ scan'.dropped = IF "dropped" \in DOMAIN fields THEN fields.dropped ELSE scan.dropped
BY DEF ScanOK, ScanFields, Walk

\* The two operations differ from each other and from the idle key's.
LEMMA OpFacts == R # W /\ NoKey.op \notin Ops /\ R \in Ops /\ W \in Ops
BY DEF R, W, Ops, NoKey

\* A walk that starts owes what pselect reported and has passed nothing.
LEMMA SelectWalk ==
    ASSUME STInv, WalkInv, selector_select PROVE WalkInv'
<1>1. Running /\ ScanOK
  BY DEF STInv, Destroyed, selector_select, At
<1>2. /\ At("idle") /\ UNCHANGED <<fds, max_fd>>
      /\ slave_r' \subseteq {f \in master_r : f <= max_fd}
      /\ slave_w' \subseteq {f \in master_w : f <= max_fd}
      /\ due' = (slave_r' \X {R}) \cup (slave_w' \X {W})
      /\ Walk([at |-> "item", i |-> 0, n |-> max_fd])
  BY DEF selector_select, tables, sets
<1>3. /\ scan'.at = "item" /\ scan'.i = 0 /\ scan'.n = max_fd
      /\ scan'.data = scan.data /\ scan'.key = scan.key
  BY <1>1, <1>2, WalkFields
<1>4. Used' = Used
  BY <1>2 DEF Used
<1>5. /\ \A f \in slave_r' : f \in Used /\ R \in fds[f].interest /\ f <= max_fd /\ f \in Valid
      /\ \A f \in slave_w' : f \in Used /\ W \in fds[f].interest /\ f <= max_fd /\ f \in Valid
  <2>1. /\ master_r = {f \in UsedIn(S0) : R \in fds[f].interest}
        /\ master_w = {f \in UsedIn(S0) : W \in fds[f].interest}
    BY <1>1, S0Fields DEF Running, Good, SetsOf
  <2>2. \A f \in UsedIn(S0) : f \in Valid
    BY <1>1, ItemCases DEF Running, Good, UsedIn
  <2> QED
    BY <1>1, <1>2, <2>1, <2>2, RunningFacts
<1>6. KeyOK' /\ OwnerOK'
  BY <1>2, <1>3 DEF WalkInv, KeyOK, OwnerOK, At, Places
<1>7. due' \subseteq Valid \X Ops
  BY <1>2, <1>5, OpFacts
<1>8. ASSUME NEW f \in Valid, NEW op \in Ops, <<f, op>> \in due'
      PROVE  Owed(f, op)'
  <2>1. (op = R /\ f \in slave_r') \/ (op = W /\ f \in slave_w')
    BY <1>2, <1>8
  <2>2. Ahead(f, op)'
    BY <1>3, <1>5, <2>1, SizeAssumption DEF Ahead, At, Valid
  <2> QED
    BY <1>2, <1>4, <1>5, <2>1, <2>2, OpFacts DEF Owed
<1> QED
  BY <1>6, <1>7, <1>8 DEF WalkInv, DueOK

\* A walk moves past an item only when nothing is owed for it.
LEMMA ItemWalk ==
    ASSUME STInv, WalkInv, next_item \/ iteration_ends PROVE WalkInv'
<1>1. Running /\ ScanOK /\ At("item")
  BY DEF STInv, Destroyed, next_item, iteration_ends, At
<1>2. UNCHANGED <<fds, due>> /\ Used' = Used
  BY DEF next_item, iteration_ends, tables, Used
<1>3. scan.i \in Nat /\ scan.n \in Nat /\ \A f \in Valid : f \in Nat
  BY <1>1, SizeAssumption DEF ScanOK, Valid
<1>4. CASE next_item
  <2>1. scan.i <= scan.n /\ scan.i \in Cells /\ UNCHANGED <<slave_r, slave_w>>
    BY <1>1, <1>4, SizeAssumption DEF next_item, ScanOK, Valid, Cells
  <2>2. CASE scan.i \in Used
    <3>1. Walk([at |-> "read", data |-> fds[scan.i].data])
      BY <1>1, <1>4, <2>1, <2>2, RunningFacts, S0Fields DEF next_item, ITEM_USED, UsedIn
    <3>2. /\ scan'.at = "read" /\ scan'.i = scan.i /\ scan'.n = scan.n
          /\ scan'.data = fds[scan.i].data /\ scan'.key = scan.key
      BY <1>1, <3>1, WalkFields
    <3>3. KeyOK' /\ OwnerOK'
      BY <1>1, <1>2, <2>1, <2>2, <3>2 DEF WalkInv, KeyOK, OwnerOK, At, Places
    <3>4. DueOK'
      BY <1>1, <1>2, <2>1, <3>2 DEF WalkInv, DueOK, Owed, Ahead, At
    <3> QED
      BY <3>3, <3>4 DEF WalkInv
  <2>3. CASE scan.i \notin Used
    <3>1. Walk([i |-> scan.i + 1])
      BY <1>1, <1>4, <2>1, <2>3, RunningFacts, S0Fields DEF next_item, ITEM_USED, UsedIn
    <3>2. /\ scan'.at = "item" /\ scan'.i = scan.i + 1 /\ scan'.n = scan.n
          /\ scan'.data = scan.data /\ scan'.key = scan.key
      BY <1>1, <3>1, WalkFields DEF At
    <3>3. KeyOK' /\ OwnerOK'
      BY <1>1, <3>2 DEF WalkInv, KeyOK, OwnerOK, At, Places
    <3>4. ASSUME NEW f \in Valid, NEW op \in Ops, <<f, op>> \in due
          PROVE  Owed(f, op)'
      <4>1. Owed(f, op) /\ f # scan.i
        BY <2>3, <3>4 DEF WalkInv, DueOK, Owed
      <4> QED
        BY <1>1, <1>2, <1>3, <2>1, <3>2, <4>1 DEF Owed, Ahead, At
    <3> QED
      BY <1>2, <3>3, <3>4 DEF WalkInv, DueOK
  <2> QED
    BY <2>2, <2>3
<1>5. CASE iteration_ends
  <2>1. due = {}
    <3>1. scan.i > scan.n
      BY <1>5 DEF iteration_ends
    <3>2. ASSUME NEW f \in Valid, NEW op \in Ops PROVE <<f, op>> \notin due
      <4>1. Owed(f, op) => scan.i <= f /\ f <= scan.n
        BY DEF Owed, Ahead
      <4> QED
        BY <1>3, <3>1, <4>1 DEF WalkInv, DueOK
    <3> QED
      BY <3>2 DEF WalkInv, DueOK
  <2>2. scan'.at = "idle" /\ scan'.key = scan.key
    BY <1>1, <1>5, WalkFields DEF iteration_ends
  <2> QED
    BY <1>1, <1>2, <2>1, <2>2 DEF WalkInv, KeyOK, OwnerOK, DueOK, At, Places
<1> QED
  BY <1>4, <1>5

\* Calling a handler settles the event it is called for.
LEMMA CallWalk ==
    ASSUME STInv, WalkInv, NEW op \in Ops, Call(op),
           (At("read") /\ op = R) \/ (At("write") /\ op = W),
           op \in fds[scan.i].interest,
           UNCHANGED <<fds, slave_r, slave_w>>
    PROVE  WalkInv'
<1>1. Running /\ ScanOK /\ Used' = Used
  BY DEF STInv, Destroyed, At, Used
<1>2. /\ scan'.at = "call" /\ scan'.i = scan.i /\ scan'.n = scan.n
      /\ scan'.data = scan.data /\ scan'.dropped = FALSE
      /\ scan'.key = [fd |-> scan.i, op |-> op, data |-> scan.data]
  BY <1>1, WalkFields DEF Call
<1>3. due' = due \ {<<scan.i, op>>}
  BY DEF Call
<1>4. scan.i <= scan.n /\ scan.i \in Used
  <2>1. scan.i <= scan.n /\ scan.i \in Cells
    BY <1>1, SizeAssumption DEF WalkInv, OwnerOK, At, ScanOK, Valid, Cells
  <2>2. fds[scan.i] # Unused
    BY UnusedFields
  <2> QED
    BY <1>1, <2>1, <2>2, ItemCases, RunningFacts, S0Fields DEF Running, Good
<1>5. KeyOK' /\ OwnerOK'
  BY <1>1, <1>2, <1>4 DEF WalkInv, KeyOK, OwnerOK, At, Places
<1>6. ASSUME NEW f \in Valid, NEW o \in Ops, <<f, o>> \in due'
      PROVE  Owed(f, o)'
  <2>1. Owed(f, o) /\ ~(f = scan.i /\ o = op)
    BY <1>3, <1>6 DEF WalkInv, DueOK
  <2>2. f = scan.i => o = W /\ op = R
    BY <2>1, OpFacts DEF Owed, Ahead, At, Ops
  <2>3. Ahead(f, o)'
    BY <1>2, <2>1, <2>2 DEF Owed, Ahead, At
  <2> QED
    BY <1>1, <2>1, <2>3 DEF Owed
<1> QED
  BY <1>3, <1>5, <1>6 DEF WalkInv, DueOK

\* The read half either calls handle_read or owes nothing for it.
LEMMA ReadWalk ==
    ASSUME STInv, WalkInv, read_half PROVE WalkInv'
<1>1. Running /\ ScanOK /\ At("read") /\ UNCHANGED <<fds, slave_r, slave_w>>
  BY DEF STInv, Destroyed, read_half, At, tables
<1>2. CASE scan.i \in slave_r /\ R \in fds[scan.i].interest
  <2>1. Call(R)
    BY <1>2 DEF read_half
  <2> QED
    BY <1>1, <1>2, <2>1, CallWalk, OpFacts
<1>3. CASE ~(scan.i \in slave_r /\ R \in fds[scan.i].interest)
  <2>1. Walk([at |-> "write"]) /\ due' = due /\ Used' = Used
    BY <1>1, <1>3 DEF read_half, Used
  <2>2. /\ scan'.at = "write" /\ scan'.i = scan.i /\ scan'.n = scan.n
        /\ scan'.data = scan.data /\ scan'.key = scan.key
    BY <1>1, <2>1, WalkFields
  <2>3. KeyOK' /\ OwnerOK'
    BY <1>1, <2>1, <2>2 DEF WalkInv, KeyOK, OwnerOK, At, Places
  <2>4. ASSUME NEW f \in Valid, NEW op \in Ops, <<f, op>> \in due
        PROVE  Owed(f, op)'
    <3>1. Owed(f, op) /\ (f = scan.i => op = W)
      BY <1>3, <2>4 DEF WalkInv, DueOK, Owed, Ops
    <3> QED
      BY <1>1, <2>1, <2>2, <3>1 DEF Owed, Ahead, At
  <2> QED
    BY <2>1, <2>3, <2>4 DEF WalkInv, DueOK
<1> QED
  BY <1>2, <1>3

\* Past its write half an item has nothing left.
LEMMA PastItem ==
    ASSUME STInv, WalkInv, UNCHANGED <<fds, slave_r, slave_w, due>>,
           \A f \in Valid, op \in Ops : <<f, op>> \in due => f # scan.i,
           At("write") \/ At("call"),
           scan'.at = "item", scan'.i = scan.i + 1, scan'.n = scan.n, scan'.key = NoKey
    PROVE  WalkInv'
<1>1. ScanOK /\ Used' = Used
  BY DEF STInv, Used
<1>2. KeyOK' /\ OwnerOK'
  BY DEF WalkInv, KeyOK, OwnerOK, At, Places
<1>3. scan.i \in Nat /\ \A f \in Valid : f \in Nat
  BY <1>1, SizeAssumption DEF ScanOK, Valid
<1>4. ASSUME NEW f \in Valid, NEW op \in Ops, <<f, op>> \in due
      PROVE  Owed(f, op)'
  <2>1. Owed(f, op) /\ f # scan.i
    BY <1>4 DEF WalkInv, DueOK
  <2> QED
    BY <1>1, <1>3, <2>1 DEF Owed, Ahead, At
<1> QED
  BY <1>2, <1>4 DEF WalkInv, DueOK

\* The write half, like the read half.
LEMMA WriteWalk ==
    ASSUME STInv, WalkInv, write_half PROVE WalkInv'
<1>1. Running /\ ScanOK /\ At("write") /\ UNCHANGED <<fds, slave_r, slave_w>>
  BY DEF STInv, Destroyed, write_half, At, tables
<1>2. CASE scan.i \in slave_w /\ W \in fds[scan.i].interest
  <2>1. Call(W)
    BY <1>2 DEF write_half
  <2> QED
    BY <1>1, <1>2, <2>1, CallWalk, OpFacts
<1>3. CASE ~(scan.i \in slave_w /\ W \in fds[scan.i].interest)
  <2>1. Walk([at |-> "item", i |-> scan.i + 1, data |-> Nobody]) /\ due' = due
    BY <1>1, <1>3 DEF write_half
  <2>2. /\ scan'.at = "item" /\ scan'.i = scan.i + 1 /\ scan'.n = scan.n
        /\ scan'.key = scan.key
    BY <1>1, <2>1, WalkFields
  <2>3. scan.key = NoKey
    BY <1>1 DEF WalkInv, KeyOK, At
  <2>4. \A f \in Valid, op \in Ops : <<f, op>> \in due => f # scan.i
    BY <1>1, <1>3 DEF WalkInv, DueOK, Owed, Ahead
  <2> QED
    BY <1>1, <2>1, <2>2, <2>3, <2>4, PastItem
<1> QED
  BY <1>2, <1>3

\* A handler that returns leaves the write half, or the next item, to do.
LEMMA ReturnWalk ==
    ASSUME STInv, WalkInv, handler_returns PROVE WalkInv'
<1>1. /\ Running /\ ScanOK /\ At("call")
      /\ UNCHANGED <<fds, slave_r, slave_w, due>> /\ Used' = Used
  BY DEF STInv, Destroyed, handler_returns, At, tables, Used
<1>2. CASE scan.key.op = R
  <2>1. Walk([at |-> "write", key |-> NoKey, dropped |-> FALSE])
    BY <1>2 DEF handler_returns
  <2>2. /\ scan'.at = "write" /\ scan'.i = scan.i /\ scan'.n = scan.n
        /\ scan'.data = scan.data /\ scan'.key = NoKey
    BY <1>1, <2>1, WalkFields
  <2>3. KeyOK' /\ OwnerOK'
    BY <1>1, <2>2 DEF WalkInv, KeyOK, OwnerOK, At, Places
  <2>4. DueOK'
    BY <1>1, <2>2 DEF WalkInv, DueOK, Owed, Ahead, At
  <2> QED
    BY <2>3, <2>4 DEF WalkInv
<1>3. CASE scan.key.op # R
  <2>1. Walk([at |-> "item", i |-> scan.i + 1, data |-> Nobody, key |-> NoKey,
              dropped |-> FALSE])
    BY <1>3 DEF handler_returns
  <2>2. /\ scan'.at = "item" /\ scan'.i = scan.i + 1 /\ scan'.n = scan.n
        /\ scan'.key = NoKey
    BY <1>1, <2>1, WalkFields
  <2>3. \A f \in Valid, op \in Ops : <<f, op>> \in due => f # scan.i
    BY <1>1, <1>3 DEF WalkInv, DueOK, Owed, Ahead
  <2> QED
    BY <1>1, <2>2, <2>3, PastItem
<1> QED
  BY <1>2, <1>3

\* Steps that leave the items and what is owed alone.
LEMMA SameWalk ==
    ASSUME WalkInv, UNCHANGED <<fds, slave_r, slave_w, due, scan>> PROVE WalkInv'
BY DEF WalkInv, KeyOK, OwnerOK, DueOK, Owed, Ahead, At, Used

\* A descriptor registered by a handler is owed nothing in this iteration, and
\* is not the one the walk is at.
LEMMA OpenWalk ==
    ASSUME STInv, WalkInv, NEW d \in Data, NEW int, open_and_register(d, int)
    PROVE  WalkInv'
<1>1. /\ UNCHANGED <<slave_r, slave_w, scan, due>>
      /\ At("boot") \/ (At("call") /\ ~scan.dropped)
  BY DEF open_and_register
<1>2. CASE UNCHANGED <<fds, held>>
  BY <1>1, <1>2, SameWalk
<1>3. ASSUME NEW f \in Valid, ItemAdded(f, d, int) PROVE WalkInv'
  <2>1. /\ f \notin Used /\ Used' = Used \cup {f}
        /\ \A i \in Used : fds'[i] = fds[i]
    <3>1. Running
      BY <1>1 DEF STInv, Destroyed, At
    <3>2. Used \subseteq Cells
      BY <3>1, RunningFacts DEF UsedIn
    <3> QED
      BY <1>3, <3>2 DEF ItemAdded
  <2>2. KeyOK'
    BY <1>1 DEF WalkInv, KeyOK, At
  <2>3. OwnerOK'
    BY <1>1, <2>1 DEF WalkInv, OwnerOK, At
  <2>4. DueOK'
    BY <1>1, <2>1 DEF WalkInv, DueOK, Owed, Ahead, At
  <2> QED
    BY <2>2, <2>3, <2>4 DEF WalkInv
<1> QED
  BY <1>2, <1>3, OpenStep

\* A changed interest settles what it no longer asks for.
LEMMA InterestWalk ==
    ASSUME STInv, WalkInv, NEW f \in Valid, NEW int, set_interest(f, int)
    PROVE  WalkInv'
<1>1. /\ UNCHANGED <<slave_r, slave_w, scan>> /\ At("call")
      /\ due' = {e \in due : e[1] # f \/ e[2] \in int}
  BY DEF set_interest
<1>2. /\ due' \subseteq due
      /\ \A op \in Ops : <<f, op>> \in due' => op \in int
  BY <1>1
<1>3. CASE f \in Used
  <2>1. /\ Used' = Used /\ fds'[f].data = fds[f].data /\ fds'[f].interest = int
        /\ \A i \in Used : i # f => fds'[i] = fds[i]
    <3>1. Running
      BY <1>1 DEF STInv, Destroyed, At
    <3>2. Used \subseteq Cells
      BY <3>1, RunningFacts DEF UsedIn
    <3> QED
      BY <1>3, <3>2, InterestStep DEF ItemChanged
  <2>2. KeyOK'
    BY <1>1 DEF WalkInv, KeyOK, At
  <2>3. OwnerOK'
    BY <1>1, <2>1 DEF WalkInv, OwnerOK, At
  <2>4. ASSUME NEW g \in Valid, NEW op \in Ops, <<g, op>> \in due' PROVE Owed(g, op)'
    <3>1. Owed(g, op) /\ (g = f => op \in int)
      BY <1>2, <2>4 DEF WalkInv, DueOK
    <3>2. op \in fds'[g].interest
      BY <2>1, <3>1 DEF Owed
    <3> QED
      BY <1>1, <2>1, <3>1, <3>2 DEF Owed, Ahead, At
  <2>5. due' \subseteq Valid \X Ops
    BY <1>2 DEF WalkInv, DueOK
  <2> QED
    BY <2>2, <2>3, <2>4, <2>5 DEF WalkInv, DueOK
<1>4. CASE f \notin Used
  <2>1. fds' = fds /\ Used' = Used
    BY <1>4, InterestStep DEF Used
  <2> QED
    BY <1>1, <1>2, <2>1 DEF WalkInv, KeyOK, OwnerOK, DueOK, Owed, Ahead, At
<1> QED
  BY <1>3, <1>4

\* A closed descriptor is owed nothing; if it was the walk's own item, the
\* write half finds it unused.
LEMMA CloseWalk ==
    ASSUME STInv, WalkInv, NEW f \in Valid, unregister_and_close(f)
    PROVE  WalkInv'
<1>1. /\ UNCHANGED <<slave_r, slave_w>> /\ At("call")
      /\ due' = {e \in due : e[1] # f}
      /\ Walk([dropped |-> TRUE])
  BY DEF unregister_and_close
<1>2. Running /\ ScanOK
  BY <1>1 DEF STInv, Destroyed, At
<1>3. /\ scan'.at = scan.at /\ scan'.i = scan.i /\ scan'.n = scan.n
      /\ scan'.data = scan.data /\ scan'.key = scan.key /\ scan'.dropped = TRUE
  BY <1>1, <1>2, WalkFields
<1>4. /\ Used' = Used \ {f} /\ \A i \in Used : i # f => fds'[i] = fds[i]
  <2>1. Used \subseteq Cells
    BY <1>2, RunningFacts DEF UsedIn
  <2> QED
    BY <2>1, CloseStep DEF ItemRemoved
<1>5. KeyOK'
  BY <1>1, <1>3 DEF WalkInv, KeyOK, At
<1>6. OwnerOK'
  BY <1>1, <1>3, <1>4 DEF WalkInv, OwnerOK, At
<1>7. due' \subseteq Valid \X Ops /\ \A op \in Ops : <<f, op>> \notin due'
  BY <1>1 DEF WalkInv, DueOK
<1>8. ASSUME NEW g \in Valid, NEW op \in Ops, <<g, op>> \in due' PROVE Owed(g, op)'
  <2>1. Owed(g, op) /\ g # f
    BY <1>1, <1>7, <1>8 DEF WalkInv, DueOK
  <2> QED
    BY <1>1, <1>3, <1>4, <2>1 DEF Owed, Ahead, At
<1> QED
  BY <1>5, <1>6, <1>7, <1>8 DEF WalkInv, DueOK

\* Before the loop and after it nothing is owed.
LEMMA EdgeWalk ==
    ASSUME STInv, WalkInv, start \/ selector_destroy PROVE WalkInv'
<1>1. ScanOK /\ due' = due /\ (At("boot") \/ At("idle"))
  BY DEF STInv, start, selector_destroy
<1>2. due = {}
  BY <1>1 DEF WalkInv, DueOK, Owed, Ahead, At
<1>3. scan'.at \in {"idle", "destroyed"} /\ scan'.key = scan.key
  BY <1>1, WalkFields DEF start, selector_destroy
<1> QED
  BY <1>1, <1>2, <1>3 DEF WalkInv, KeyOK, OwnerOK, DueOK, At, Places

\* Every step keeps it.
LEMMA NextWalk == STInv /\ WalkInv /\ [Next]_vars => WalkInv'
<1> SUFFICES ASSUME STInv, WalkInv, [Next]_vars PROVE WalkInv'
  OBVIOUS
<1>1. CASE start \/ selector_destroy
  BY <1>1, EdgeWalk
<1>2. CASE selector_select \/ next_item \/ iteration_ends
  BY <1>2, SelectWalk, ItemWalk
<1>3. CASE read_half \/ write_half \/ handler_returns
  BY <1>3, ReadWalk, WriteWalk, ReturnWalk
<1>4. CASE Program
  <2>1. CASE \E d \in Data, int \in Interests : open_and_register(d, int)
    BY <2>1, OpenWalk
  <2>2. CASE \E f \in Valid, int \in Interests : set_interest(f, int)
    BY <2>2, InterestWalk
  <2>3. CASE \E f \in Valid : unregister_and_close(f)
    BY <2>3, CloseWalk
  <2>4. ASSUME NEW f \in Valid, register_again(f) PROVE WalkInv'
    BY <2>4, AgainStep, SameWalk DEF register_again
  <2> QED
    BY <1>4, <2>1, <2>2, <2>3, <2>4 DEF Program
<1>5. CASE UNCHANGED vars
  BY <1>5, SameWalk DEF vars
<1> QED
  BY <1>1, <1>2, <1>3, <1>4, <1>5 DEF Next

\* Both invariants, of every behaviour.
LEMMA WalkInvariant == Spec => [](STInv /\ WalkInv)
<1>1. Init => WalkInv
  BY DEF Init, WalkInv, KeyOK, OwnerOK, DueOK, At, Places
<1> QED
  BY <1>1, InitSTInv, NextSTInv, NextWalk, PTL DEF Spec

\* Whatever the handlers do to the table while handle_iteration walks it, an
\* event pselect reported is handled in that iteration, unless a handler took
\* the interest back: an iteration never ends owing one.
THEOREM ReportedIsHandled == Spec => []HandledInTurn
<1>1. WalkInv => HandledInTurn
  BY DEF WalkInv, DueOK, Owed, Ahead, At, HandledInTurn
<1> QED
  BY <1>1, WalkInvariant, PTL

-----------------------------------------------------------------------------
(* The table implements Registrations. *)

\* What Table maps the items to.
Reg == [f \in Valid |-> IF f \in Used THEN [owner |-> fds[f].data, int |-> fds[f].interest]
                                      ELSE [owner |-> Nobody, int |-> {}]]

\* Registering an item is Register.
LEMMA AddedRegisters ==
    ASSUME Running, NEW f \in Valid, NEW d \in Data, NEW int \in Interests,
           ItemAdded(f, d, int), scan'.key = scan.key
    PROVE  Table!Register(f)
<1>1. Valid \subseteq Cells
  BY SizeAssumption DEF Valid, Cells
<1>2. Reg[f] = Table!Absent /\ Reg'[f] = [owner |-> d, int |-> int]
  BY DEF ItemAdded, Reg, Table!Absent
<1>3. Reg' = [Reg EXCEPT ![f] = Reg'[f]]
  BY <1>1, <1>2 DEF ItemAdded, Reg
<1>4. held' = [held EXCEPT ![Reg'[f].owner] = @ + 1]
  BY <1>2 DEF ItemAdded
<1>5. Reg'[f] \in Table!Entries
  BY <1>2 DEF Table!Entries, Table!Op, Interests, R, W
<1> QED
  BY <1>2, <1>3, <1>4, <1>5 DEF Table!Register, Reg

\* Changing an item's interest is SetInterest.
LEMMA ChangedSetsInterest ==
    ASSUME Running, NEW f \in Valid, NEW int \in Interests, ItemChanged(f, int),
           scan'.key = scan.key
    PROVE  Table!SetInterest(f)
<1>1. Valid \subseteq Cells
  BY SizeAssumption DEF Valid, Cells
<1>2. fds[f].data \in Data /\ f \in Used
  BY <1>1, ItemCases, RunningFacts, S0Fields DEF Running, Good, ItemChanged
<1>3. Reg[f] # Table!Absent
  BY <1>2, DataAssumption DEF Reg, Table!Absent
<1>4. Reg[f] = [owner |-> fds[f].data, int |-> fds[f].interest]
      /\ Reg'[f] = [owner |-> fds[f].data, int |-> int]
  BY <1>2 DEF ItemChanged, Reg
<1>5. Reg' = [Reg EXCEPT ![f].int = Reg'[f].int]
  <2>1. \A g \in Valid : g # f => Reg'[g] = Reg[g]
    BY <1>1 DEF ItemChanged, Reg
  <2>2. Reg' = [Reg EXCEPT ![f] = Reg'[f]]
    BY <2>1 DEF Reg
  <2>3. [Reg[f] EXCEPT !.int = Reg'[f].int] = Reg'[f]
    BY <1>4
  <2> QED
    BY <2>2, <2>3
<1>6. Reg'[f].int \in SUBSET Table!Op
  BY <1>4 DEF Interests, Table!Op, R, W
<1>7. held' = held
  BY DEF ItemChanged
<1> QED
  BY <1>3, <1>5, <1>6, <1>7 DEF Table!SetInterest, Reg

\* Removing an item is Unregister.
LEMMA RemovedUnregisters ==
    ASSUME Running, NEW f \in Valid, ItemRemoved(f), scan'.key = scan.key
    PROVE  Table!Unregister(f)
<1>1. Valid \subseteq Cells
  BY SizeAssumption DEF Valid, Cells
<1>2. fds[f].data \in Data /\ f \in Used
  BY <1>1, ItemCases, RunningFacts, S0Fields DEF Running, Good, ItemRemoved
<1>3. Reg[f] # Table!Absent /\ Reg[f].owner = fds[f].data
  BY <1>2, DataAssumption DEF Reg, Table!Absent
<1>4. Reg' = [Reg EXCEPT ![f] = Table!Absent]
  BY <1>1 DEF ItemRemoved, Reg, Table!Absent
<1>5. held' = [held EXCEPT ![Reg[f].owner] = @ - 1]
  BY <1>3 DEF ItemRemoved
<1> QED
  BY <1>3, <1>4, <1>5 DEF Table!Unregister, Reg

\* Steps of the walk between two events are invisible.
LEMMA Invisible ==
    ASSUME UNCHANGED <<fds, held>>, scan'.key = scan.key
    PROVE  UNCHANGED Table!vars
BY DEF Table!vars, Used

\* A handler's call is Deliver: the data filled in before the read half is the
\* owner's that the item has when the handler is called.
LEMMA CallDelivers ==
    ASSUME STInv, WalkInv, NEW op \in Ops, Call(op), At("read") \/ At("write"),
           op \in fds[scan.i].interest, UNCHANGED <<fds, held>>
    PROVE  \E f \in Valid, o \in Table!Op : Table!Deliver(f, o)
<1>1. Running /\ ScanOK /\ Reg' = Reg
  BY DEF STInv, Destroyed, At, Reg, Used
<1>2. scan.i \in Used /\ scan.i \in Valid
  <2>1. scan.i <= scan.n /\ scan.i \in Cells
    BY <1>1, SizeAssumption DEF WalkInv, OwnerOK, At, ScanOK, Valid, Cells
  <2>2. fds[scan.i] # Unused
    BY UnusedFields
  <2> QED
    BY <1>1, <2>1, <2>2, ItemCases, RunningFacts, S0Fields DEF Running, Good
<1>3. scan.data = fds[scan.i].data
  BY <1>2 DEF WalkInv, OwnerOK
<1>4. scan'.key = [fd |-> scan.i, op |-> op, data |-> scan.data]
  BY <1>1, WalkFields DEF Call
<1>5. Reg[scan.i].owner = scan.data /\ op \in Reg[scan.i].int
  BY <1>2, <1>3 DEF Reg
<1>6. scan.key = Table!NoEvent
  BY DEF WalkInv, KeyOK, At, NoKey, Table!NoEvent
<1>7. op \in Table!Op
  BY DEF Table!Op, Ops, R, W
<1>8. Table!Deliver(scan.i, op)
  BY <1>1, <1>4, <1>5, <1>6 DEF Table!Deliver, Reg
<1> QED
  BY <1>2, <1>7, <1>8

\* A handler's return is Return.
LEMMA HandlerReturns ==
    ASSUME STInv, WalkInv, handler_returns
    PROVE  Table!Return
<1>1. ScanOK /\ UNCHANGED <<fds, held>> /\ At("call")
  BY DEF STInv, handler_returns, tables
<1>2. scan.key # Table!NoEvent
  BY <1>1, OpFacts DEF WalkInv, KeyOK, NoKey, Table!NoEvent
<1>3. scan'.key = Table!NoEvent
  BY <1>1, WalkFields DEF handler_returns, NoKey, Table!NoEvent
<1>4. Used' = Used
  BY <1>1 DEF Used
<1> QED
  BY <1>1, <1>2, <1>3, <1>4 DEF Table!Return

\* selector_destroy is Destroy.
LEMMA Destroys ==
    ASSUME STInv, WalkInv, selector_destroy
    PROVE  Table!Destroy
<1>1. At("idle") /\ ScanOK /\ scan'.at = "destroyed" /\ scan'.key = scan.key
  <2>1. ScanOK /\ Walk([at |-> "destroyed"]) /\ At("idle")
    BY DEF STInv, selector_destroy
  <2> QED
    BY <2>1, WalkFields
<1>2. scan.key = Table!NoEvent
  BY <1>1 DEF WalkInv, KeyOK, At, NoKey, Table!NoEvent
<1>3. held' = [d \in Data |-> 0] /\ fds' = << >>
  BY <1>1, DestroyStep DEF STInv, Running, Destroyed, At
<1>4. Reg' = [f \in Valid |-> Table!Absent]
  BY <1>3 DEF Reg, Used, Table!Absent
<1> QED
  BY <1>1, <1>2, <1>3, <1>4 DEF Table!Destroy, Reg

\* Every step is one of Registrations' or invisible to it.
LEMMA NextRegistrations ==
    STInv /\ WalkInv /\ [Next]_vars => [Table!Next]_(Table!vars)
<1> SUFFICES ASSUME STInv, WalkInv, [Next]_vars PROVE Table!Next \/ UNCHANGED Table!vars
  OBVIOUS
<1>1. CASE start \/ selector_select \/ next_item \/ iteration_ends
  <2>1. ScanOK /\ UNCHANGED <<fds, held>>
    BY <1>1 DEF STInv, start, selector_select, next_item, iteration_ends, tables
  <2>2. scan'.key = scan.key
    BY <1>1, <2>1, WalkFields DEF start, selector_select, next_item, iteration_ends
  <2> QED
    BY <2>1, <2>2, Invisible
<1>2. CASE read_half \/ write_half
  <2>1. ScanOK /\ UNCHANGED <<fds, held>> /\ (At("read") \/ At("write"))
    BY <1>2 DEF STInv, read_half, write_half, tables
  <2>2. \/ \E op \in Ops : Call(op) /\ op \in fds[scan.i].interest
        \/ Walk([at |-> "write"])
        \/ Walk([at |-> "item", i |-> scan.i + 1, data |-> Nobody])
    BY <1>2, OpFacts DEF read_half, write_half
  <2>3. CASE \E op \in Ops : Call(op) /\ op \in fds[scan.i].interest
    BY <2>1, <2>3, CallDelivers DEF Table!Next
  <2>4. CASE \/ Walk([at |-> "write"])
             \/ Walk([at |-> "item", i |-> scan.i + 1, data |-> Nobody])
    <3>1. scan'.key = scan.key
      BY <2>1, <2>4, WalkFields
    <3> QED
      BY <2>1, <3>1, Invisible
  <2> QED
    BY <2>2, <2>3, <2>4
<1>3. CASE handler_returns
  BY <1>3, HandlerReturns DEF Table!Next
<1>4. CASE selector_destroy
  BY <1>4, Destroys DEF Table!Next
<1>5. CASE Program
  <2>1. Running /\ ScanOK
    BY <1>5 DEF STInv, Destroyed, At, Program, open_and_register, set_interest,
                register_again, unregister_and_close
  <2>2. ASSUME NEW d \in Data, NEW int \in Interests, open_and_register(d, int)
        PROVE  Table!Next \/ UNCHANGED Table!vars
    <3>1. scan'.key = scan.key
      BY <2>2 DEF open_and_register
    <3> QED
      BY <2>1, <2>2, <3>1, OpenStep, Invisible, AddedRegisters DEF Table!Next
  <2>3. ASSUME NEW f \in Valid, NEW int \in Interests, set_interest(f, int)
        PROVE  Table!Next \/ UNCHANGED Table!vars
    <3>1. scan'.key = scan.key
      BY <2>3 DEF set_interest
    <3> QED
      BY <2>1, <2>3, <3>1, InterestStep, Invisible, ChangedSetsInterest DEF Table!Next
  <2>4. ASSUME NEW f \in Valid, register_again(f)
        PROVE  UNCHANGED Table!vars
    <3>1. scan'.key = scan.key
      BY <2>4 DEF register_again
    <3> QED
      BY <2>4, <3>1, AgainStep, Invisible
  <2>5. ASSUME NEW f \in Valid, unregister_and_close(f)
        PROVE  Table!Next
    <3>1. scan'.key = scan.key
      BY <2>1, <2>5, WalkFields DEF unregister_and_close
    <3> QED
      BY <2>1, <2>5, <3>1, CloseStep, RemovedUnregisters DEF Table!Next
  <2> QED
    BY <1>5, <2>2, <2>3, <2>4, <2>5 DEF Program
<1>6. CASE UNCHANGED vars
  BY <1>6, Invisible DEF vars
<1> QED
  BY <1>1, <1>2, <1>3, <1>4, <1>5, <1>6 DEF Next

\* The items, the descriptor sets and the walk together keep the promise of
\* Registrations: an event goes to the owner its descriptor has at that moment,
\* and only if that registration asks for it, although handle_iteration fills
\* in the key once for both of an item's operations and the handler of the
\* first may have closed the descriptor.
THEOREM ImplementsRegistrations == Spec => RegistrationsSpec
<1>1. Init => Table!Init
  <2> SUFFICES ASSUME Init PROVE Table!Init
    OBVIOUS
  <2>1. Used = {}
    BY UnusedFields DEF Init, Used
  <2> QED
    BY <2>1 DEF Init, Table!Init, Table!Absent, Table!NoEvent, NoKey
<1> QED
  BY <1>1, NextRegistrations, WalkInvariant, PTL DEF Spec, RegistrationsSpec, Table!Spec

=============================================================================
