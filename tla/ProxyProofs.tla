----------------------------- MODULE ProxyProofs -----------------------------
(***************************************************************************)
(* The life of connections for any number of them, of descriptors and of   *)
(* addresses, and for every network and fault that Proxy allows.  What     *)
(* makes the properties inductive is that a handler changes one connection *)
(* (Frame), that a descriptor is used by one connection in one role        *)
(* (Links), and that each stage is entered with what it relies on (Sound). *)
(*                                                                         *)
(* The first half is about the calls that the handlers are made of: each   *)
(* lemma takes a safe world to a safe world and says what it did to the    *)
(* connections it was not called for, next to nothing.                     *)
(***************************************************************************)
EXTENDS Proxy, DataLemmas, FiniteSetTheorems, SequenceTheorems, TLAPS

ConnType == [live : BOOLEAN, st : Stages, client : Fd \cup {None}, origin : Fd \cup {None},
             method : {"unset"} \cup Methods, auth : {"unset"} \cup Verdicts,
             status : {"ok", "err"}, addrs : 0..MaxAddrs, resolved : BOOLEAN,
             refs : Nat, replies : Nat, thread : BOOLEAN, open : SUBSET {"up", "down"}]
ItemType == [owner : Conn \cup {None}, int : SUBSET {R, W}]
SockType == {"free", "client", "new", "connecting", "connected", "up", "error", "dead"}

\* The gauge is a number that only MetricsOrdered keeps from falling below 0.
WorldType == [conn : [Conn -> ConnType], item : [Fd -> ItemType], sock : [Fd -> SockType],
              pool : Seq(Conn), pool_size : 0..max_pool,
              metrics : [attempts : Nat, historic : Nat, concurrent : Int, max : Nat],
              stopped : {"no", "abort", "io", "exit"}]

\* The entries of a connection.
Owned(w, c) == {f \in Fd : w.item[f].owner = c}

\* Its client is registered, which is so until it is torn down.
Alive(w, c) == w.conn[c].client \in Fd /\ w.item[w.conn[c].client].owner = c

\* The descriptors it works with; an entry it owns may be neither, if the
\* descriptor was closed without being unregistered.
Uses(w, c, f) == Alive(w, c) /\ (w.conn[c].client = f \/ w.conn[c].origin = f)

\* What holds even while everything is being unregistered at the exit.
Basic(w) ==
    /\ w \in WorldType
    /\ \A f \in Fd : w.item[f].owner = None => w.item[f].int = {}
    /\ \A f \in Fd : w.item[f].owner # None => w.conn[w.item[f].owner].live
    /\ \A f \in Fd : w.item[f].int # {} => w.sock[f] # "free"
    /\ \A c \in Conn : w.conn[c].refs >= Cardinality(Owned(w, c))
    /\ \A i, j \in 1..Len(w.pool) : w.pool[i] = w.pool[j] => i = j
    /\ \A i \in 1..Len(w.pool) : ~w.conn[w.pool[i]].live

\* What is armed is in use, what is in use is open, and by one connection in
\* one role.
Links(w) ==
    /\ \A f \in Fd : w.item[f].int # {} => Uses(w, w.item[f].owner, f)
    /\ \A c \in Conn, f \in Fd : Uses(w, c, f) => w.sock[f] # "free"
    /\ \A c \in Conn : Alive(w, c) => w.conn[c].client # w.conn[c].origin
    /\ \A c, d \in Conn, f \in Fd : Uses(w, c, f) /\ Uses(w, d, f) => c = d

Safe(w) == Basic(w) /\ Links(w)

\* Two values of a struct differ in the references at most.
Fields == {"live", "st", "client", "origin", "method", "auth", "status", "addrs", "resolved",
           "replies", "thread", "open"}
SameButRefs(x, y) == \A g \in Fields : x[g] = y[g]

\* From w to v on behalf of c: the other connections stay as they were.  One
\* with an entry for a descriptor that c came to use may lose it, and with it
\* a reference.
Frame(w, v, c) ==
    \A d \in Conn \ {c} :
        /\ Alive(v, d) <=> Alive(w, d)
        /\ v.conn[d].thread => w.conn[d].thread
        /\ Alive(w, d) => SameButRefs(v.conn[d], w.conn[d])
        /\ Alive(w, d) /\ w.conn[d].refs = 1 => v.conn[d] = w.conn[d]
        /\ \A f \in Fd : Uses(w, d, f) => v.item[f] = w.item[f]

\* A connection has finitely many entries.
LEMMA OwnedFinite ==
    ASSUME NEW w, NEW c
    PROVE  IsFiniteSet(Owned(w, c)) /\ Cardinality(Owned(w, c)) \in Nat
<1>1. IsFiniteSet(Fd)
  BY FS_Interval, MaxFdAssumption DEF Fd
<1>2. Owned(w, c) \in SUBSET Fd
  BY DEF Owned
<1> QED
  BY <1>1, <1>2, FS_Subset, FS_CardinalityType

\* A chain of calls.
LEMMA FrameTrans ==
    ASSUME NEW w \in WorldType, NEW u \in WorldType, NEW v \in WorldType, NEW c \in Conn,
           Frame(w, u, c), Frame(u, v, c)
    PROVE  Frame(w, v, c)
<1> SUFFICES ASSUME NEW d \in Conn \ {c}
             PROVE  /\ Alive(v, d) <=> Alive(w, d)
                    /\ v.conn[d].thread => w.conn[d].thread
                    /\ Alive(w, d) => SameButRefs(v.conn[d], w.conn[d])
                    /\ Alive(w, d) /\ w.conn[d].refs = 1 => v.conn[d] = w.conn[d]
                    /\ \A f \in Fd : Uses(w, d, f) => v.item[f] = w.item[f]
  BY DEF Frame
<1>2. Alive(v, d) <=> Alive(w, d)
  BY DEF Frame
<1>6. v.conn[d].thread => w.conn[d].thread
  BY DEF Frame
<1>3. Alive(w, d) => SameButRefs(v.conn[d], w.conn[d])
  BY DEF Frame, SameButRefs
<1>4. Alive(w, d) /\ w.conn[d].refs = 1 => v.conn[d] = w.conn[d]
  BY DEF Frame
<1>5. ASSUME NEW f \in Fd, Uses(w, d, f) PROVE v.item[f] = w.item[f]
  <2>1. Alive(w, d) /\ SameButRefs(u.conn[d], w.conn[d]) /\ Alive(u, d)
    BY <1>5 DEF Frame, Uses
  <2>2. u.conn[d].client = w.conn[d].client /\ u.conn[d].origin = w.conn[d].origin
    BY <2>1 DEF SameButRefs, Fields
  <2>3. Uses(u, d, f)
    BY <1>5, <2>1, <2>2 DEF Uses
  <2> QED
    BY <1>5, <2>3 DEF Frame
<1> QED
  BY <1>2, <1>3, <1>4, <1>5, <1>6

\* Nothing at all.
LEMMA FrameNone ==
    ASSUME NEW w \in WorldType, NEW c \in Conn
    PROVE  Frame(w, w, c)
BY DEF Frame, SameButRefs

\* v differs from w in the metrics, the reason to stop, and fields of c that
\* no entry, descriptor or thread depends on.
Touched(w, v, c) ==
    /\ v \in WorldType
    /\ v.item = w.item /\ v.sock = w.sock /\ v.pool = w.pool
    /\ \A d \in Conn \ {c} : v.conn[d] = w.conn[d]
    /\ v.conn[c].live = w.conn[c].live /\ v.conn[c].client = w.conn[c].client
    /\ v.conn[c].origin = w.conn[c].origin /\ v.conn[c].refs >= w.conn[c].refs

\* Such fields can be set at any time.
LEMMA TouchSafe ==
    ASSUME NEW w, NEW v, NEW c \in Conn, Safe(w), Touched(w, v, c)
    PROVE  /\ Safe(v) /\ Frame(w, v, c)
           /\ \A d \in Conn : Alive(v, d) <=> Alive(w, d)
           /\ \A d \in Conn, f \in Fd : Uses(v, d, f) <=> Uses(w, d, f)
<1>1. /\ \A d \in Conn : Alive(v, d) <=> Alive(w, d)
      /\ \A d \in Conn, f \in Fd : Uses(v, d, f) <=> Uses(w, d, f)
  BY DEF Touched, Alive, Uses
<1>2. \A d \in Conn : Owned(v, d) = Owned(w, d)
  BY DEF Touched, Owned
<1>3. Basic(v)
  <2>1. /\ \A d \in Conn : v.conn[d].live = w.conn[d].live
        /\ \A d \in Conn : v.conn[d].refs >= w.conn[d].refs
    <3>1. \A d \in Conn : w.conn[d].refs \in Nat
      BY DEF Safe, Basic, WorldType, ConnType
    <3> QED
      BY <3>1 DEF Touched
  <2>2. \A d \in Conn : v.conn[d].refs >= Cardinality(Owned(v, d))
    <3> SUFFICES ASSUME NEW d \in Conn PROVE v.conn[d].refs >= Cardinality(Owned(v, d))
      OBVIOUS
    <3>1. Cardinality(Owned(w, d)) \in Nat
      BY OwnedFinite
    <3>2. v.conn[d].refs \in Nat /\ w.conn[d].refs \in Nat
      BY DEF Touched, Safe, Basic, WorldType, ConnType
    <3> QED
      BY <1>2, <2>1, <3>1, <3>2 DEF Safe, Basic
  <2>3. \A f \in Fd : v.item[f].owner # None => v.conn[v.item[f].owner].live
    BY <2>1 DEF Touched, Safe, Basic, WorldType, ItemType
  <2>4. \A i \in 1..Len(v.pool) : ~v.conn[v.pool[i]].live
    BY <2>1, ElementOfSeq DEF Touched, Safe, Basic, WorldType
  <2> QED
    BY <2>2, <2>3, <2>4 DEF Touched, Safe, Basic
<1>4. Links(v)
  <2>1. /\ v.item = w.item /\ v.sock = w.sock
        /\ \A d \in Conn : v.conn[d].client = w.conn[d].client /\ v.conn[d].origin = w.conn[d].origin
    BY DEF Touched
  <2>2. \A f \in Fd : w.item[f].int # {} => w.item[f].owner \in Conn
    BY DEF Safe, Basic, WorldType, ItemType
  <2> QED
    BY <1>1, <2>1, <2>2 DEF Safe, Links
<1>5. Frame(w, v, c)
  BY <1>1, FrameNone DEF Touched, Frame, Safe, Basic
<1> QED
  BY <1>1, <1>3, <1>4, <1>5 DEF Safe

\* selector_set_interest on a descriptor of c, which has its own entry if it
\* is to be armed.
LEMMA InterestSafe ==
    ASSUME NEW w, NEW c \in Conn, Safe(w), NEW f, f \in Fd => Uses(w, c, f),
           NEW i \in SUBSET {R, W}, ITEM_USED(w, f) /\ i # {} => w.item[f].owner = c
    PROVE  LET v == selector_set_interest(w, f, i)
           IN /\ Safe(v) /\ Frame(w, v, c)
              /\ \A d \in Conn : Alive(v, d) <=> Alive(w, d)
              /\ \A d \in Conn, g \in Fd : Uses(v, d, g) <=> Uses(w, d, g)
              /\ v.conn = w.conn /\ v.sock = w.sock /\ v.pool = w.pool
              /\ v.metrics = w.metrics /\ v.stopped = w.stopped
              /\ \A g \in Fd : v.item[g].owner = w.item[g].owner
              /\ \A g \in Fd \ {f} : v.item[g] = w.item[g]
              /\ f \in Fd /\ w.item[f].owner # None => v.item[f].int = i
<1> DEFINE v == selector_set_interest(w, f, i)
<1>1. CASE ~ITEM_USED(w, f)
  <2>1. v = w
    BY <1>1 DEF selector_set_interest
  <2> QED
    BY <1>1, <2>1, FrameNone DEF Safe, Basic, ITEM_USED
<1>2. CASE ITEM_USED(w, f)
  <2>1. f \in Fd /\ w.item[f].owner \in Conn /\ w \in WorldType
    BY <1>2 DEF ITEM_USED, Safe, Basic, WorldType, ItemType
  <2>2. v = [w EXCEPT !.item[f].int = i]
    BY <1>2 DEF selector_set_interest
  <2>3. /\ v.conn = w.conn /\ v.sock = w.sock /\ v.pool = w.pool
        /\ v.metrics = w.metrics /\ v.stopped = w.stopped
        /\ \A g \in Fd : v.item[g].owner = w.item[g].owner
        /\ \A g \in Fd \ {f} : v.item[g] = w.item[g]
        /\ v.item[f].int = i
    BY <2>1, <2>2 DEF WorldType, ItemType
  <2>4. v \in WorldType
    <3>1. [w.item[f] EXCEPT !.int = i] \in ItemType
      BY <2>1 DEF WorldType, ItemType
    <3>2. [w.item EXCEPT ![f].int = i] \in [Fd -> ItemType]
      BY <2>1, <3>1 DEF WorldType
    <3> QED
      BY <2>1, <2>2, <3>2 DEF WorldType
  <2> HIDE DEF v
  <2>5. /\ \A d \in Conn : Alive(v, d) <=> Alive(w, d)
        /\ \A d \in Conn, g \in Fd : Uses(v, d, g) <=> Uses(w, d, g)
        /\ \A d \in Conn : Owned(v, d) = Owned(w, d)
    BY <2>3 DEF Alive, Uses, Owned
  <2>6. i # {} => Uses(w, w.item[f].owner, f) /\ w.sock[f] # "free"
    BY <1>2, <2>1 DEF Safe, Links
  <2>7. Basic(v)
    BY <1>2, <2>1, <2>3, <2>4, <2>5, <2>6 DEF Safe, Basic, ITEM_USED
  <2>8. Links(v)
    <3>1. \A g \in Fd : v.item[g].int # {} => Uses(v, v.item[g].owner, g)
      BY <2>1, <2>3, <2>5, <2>6 DEF Safe, Links, Basic, WorldType, ItemType
    <3> QED
      BY <2>3, <2>5, <3>1 DEF Safe, Links
  <2>9. Frame(w, v, c)
    <3>1. \A d \in Conn \ {c} : ~Uses(w, d, f)
      BY <2>1 DEF Safe, Links
    <3> QED
      BY <2>3, <2>5, <3>1 DEF Frame, SameButRefs
  <2> QED
    BY <2>3, <2>5, <2>7, <2>8, <2>9 DEF Safe, v
<1> QED
  BY <1>1, <1>2

\* The state of an open socket.
LEMMA SockSafe ==
    ASSUME NEW w, Safe(w), NEW f \in Fd, w.sock[f] # "free",
           NEW s \in SockType \ {"free"}
    PROVE  LET v == [w EXCEPT !.sock[f] = s]
           IN /\ Safe(v) /\ \A c \in Conn : Frame(w, v, c)
              /\ \A d \in Conn : Alive(v, d) <=> Alive(w, d)
              /\ \A d \in Conn, g \in Fd : Uses(v, d, g) <=> Uses(w, d, g)
              /\ v.conn = w.conn /\ v.item = w.item
              /\ v.metrics = w.metrics /\ v.stopped = w.stopped
<1> DEFINE v == [w EXCEPT !.sock[f] = s]
<1>1. /\ v.conn = w.conn /\ v.item = w.item /\ v.pool = w.pool
      /\ v.metrics = w.metrics /\ v.stopped = w.stopped
      /\ \A g \in Fd : v.sock[g] = IF g = f THEN s ELSE w.sock[g]
  BY DEF Safe, Basic, WorldType
<1>2. v \in WorldType
  BY DEF Safe, Basic, WorldType
<1> HIDE DEF v
<1>3. /\ \A d \in Conn : Alive(v, d) <=> Alive(w, d)
      /\ \A d \in Conn, g \in Fd : Uses(v, d, g) <=> Uses(w, d, g)
      /\ \A d \in Conn : Owned(v, d) = Owned(w, d)
  BY <1>1 DEF Alive, Uses, Owned
<1>4. Basic(v)
  BY <1>1, <1>2, <1>3 DEF Safe, Basic
<1>5. Links(v)
  <2>1. \A g \in Fd : w.item[g].int # {} => w.item[g].owner \in Conn
    BY DEF Safe, Basic, WorldType, ItemType
  <2>2. \A g \in Fd : w.sock[g] # "free" => v.sock[g] # "free"
    BY <1>1
  <2> QED
    BY <1>1, <1>3, <2>1, <2>2 DEF Safe, Links
<1>6. \A c \in Conn : Frame(w, v, c)
  BY <1>1, <1>3 DEF Frame, SameButRefs
<1> QED
  BY <1>1, <1>3, <1>4, <1>5, <1>6 DEF Safe, v

\* A list with one more element, of the free structs or of notifications.
LEMMA Pushed ==
    ASSUME NEW S, NEW q \in Seq(S), NEW d \in S
    PROVE  /\ <<d>> \o q \in Seq(S) /\ Len(<<d>> \o q) = Len(q) + 1
           /\ (<<d>> \o q)[1] = d /\ \A i \in 1..Len(q) : (<<d>> \o q)[i + 1] = q[i]
           /\ \A i \in 1..(Len(q) + 1) : i = 1 \/ ((i - 1) \in 1..Len(q) /\ (<<d>> \o q)[i] = q[i - 1])
<1>1. <<d>> \in Seq(S) /\ Len(<<d>>) = 1 /\ <<d>>[1] = d
  OBVIOUS
<1>2. /\ <<d>> \o q \in Seq(S) /\ Len(<<d>> \o q) = Len(q) + 1 /\ Len(q) \in Nat
      /\ \A i \in 1..(1 + Len(q)) : (<<d>> \o q)[i] = IF i <= 1 THEN <<d>>[i] ELSE q[i - 1]
  BY <1>1, ConcatProperties, LenProperties
<1>3. (<<d>> \o q)[1] = d
  BY <1>1, <1>2
<1>4. \A i \in 1..(Len(q) + 1) : i = 1 \/ ((i - 1) \in 1..Len(q) /\ (<<d>> \o q)[i] = q[i - 1])
  BY <1>2
<1>5. ASSUME NEW i \in 1..Len(q) PROVE (<<d>> \o q)[i + 1] = q[i]
  BY <1>2
<1> QED
  BY <1>2, <1>3, <1>4, <1>5

\* An entry is one of its owner's, who has a reference for it.
LEMMA OwnerHasRef ==
    ASSUME NEW w, Basic(w), NEW f \in Fd, w.item[f].owner # None
    PROVE  LET d == w.item[f].owner
           IN /\ d \in Conn /\ w.conn[d].live /\ w.conn[d].refs \in Nat \ {0}
              /\ Cardinality(Owned(w, d) \ {f}) <= w.conn[d].refs - 1
              /\ w.conn[d].refs = 1 => Owned(w, d) = {f}
<1> DEFINE d == w.item[f].owner
<1>1. d \in Conn /\ w.conn[d].live /\ w.conn[d].refs \in Nat
  BY DEF Basic, WorldType, ItemType, ConnType
<1>2. f \in Owned(w, d)
  BY DEF Owned
<1>3. IsFiniteSet(Owned(w, d)) /\ Cardinality(Owned(w, d)) \in Nat
  BY OwnedFinite
<1>4. /\ IsFiniteSet(Owned(w, d) \ {f})
      /\ Cardinality(Owned(w, d) \ {f}) = Cardinality(Owned(w, d)) - 1
  BY <1>2, <1>3, FS_RemoveElement
<1>5. Cardinality(Owned(w, d) \ {f}) \in Nat
  BY <1>4, FS_CardinalityType
<1>6. w.conn[d].refs >= Cardinality(Owned(w, d))
  BY <1>1 DEF Basic
<1>7. /\ w.conn[d].refs # 0 /\ Cardinality(Owned(w, d) \ {f}) <= w.conn[d].refs - 1
      /\ w.conn[d].refs = 1 => Cardinality(Owned(w, d) \ {f}) = 0
  BY <1>1, <1>3, <1>4, <1>5, <1>6
<1>8. w.conn[d].refs = 1 => Owned(w, d) \ {f} = {}
  BY <1>4, <1>7, FS_EmptySet
<1> QED
  BY <1>1, <1>2, <1>7, <1>8

\* A struct that has no entry left is cleared.
LEMMA DestroyType ==
    ASSUME NEW w \in WorldType, NEW d \in Conn, w.conn[d].refs # 0
    PROVE  LET v == socks5_destroy(w, d)
           IN /\ v \in WorldType
              /\ v.item = w.item /\ v.sock = w.sock
              /\ v.metrics = w.metrics /\ v.stopped = w.stopped
              /\ \A e \in Conn \ {d} : v.conn[e] = w.conn[e]
              /\ \/ /\ w.conn[d].refs = 1 /\ v.conn[d] = Blank
                    /\ v.pool = w.pool \/ v.pool = <<d>> \o w.pool
                 \/ /\ w.conn[d].refs # 1 /\ v.pool = w.pool
                    /\ SameButRefs(v.conn[d], w.conn[d])
                    /\ v.conn[d].refs = w.conn[d].refs - 1
<1> DEFINE v == socks5_destroy(w, d)
<1>1. Blank \in ConnType
  BY MaxAddrsAssumption DEF Blank, ConnType, Stages
<1>2. w.conn \in [Conn -> ConnType] /\ w.conn[d] \in ConnType /\ w.conn[d].refs \in Nat
  BY DEF WorldType, ConnType
<1>3. CASE w.conn[d].refs # 1
  <2>1. v = [w EXCEPT !.conn[d].refs = @ - 1]
    BY <1>3 DEF socks5_destroy
  <2>2. w.conn[d].refs - 1 \in Nat
    BY <1>2
  <2>3. [w.conn[d] EXCEPT !.refs = @ - 1] \in ConnType
    BY <1>2, <2>2 DEF ConnType
  <2>4. [w.conn EXCEPT ![d].refs = @ - 1] \in [Conn -> ConnType]
    BY <1>2, <2>3
  <2>5. v \in WorldType
    BY <2>1, <2>4 DEF WorldType
  <2>6. /\ v.item = w.item /\ v.sock = w.sock /\ v.pool = w.pool
        /\ v.metrics = w.metrics /\ v.stopped = w.stopped
        /\ v.conn = [w.conn EXCEPT ![d].refs = @ - 1]
    BY <2>1 DEF WorldType
  <2>7. /\ \A e \in Conn \ {d} : v.conn[e] = w.conn[e]
        /\ v.conn[d] = [w.conn[d] EXCEPT !.refs = @ - 1]
    BY <1>2, <2>6
  <2>8. SameButRefs(v.conn[d], w.conn[d]) /\ v.conn[d].refs = w.conn[d].refs - 1
    BY <1>2, <2>7 DEF SameButRefs, Fields, ConnType
  <2> QED
    BY <1>3, <2>5, <2>6, <2>7, <2>8
<1>4. CASE w.conn[d].refs = 1 /\ w.pool_size < max_pool
  <2>1. v = [w EXCEPT !.conn[d] = Blank, !.pool = <<d>> \o @, !.pool_size = @ + 1]
    BY <1>4 DEF socks5_destroy
  <2>2. <<d>> \o w.pool \in Seq(Conn) /\ w.pool_size + 1 \in 0..max_pool
    BY <1>4, Pushed, MaxPoolAssumption DEF WorldType
  <2>3. [w.conn EXCEPT ![d] = Blank] \in [Conn -> ConnType]
    BY <1>1, <1>2
  <2>4. v \in WorldType
    BY <2>1, <2>2, <2>3 DEF WorldType
  <2> QED
    BY <1>4, <2>1, <2>4 DEF WorldType
<1>5. CASE w.conn[d].refs = 1 /\ ~(w.pool_size < max_pool)
  <2>1. v = [w EXCEPT !.conn[d] = Blank]
    BY <1>5 DEF socks5_destroy
  <2>2. [w.conn EXCEPT ![d] = Blank] \in [Conn -> ConnType]
    BY <1>1, <1>2
  <2>3. v \in WorldType
    BY <2>1, <2>2 DEF WorldType
  <2> QED
    BY <1>5, <2>1, <2>3 DEF WorldType
<1> QED
  BY <1>3, <1>4, <1>5

\* selector_unregister_fd, whoever owns the entry.
LEMMA UnregisterBasic ==
    ASSUME NEW w, Basic(w), NEW f \in Fd, w.item[f].owner # None
    PROVE  LET v == selector_unregister_fd(w, f)
               d == w.item[f].owner
           IN /\ Basic(v) /\ d \in Conn
              /\ v.sock = w.sock /\ v.metrics = w.metrics /\ v.stopped = w.stopped
              /\ v.item[f] = Unused /\ \A g \in Fd \ {f} : v.item[g] = w.item[g]
              /\ \A e \in Conn \ {d} : v.conn[e] = w.conn[e]
              /\ \/ w.conn[d].refs = 1 /\ v.conn[d] = Blank /\ Owned(w, d) = {f}
                 \/ w.conn[d].refs # 1 /\ SameButRefs(v.conn[d], w.conn[d])
<1> DEFINE d == w.item[f].owner
           u == socks5_destroy(w, d)
           v == [u EXCEPT !.item[f] = Unused]
<1>1. selector_unregister_fd(w, f) = v
  BY DEF selector_unregister_fd, ITEM_USED
<1>2. /\ d \in Conn /\ w.conn[d].live /\ w.conn[d].refs \in Nat \ {0}
      /\ Cardinality(Owned(w, d) \ {f}) <= w.conn[d].refs - 1
      /\ w.conn[d].refs = 1 => Owned(w, d) = {f}
  BY OwnerHasRef
<1>3. w \in WorldType
  BY DEF Basic
<1>4. /\ u \in WorldType
      /\ u.item = w.item /\ u.sock = w.sock
      /\ u.metrics = w.metrics /\ u.stopped = w.stopped
      /\ \A e \in Conn \ {d} : u.conn[e] = w.conn[e]
      /\ \/ /\ w.conn[d].refs = 1 /\ u.conn[d] = Blank
            /\ u.pool = w.pool \/ u.pool = <<d>> \o w.pool
         \/ /\ w.conn[d].refs # 1 /\ u.pool = w.pool
            /\ SameButRefs(u.conn[d], w.conn[d])
            /\ u.conn[d].refs = w.conn[d].refs - 1
  BY <1>2, <1>3, DestroyType
<1> HIDE DEF u
<1>5. Unused \in ItemType
  BY DEF Unused, ItemType
<1>6. v \in WorldType
  BY <1>4, <1>5 DEF WorldType
<1>7. /\ v.conn = u.conn /\ v.pool = u.pool /\ v.sock = w.sock
      /\ v.metrics = w.metrics /\ v.stopped = w.stopped
      /\ v.item[f] = Unused /\ \A g \in Fd \ {f} : v.item[g] = w.item[g]
  BY <1>4 DEF WorldType
<1> HIDE DEF v, d
<1>8. /\ \A e \in Conn \ {d} : Owned(v, e) = Owned(w, e)
      /\ Owned(v, d) = Owned(w, d) \ {f}
  <2>1. None \notin Conn
    BY ConnAssumption DEF None
  <2> QED
    BY <1>2, <1>7, <2>1 DEF Owned, Unused, d
<1>9. \A e \in Conn : v.conn[e].refs >= Cardinality(Owned(v, e))
  <2>1. ASSUME NEW e \in Conn \ {d} PROVE v.conn[e].refs >= Cardinality(Owned(v, e))
    <3>1. v.conn[e] = w.conn[e] /\ Owned(v, e) = Owned(w, e)
      BY <1>4, <1>7, <1>8
    <3>2. w.conn[e].refs >= Cardinality(Owned(w, e))
      BY DEF Basic
    <3> QED
      BY <3>1, <3>2
  <2>2. v.conn[d].refs >= Cardinality(Owned(v, d))
    <3>1. CASE w.conn[d].refs # 1
      <4>1. v.conn[d].refs = w.conn[d].refs - 1 /\ Owned(v, d) = Owned(w, d) \ {f}
        BY <1>4, <1>7, <1>8, <3>1
      <4>2. Cardinality(Owned(v, d)) \in Nat
        BY OwnedFinite
      <4> QED
        BY <1>2, <4>1, <4>2
    <3>2. CASE w.conn[d].refs = 1
      <4>1. Owned(v, d) = {} /\ v.conn[d] = Blank
        BY <1>2, <1>4, <1>7, <1>8, <3>2
      <4>2. Blank.refs = 0 /\ Cardinality({}) = 0
        BY FS_EmptySet DEF Blank
      <4> QED
        BY <4>1, <4>2
    <3> QED
      BY <3>1, <3>2
  <2> QED
    BY <2>1, <2>2
<1>10. \A g \in Fd : v.item[g].owner # None => v.conn[v.item[g].owner].live
  <2> SUFFICES ASSUME NEW g \in Fd, v.item[g].owner # None
               PROVE  v.conn[v.item[g].owner].live
    OBVIOUS
  <2>1. g # f /\ v.item[g] = w.item[g]
    BY <1>7 DEF Unused
  <2>2. w.item[g].owner \in Conn /\ w.conn[w.item[g].owner].live
    BY <1>3, <2>1 DEF Basic, WorldType, ItemType
  <2>3. CASE w.item[g].owner = d
    <3>1. w.conn[d].refs # 1
      BY <1>2, <2>1, <2>3 DEF Owned
    <3> QED
      BY <1>2, <1>4, <1>7, <2>1, <2>2, <2>3, <3>1 DEF SameButRefs, Fields
  <2> QED
    BY <1>4, <1>7, <2>1, <2>2, <2>3
<1>11. /\ \A i, j \in 1..Len(v.pool) : v.pool[i] = v.pool[j] => i = j
       /\ \A i \in 1..Len(v.pool) : ~v.conn[v.pool[i]].live
  <2>1. /\ w.pool \in Seq(Conn) /\ Len(w.pool) \in Nat
        /\ \A i \in 1..Len(w.pool) : w.pool[i] \in Conn /\ w.pool[i] # d
    <3>1. w.pool \in Seq(Conn)
      BY <1>3 DEF WorldType
    <3>2. \A i \in 1..Len(w.pool) : w.pool[i] \in Conn
      BY <3>1, ElementOfSeq
    <3> QED
      BY <1>2, <3>1, <3>2, LenProperties DEF Basic
  <2>2. CASE u.pool = w.pool
    <3>1. v.pool = w.pool
      BY <1>7, <2>2
    <3>2. ASSUME NEW i \in 1..Len(w.pool) PROVE ~v.conn[w.pool[i]].live
      BY <1>4, <1>7, <2>1 DEF Basic
    <3> QED
      BY <3>1, <3>2 DEF Basic
  <2>3. CASE u.pool = <<d>> \o w.pool /\ u.conn[d] = Blank
    <3>1. /\ v.pool = <<d>> \o w.pool /\ Len(v.pool) = Len(w.pool) + 1 /\ v.pool[1] = d
          /\ \A i \in 1..(Len(w.pool) + 1) :
                i = 1 \/ ((i - 1) \in 1..Len(w.pool) /\ v.pool[i] = w.pool[i - 1])
      BY <1>2, <1>7, <2>1, <2>3, Pushed
    <3>2. ASSUME NEW i \in 1..Len(v.pool) PROVE ~v.conn[v.pool[i]].live
      <4>1. CASE i = 1
        BY <1>7, <2>3, <3>1, <4>1 DEF Blank
      <4>2. CASE i # 1
        <5>1. (i - 1) \in 1..Len(w.pool) /\ v.pool[i] = w.pool[i - 1]
          BY <3>1, <4>2
        <5> QED
          BY <1>4, <1>7, <2>1, <5>1 DEF Basic
      <4> QED
        BY <4>1, <4>2
    <3>3. ASSUME NEW i \in 1..Len(v.pool), NEW j \in 1..Len(v.pool), v.pool[i] = v.pool[j]
          PROVE  i = j
      <4>1. i \in 1..(Len(w.pool) + 1) /\ j \in 1..(Len(w.pool) + 1)
        BY <3>1
      <4>2. CASE i = 1 \/ j = 1
        BY <2>1, <3>1, <3>3, <4>1, <4>2
      <4>3. CASE i # 1 /\ j # 1
        <5>1. /\ (i - 1) \in 1..Len(w.pool) /\ (j - 1) \in 1..Len(w.pool)
              /\ w.pool[i - 1] = w.pool[j - 1]
          BY <3>1, <3>3, <4>1, <4>3
        <5>2. i - 1 = j - 1
          BY <5>1 DEF Basic
        <5> QED
          BY <4>1, <5>2
      <4> QED
        BY <4>2, <4>3
    <3> QED
      BY <3>2, <3>3
  <2> QED
    BY <1>4, <2>2, <2>3
<1>12. Basic(v)
  <2>1. \A g \in Fd : v.item[g].owner = None => v.item[g].int = {}
    BY <1>7 DEF Basic, Unused
  <2>2. \A g \in Fd : v.item[g].int # {} => v.sock[g] # "free"
    BY <1>7 DEF Basic, Unused
  <2> QED
    BY <1>6, <1>9, <1>10, <1>11, <2>1, <2>2 DEF Basic
<1>13. \/ w.conn[d].refs = 1 /\ v.conn[d] = Blank /\ Owned(w, d) = {f}
       \/ w.conn[d].refs # 1 /\ SameButRefs(v.conn[d], w.conn[d])
  BY <1>2, <1>4, <1>7
<1>14. \A e \in Conn \ {d} : v.conn[e] = w.conn[e]
  BY <1>4, <1>7
<1>15. v = selector_unregister_fd(w, f)
  BY <1>1
<1> QED
  BY <1>2, <1>7, <1>12, <1>13, <1>14, <1>15 DEF d

\* close() of a descriptor that is not armed.
LEMMA CloseBasic ==
    ASSUME NEW w, Basic(w), NEW f \in Fd, w.item[f].int = {}
    PROVE  LET v == close(w, f)
           IN /\ Basic(v)
              /\ v.conn = w.conn /\ v.item = w.item
              /\ v.metrics = w.metrics /\ v.stopped = w.stopped
              /\ \A g \in Fd \ {f} : v.sock[g] = w.sock[g]
<1> DEFINE v == close(w, f)
<1>1. v = [w EXCEPT !.sock[f] = "free"] /\ w \in WorldType
  BY DEF close, Basic, Fd, None
<1>2. v \in WorldType
  <2>1. [w.sock EXCEPT ![f] = "free"] \in [Fd -> SockType]
    BY <1>1 DEF WorldType, SockType
  <2> QED
    BY <1>1, <2>1 DEF WorldType
<1>3. /\ v.conn = w.conn /\ v.item = w.item /\ v.pool = w.pool
      /\ v.metrics = w.metrics /\ v.stopped = w.stopped
      /\ \A g \in Fd \ {f} : v.sock[g] = w.sock[g]
  BY <1>1 DEF WorldType
<1> HIDE DEF v
<1>4. \A d \in Conn : Owned(v, d) = Owned(w, d)
  BY <1>3 DEF Owned
<1>5. Basic(v)
  BY <1>2, <1>3, <1>4 DEF Basic
<1> QED
  BY <1>3, <1>5 DEF v

\* A connection c loses the entries G of descriptors it uses, whoever owns them.
Removal(w, v, c, G) ==
    /\ \A f \in G : f \in Fd /\ Uses(w, c, f) /\ v.item[f] = Unused
    /\ \A f \in Fd \ G : v.item[f] = w.item[f]
    /\ \A e \in Conn \ {c} :
          \/ v.conn[e] = w.conn[e]
          \/ w.conn[e].refs # 1 /\ SameButRefs(v.conn[e], w.conn[e])
          \/ v.conn[e] = Blank /\ Owned(w, e) \subseteq G

\* The others do not notice.
LEMMA RemovalFrame ==
    ASSUME NEW w, NEW v, NEW c \in Conn, NEW G, Safe(w), Removal(w, v, c, G)
    PROVE  Frame(w, v, c)
<1> SUFFICES ASSUME NEW e \in Conn \ {c}
             PROVE  /\ Alive(v, e) <=> Alive(w, e)
                    /\ v.conn[e].thread => w.conn[e].thread
                    /\ Alive(w, e) => SameButRefs(v.conn[e], w.conn[e])
                    /\ Alive(w, e) /\ w.conn[e].refs = 1 => v.conn[e] = w.conn[e]
                    /\ \A f \in Fd : Uses(w, e, f) => v.item[f] = w.item[f]
  BY DEF Frame
<1>1. None \notin Fd /\ e # None /\ Blank.client = None /\ ~Blank.thread /\ Unused.owner = None
  BY ConnAssumption DEF None, Fd, Blank, Unused
<1>2. \A f \in G : ~Uses(w, e, f)
  BY DEF Removal, Safe, Links
<1>3. \A f \in Fd : Uses(w, e, f) => v.item[f] = w.item[f]
  BY <1>2 DEF Removal
<1>4. CASE v.conn[e] = Blank /\ Owned(w, e) \subseteq G
  <2>1. ~Alive(v, e)
    BY <1>1, <1>4 DEF Alive
  <2>2. ~Alive(w, e)
    <3>1. SUFFICES ASSUME Alive(w, e) PROVE FALSE
      OBVIOUS
    <3>2. w.conn[e].client \in G /\ Uses(w, e, w.conn[e].client)
      BY <1>4, <3>1 DEF Alive, Owned, Uses
    <3> QED
      BY <1>2, <3>2
  <2> QED
    BY <1>1, <1>3, <1>4, <2>1, <2>2
<1>5. CASE v.conn[e] = w.conn[e] \/ (w.conn[e].refs # 1 /\ SameButRefs(v.conn[e], w.conn[e]))
  <2>1. v.conn[e].client = w.conn[e].client /\ v.conn[e].thread = w.conn[e].thread
        /\ SameButRefs(v.conn[e], w.conn[e])
    BY <1>5 DEF SameButRefs, Fields
  <2>2. Alive(w, e) => Alive(v, e)
    BY <1>3, <2>1 DEF Alive, Uses
  <2>3. Alive(v, e) => Alive(w, e)
    BY <1>1, <2>1 DEF Alive, Removal
  <2> QED
    BY <1>3, <1>5, <2>1, <2>2, <2>3
<1> QED
  BY <1>4, <1>5 DEF Removal

\* They use what they used.
LEMMA FrameUses ==
    ASSUME NEW w, NEW v, NEW c \in Conn, Frame(w, v, c), NEW e \in Conn \ {c}, NEW f
    PROVE  Uses(v, e, f) <=> Uses(w, e, f)
<1>1. Alive(v, e) <=> Alive(w, e)
  BY DEF Frame
<1>2. Alive(w, e) => v.conn[e].client = w.conn[e].client /\ v.conn[e].origin = w.conn[e].origin
  BY DEF Frame, SameButRefs, Fields
<1> QED
  BY <1>1, <1>2 DEF Uses

\* socksv5_done: neither the process nor anybody else is left with a
\* descriptor or an entry that is not theirs.
LEMMA DoneSafe ==
    ASSUME NEW w, NEW c \in Conn, Safe(w), Alive(w, c), w.stopped # "abort"
    PROVE  LET v == socksv5_done(w, c)
           IN /\ Safe(v) /\ Frame(w, v, c) /\ ~Alive(v, c)
              /\ v.metrics = w.metrics /\ v.stopped \in {w.stopped, "abort"}
              /\ v.conn[c] = Blank \/ SameButRefs(v.conn[c], w.conn[c])
<1> DEFINE cl == w.conn[c].client
           og == w.conn[c].origin
           u  == selector_unregister_fd(w, cl)
           u1 == close(u, cl)
           u2 == done_fd(u1, og)
<1>1. /\ cl \in Fd /\ w.item[cl].owner = c /\ None \notin Fd /\ None \notin Conn
      /\ w \in WorldType /\ og \in Fd \cup {None} /\ Uses(w, c, cl) /\ cl # og
      /\ og \in Fd => Uses(w, c, og)
  BY ConnAssumption DEF Alive, None, Fd, Safe, Basic, Links, WorldType, ConnType, Uses
<1>2. socksv5_done(w, c) = u2
  BY <1>1 DEF socksv5_done, done_fd, ITEM_USED
<1>3. /\ Basic(u) /\ u.sock = w.sock /\ u.metrics = w.metrics /\ u.stopped = w.stopped
      /\ u.item[cl] = Unused /\ \A g \in Fd \ {cl} : u.item[g] = w.item[g]
      /\ \A e \in Conn \ {c} : u.conn[e] = w.conn[e]
      /\ u.conn[c] = Blank \/ SameButRefs(u.conn[c], w.conn[c])
  BY <1>1, UnregisterBasic DEF Safe
<1> HIDE DEF u
<1>4. /\ Basic(u1) /\ u1.conn = u.conn /\ u1.item = u.item
      /\ u1.metrics = u.metrics /\ u1.stopped = u.stopped
      /\ \A g \in Fd \ {cl} : u1.sock[g] = u.sock[g]
  BY <1>1, <1>3, CloseBasic DEF Unused
<1> HIDE DEF u1, cl, og
<1>5. \A e \in Conn \ {c} : Owned(u1, e) = Owned(w, e)
  BY <1>1, <1>3, <1>4 DEF Owned, Unused
\* What the second descriptor adds.
<1>6. /\ Basic(u2) /\ u2.metrics = w.metrics /\ u2.stopped \in {w.stopped, "abort"}
      /\ \A g \in Fd \ {cl, og} : u2.sock[g] = w.sock[g]
      /\ \E G \in {{cl}, {cl, og}} :
            /\ Removal(w, u2, c, G)
            /\ og \in Fd /\ w.item[og].owner # None => og \in G
      /\ u2.conn[c] = Blank \/ SameButRefs(u2.conn[c], w.conn[c])
  <2>1. CASE og = None
    <3>1. u2 = u1
      BY <2>1 DEF done_fd
    <3>2. Removal(w, u1, c, {cl})
      BY <1>1, <1>3, <1>4 DEF Removal
    <3> QED
      BY <1>1, <1>3, <1>4, <2>1, <3>1, <3>2
  <2>2. CASE og # None /\ u1.item[og].owner = None
    <3>1. u2 = [u1 EXCEPT !.stopped = "abort"]
      BY <1>1, <1>3, <1>4, <2>2 DEF done_fd, ITEM_USED
    <3>2. /\ u2.conn = u1.conn /\ u2.item = u1.item /\ u2.sock = u1.sock /\ u2.pool = u1.pool
          /\ u2.metrics = u1.metrics /\ u2.stopped = "abort" /\ u2 \in WorldType
      BY <1>4, <3>1 DEF Basic, WorldType
    <3> HIDE DEF u2
    <3>3. Basic(u2)
      BY <1>4, <3>2 DEF Basic, Owned
    <3>4. Removal(w, u2, c, {cl})
      BY <1>1, <1>3, <1>4, <3>2 DEF Removal
    <3>5. w.item[og].owner = None
      BY <1>1, <1>3, <1>4, <2>2
    <3> QED
      BY <1>1, <1>3, <1>4, <3>2, <3>3, <3>4, <3>5
  <2>3. CASE og # None /\ u1.item[og].owner # None
    <3> DEFINE y == selector_unregister_fd(u1, og)
               d == u1.item[og].owner
    <3>1. og \in Fd /\ u2 = close(y, og)
      BY <1>1, <1>3, <1>4, <2>3 DEF done_fd, ITEM_USED
    <3>2. /\ Basic(y) /\ y.sock = u1.sock /\ y.metrics = u1.metrics /\ y.stopped = u1.stopped
          /\ y.item[og] = Unused /\ \A g \in Fd \ {og} : y.item[g] = u1.item[g]
          /\ \A e \in Conn \ {d} : y.conn[e] = u1.conn[e]
          /\ \/ u1.conn[d].refs = 1 /\ y.conn[d] = Blank /\ Owned(u1, d) = {og}
             \/ u1.conn[d].refs # 1 /\ SameButRefs(y.conn[d], u1.conn[d])
      <4>1. Basic(u1) /\ og \in Fd /\ u1.item[og].owner # None
        BY <1>4, <2>3, <3>1
      <4> HIDE DEF u1, u2, og
      <4> QED
        BY ONLY <4>1, UnregisterBasic DEF y, d
    <3> HIDE DEF y, d, u2
    <3>3. /\ Basic(u2) /\ u2.conn = y.conn /\ u2.item = y.item
          /\ u2.metrics = y.metrics /\ u2.stopped = y.stopped
          /\ \A g \in Fd \ {og} : u2.sock[g] = y.sock[g]
      BY <3>1, <3>2, CloseBasic DEF Unused
    <3>4. \A e \in Conn \ {c} :
            \/ u2.conn[e] = w.conn[e]
            \/ w.conn[e].refs # 1 /\ SameButRefs(u2.conn[e], w.conn[e])
            \/ u2.conn[e] = Blank /\ Owned(w, e) \subseteq {cl, og}
      BY <1>3, <1>4, <1>5, <3>2, <3>3
    <3>5. Removal(w, u2, c, {cl, og})
      BY <1>1, <1>3, <1>4, <3>1, <3>2, <3>3, <3>4 DEF Removal
    <3>6. u2.conn[c] = Blank \/ SameButRefs(u2.conn[c], w.conn[c])
      <4>1. CASE u1.conn[c] = Blank
        <5>1. d # c
          <6>1. u1.conn[d].live
            BY <1>4, <2>3, <3>1 DEF Basic, d
          <6> QED
            BY <4>1, <6>1 DEF Blank
        <5> QED
          BY <1>3, <1>4, <3>2, <3>3, <4>1, <5>1
      <4>2. CASE SameButRefs(u1.conn[c], w.conn[c])
        BY <3>2, <3>3, <4>2 DEF SameButRefs
      <4> QED
        BY <1>3, <1>4, <4>1, <4>2
    <3> QED
      BY <1>1, <1>3, <1>4, <3>1, <3>2, <3>3, <3>5, <3>6
  <2> QED
    BY <2>1, <2>2, <2>3
<1> HIDE DEF u2
<1>7. PICK G \in {{cl}, {cl, og}} :
         /\ Removal(w, u2, c, G)
         /\ og \in Fd /\ w.item[og].owner # None => og \in G
  BY <1>6
<1>8. Frame(w, u2, c)
  BY <1>7, RemovalFrame
<1>9. ~Alive(u2, c)
  <2>1. u2.conn[c].client = None \/ u2.conn[c].client = cl
    BY <1>6 DEF Blank, SameButRefs, Fields, cl
  <2>2. u2.item[cl].owner = None
    BY <1>7 DEF Removal, Unused
  <2> QED
    BY <1>1, <2>1, <2>2 DEF Alive
<1>10. ASSUME NEW e \in Conn, NEW f, Uses(u2, e, f) PROVE e # c /\ Uses(w, e, f)
  BY <1>8, <1>9, <1>10, FrameUses DEF Uses
<1>11. Links(u2)
  <2>1. ASSUME NEW f \in Fd, u2.item[f].int # {} PROVE Uses(u2, u2.item[f].owner, f)
    <3>1. f \notin G /\ u2.item[f] = w.item[f]
      BY <1>7, <2>1 DEF Removal, Unused
    <3>2. /\ w.item[f].owner \in Conn /\ Uses(w, w.item[f].owner, f)
      BY <1>1, <2>1, <3>1 DEF Safe, Basic, Links, WorldType, ItemType
    <3>3. w.item[f].owner # c
      BY <1>1, <1>7, <3>1, <3>2 DEF Uses, cl, og
    <3> QED
      BY <1>8, <3>1, <3>2, <3>3, FrameUses
  <2>2. ASSUME NEW e \in Conn, NEW f \in Fd, Uses(u2, e, f) PROVE u2.sock[f] # "free"
    <3>1. e # c /\ Uses(w, e, f)
      BY <1>10, <2>2
    <3>2. f \notin {cl, og} /\ w.sock[f] # "free"
      BY <1>1, <3>1 DEF Safe, Links
    <3> QED
      BY <1>6, <3>2
  <2>3. ASSUME NEW e \in Conn, Alive(u2, e) PROVE u2.conn[e].client # u2.conn[e].origin
    <3>1. e # c /\ Alive(w, e) /\ SameButRefs(u2.conn[e], w.conn[e])
      BY <1>8, <1>9, <2>3 DEF Frame
    <3> QED
      BY <3>1 DEF SameButRefs, Fields, Safe, Links
  <2>4. ASSUME NEW e \in Conn, NEW d \in Conn, NEW f \in Fd, Uses(u2, e, f), Uses(u2, d, f)
        PROVE  e = d
    BY <1>10, <2>4 DEF Safe, Links
  <2> QED
    BY <2>1, <2>2, <2>3, <2>4 DEF Links
<1> QED
  BY <1>2, <1>6, <1>8, <1>9, <1>11 DEF Safe

\* selector_unregister_fd of the origin.
LEMMA UnregisterOrigin ==
    ASSUME NEW w, NEW c \in Conn, Safe(w), Alive(w, c)
    PROVE  LET f == w.conn[c].origin
               v == selector_unregister_fd(w, f)
           IN /\ Safe(v) /\ Frame(w, v, c) /\ Alive(v, c)
              /\ v.metrics = w.metrics /\ v.stopped = w.stopped
              /\ SameButRefs(v.conn[c], w.conn[c])
              /\ f \in Fd => v.item[f].int = {}
<1> DEFINE f == w.conn[c].origin
           v == selector_unregister_fd(w, f)
           cl == w.conn[c].client
<1>1. /\ cl \in Fd /\ w.item[cl].owner = c /\ cl # f /\ w \in WorldType
      /\ f \in Fd => Uses(w, c, f)
  BY DEF Alive, Safe, Basic, Links, Uses
<1>2. CASE ~ITEM_USED(w, f)
  <2>1. v = w
    BY <1>2 DEF selector_unregister_fd
  <2>2. f \in Fd => w.item[f].int = {}
    BY <1>2 DEF ITEM_USED, Safe, Basic
  <2> QED
    BY <1>1, <2>1, <2>2, FrameNone DEF SameButRefs
<1>3. CASE ITEM_USED(w, f)
  <2> DEFINE d == w.item[f].owner
  <2>1. f \in Fd /\ d # None
    BY <1>3 DEF ITEM_USED
  <2>2. /\ Basic(v) /\ d \in Conn
        /\ v.sock = w.sock /\ v.metrics = w.metrics /\ v.stopped = w.stopped
        /\ v.item[f] = Unused /\ \A g \in Fd \ {f} : v.item[g] = w.item[g]
        /\ \A e \in Conn \ {d} : v.conn[e] = w.conn[e]
        /\ \/ w.conn[d].refs = 1 /\ v.conn[d] = Blank /\ Owned(w, d) = {f}
           \/ w.conn[d].refs # 1 /\ SameButRefs(v.conn[d], w.conn[d])
    BY <2>1, UnregisterBasic DEF Safe
  <2> HIDE DEF v
  <2>3. SameButRefs(v.conn[c], w.conn[c])
    <3>1. CASE d = c
      <4>1. cl \in Owned(w, c) /\ cl \notin {f}
        BY <1>1 DEF Owned
      <4> QED
        BY <2>2, <3>1, <4>1
    <3>2. CASE d # c
      BY <2>2, <3>2 DEF SameButRefs
    <3> QED
      BY <3>1, <3>2
  <2>4. Removal(w, v, c, {f})
    BY <1>1, <2>1, <2>2 DEF Removal
  <2>5. Frame(w, v, c)
    BY <2>4, RemovalFrame
  <2> HIDE DEF f, d, cl
  <2>6. v.conn[c].client = cl /\ v.conn[c].origin = f /\ v.item[cl] = w.item[cl]
    BY <1>1, <2>2, <2>3 DEF SameButRefs, Fields, cl, f
  <2>7. Alive(v, c)
    BY <1>1, <2>6 DEF Alive
  <2>8. ASSUME NEW e \in Conn, NEW g PROVE Uses(v, e, g) <=> Uses(w, e, g)
    <3>1. CASE e = c
      BY <1>1, <2>6, <2>7, <3>1 DEF Uses, Alive, cl, f
    <3>2. CASE e # c
      BY <2>5, <3>2, FrameUses
    <3> QED
      BY <3>1, <3>2
  <2>9. Links(v)
    <3>1. ASSUME NEW g \in Fd, v.item[g].int # {} PROVE Uses(v, v.item[g].owner, g)
      <4>1. v.item[g] = w.item[g] /\ g # f
        BY <2>2, <3>1 DEF Unused
      <4>2. w.item[g].owner \in Conn /\ Uses(w, w.item[g].owner, g)
        BY <1>1, <3>1, <4>1 DEF Safe, Basic, Links, WorldType, ItemType
      <4> QED
        BY <2>8, <4>1, <4>2
    <3>2. \A e \in Conn, g \in Fd : Uses(v, e, g) => v.sock[g] # "free"
      BY <2>2, <2>8 DEF Safe, Links
    <3>3. ASSUME NEW e \in Conn, Alive(v, e) PROVE v.conn[e].client # v.conn[e].origin
      <4>1. Alive(w, e) /\ SameButRefs(v.conn[e], w.conn[e])
        BY <1>1, <2>3, <2>5, <3>3 DEF Frame, Alive, cl
      <4> QED
        BY <4>1 DEF SameButRefs, Fields, Safe, Links
    <3>4. \A e, d2 \in Conn, g \in Fd : Uses(v, e, g) /\ Uses(v, d2, g) => e = d2
      BY <2>8 DEF Safe, Links
    <3> QED
      BY <3>1, <3>2, <3>3, <3>4 DEF Links
  <2> QED
    BY <2>2, <2>3, <2>5, <2>7, <2>9 DEF Safe, Unused, f, v
<1> QED
  BY <1>2, <1>3

\* The origin, not armed, is closed and forgotten.
LEMMA CloseOrigin ==
    ASSUME NEW w, NEW c \in Conn, Safe(w), Alive(w, c),
           w.conn[c].origin \in Fd => w.item[w.conn[c].origin].int = {}
    PROVE  LET v == [close(w, w.conn[c].origin) EXCEPT !.conn[c].origin = None]
           IN /\ Safe(v) /\ Frame(w, v, c) /\ Alive(v, c)
              /\ v.item = w.item /\ v.metrics = w.metrics /\ v.stopped = w.stopped
              /\ v.conn[c] = [w.conn[c] EXCEPT !.origin = None]
              /\ v.conn[c].origin = None
<1> DEFINE f == w.conn[c].origin
           u == close(w, f)
           v == [u EXCEPT !.conn[c].origin = None]
<1>1. /\ w \in WorldType /\ w.conn[c] \in ConnType /\ f \in Fd \cup {None} /\ None \notin Fd
      /\ f \in Fd => Uses(w, c, f)
  BY DEF Safe, Basic, WorldType, ConnType, None, Fd, Uses
<1>2. /\ Basic(u) /\ u.conn = w.conn /\ u.item = w.item
      /\ u.metrics = w.metrics /\ u.stopped = w.stopped
      /\ \A g \in Fd \ {f} : u.sock[g] = w.sock[g]
  <2>1. CASE f = None
    BY <2>1 DEF close, Safe
  <2>2. CASE f \in Fd
    BY <2>2, CloseBasic DEF Safe
  <2> QED
    BY <1>1, <2>1, <2>2
<1> HIDE DEF u, f
<1>3. [w.conn[c] EXCEPT !.origin = None] \in ConnType
  BY <1>1 DEF ConnType
<1>4. /\ v.item = w.item /\ v.pool = u.pool /\ v.sock = u.sock
      /\ v.metrics = w.metrics /\ v.stopped = w.stopped
      /\ v.conn = [w.conn EXCEPT ![c] = [w.conn[c] EXCEPT !.origin = None]]
  BY <1>2 DEF Basic, WorldType
<1>5. v \in WorldType
  <2>1. w.conn \in [Conn -> ConnType]
    BY <1>1 DEF WorldType
  <2>2. [w.conn EXCEPT ![c] = [w.conn[c] EXCEPT !.origin = None]] \in [Conn -> ConnType]
    BY <1>3, <2>1
  <2> QED
    BY <1>2, <1>4, <2>2 DEF Basic, WorldType
<1> HIDE DEF v
<1>12. w.conn \in [Conn -> ConnType]
  BY <1>1 DEF WorldType
<1>13. /\ \A e \in Conn \ {c} : v.conn[e] = w.conn[e]
       /\ v.conn[c] = [w.conn[c] EXCEPT !.origin = None]
  BY <1>4, <1>12
<1>6. /\ \A e \in Conn \ {c} : v.conn[e] = w.conn[e]
      /\ v.conn[c] = [w.conn[c] EXCEPT !.origin = None]
      /\ v.conn[c].origin = None /\ v.conn[c].client = w.conn[c].client
      /\ v.conn[c].live = w.conn[c].live /\ v.conn[c].refs = w.conn[c].refs
  BY <1>1, <1>13 DEF ConnType
<1>7. Basic(v)
  <2>1. \A e \in Conn : v.conn[e].live = w.conn[e].live /\ v.conn[e].refs = w.conn[e].refs
    BY <1>6
  <2>2. \A e \in Conn : Owned(v, e) = Owned(u, e)
    BY <1>2, <1>4 DEF Owned
  <2>3. \A g \in Fd : v.item[g].owner # None => v.conn[v.item[g].owner].live
    BY <1>1, <1>4, <2>1 DEF Safe, Basic, WorldType, ItemType
  <2>4. \A i \in 1..Len(v.pool) : ~v.conn[v.pool[i]].live
    <3>1. \A i \in 1..Len(u.pool) : u.pool[i] \in Conn
      BY <1>2, ElementOfSeq DEF Basic, WorldType
    <3> QED
      BY <1>2, <1>4, <2>1, <3>1 DEF Basic
  <2> QED
    BY <1>2, <1>4, <1>5, <2>1, <2>2, <2>3, <2>4 DEF Basic
<1>8. \A e \in Conn : Alive(v, e) <=> Alive(w, e)
  BY <1>4, <1>6 DEF Alive
<1>9. /\ \A e \in Conn \ {c}, g \in Fd : Uses(v, e, g) <=> Uses(w, e, g)
      /\ \A g \in Fd : Uses(v, c, g) <=> Uses(w, c, g) /\ g # f
  BY <1>1, <1>6, <1>8 DEF Uses, f, Safe, Links
<1>10. Links(v)
  <2>1. ASSUME NEW g \in Fd, v.item[g].int # {} PROVE Uses(v, v.item[g].owner, g)
    <3>1. v.item[g] = w.item[g] /\ g # f
      BY <1>4, <2>1 DEF f
    <3>2. w.item[g].owner \in Conn /\ Uses(w, w.item[g].owner, g)
      BY <1>1, <2>1, <3>1 DEF Safe, Basic, Links, WorldType, ItemType
    <3> QED
      BY <1>9, <3>1, <3>2
  <2>2. ASSUME NEW e \in Conn, NEW g \in Fd, Uses(v, e, g) PROVE v.sock[g] # "free"
    <3>1. Uses(w, e, g) /\ g # f
      BY <1>1, <1>9, <2>2 DEF Safe, Links
    <3> QED
      BY <1>2, <1>4, <3>1 DEF Safe, Links
  <2>3. ASSUME NEW e \in Conn, Alive(v, e) PROVE v.conn[e].client # v.conn[e].origin
    BY <1>1, <1>6, <1>8, <2>3 DEF Safe, Links, Alive
  <2>4. \A e, d \in Conn, g \in Fd : Uses(v, e, g) /\ Uses(v, d, g) => e = d
    BY <1>9 DEF Safe, Links
  <2> QED
    BY <2>1, <2>2, <2>3, <2>4 DEF Links
<1>11. Frame(w, v, c)
  BY <1>4, <1>6, <1>8 DEF Frame, SameButRefs
<1> QED
  BY <1>4, <1>6, <1>7, <1>8, <1>10, <1>11 DEF Safe, v, u, f

\* A socket for the origin, which nobody has a use for yet.
LEMMA OpenOrigin ==
    ASSUME NEW w, NEW c \in Conn, Safe(w), Alive(w, c), w.conn[c].origin = None,
           NEW f \in FreeFds(w), NEW v \in WorldType,
           v.item = w.item, v.pool = w.pool, v.metrics = w.metrics, v.stopped = w.stopped,
           v.sock = [w.sock EXCEPT ![f] = "new"],
           v.conn = [w.conn EXCEPT ![c] = [w.conn[c] EXCEPT !.origin = f, !.status = "ok"]]
    PROVE  /\ Safe(v) /\ Frame(w, v, c) /\ Alive(v, c)
           /\ v.conn[c] = [w.conn[c] EXCEPT !.origin = f, !.status = "ok"]
<1> DEFINE r == [w.conn[c] EXCEPT !.origin = f, !.status = "ok"]
<1>1. /\ w \in WorldType /\ w.conn[c] \in ConnType /\ None \notin Fd
      /\ f \in Fd /\ w.sock[f] = "free" /\ w.item[f].int = {}
  BY DEF Safe, Basic, WorldType, None, Fd, FreeFds
<1>2. r \in ConnType
  BY <1>1 DEF ConnType
<1>3. /\ v.item = w.item /\ v.pool = w.pool /\ v.sock = [w.sock EXCEPT ![f] = "new"]
      /\ v.metrics = w.metrics /\ v.stopped = w.stopped
      /\ v.conn = [w.conn EXCEPT ![c] = r]
  OBVIOUS
<1>4. v \in WorldType
  OBVIOUS
<1>12. w.conn \in [Conn -> ConnType] /\ w.sock \in [Fd -> SockType]
  BY <1>1 DEF WorldType
<1>13. /\ \A e \in Conn \ {c} : v.conn[e] = w.conn[e]
       /\ v.conn[c] = r
       /\ \A g \in Fd : v.sock[g] = IF g = f THEN "new" ELSE w.sock[g]
  BY <1>3, <1>12
<1>5. /\ \A e \in Conn \ {c} : v.conn[e] = w.conn[e]
      /\ v.conn[c] = r
      /\ v.conn[c].origin = f /\ v.conn[c].client = w.conn[c].client
      /\ v.conn[c].live = w.conn[c].live /\ v.conn[c].refs = w.conn[c].refs
      /\ \A g \in Fd : v.sock[g] = IF g = f THEN "new" ELSE w.sock[g]
  BY <1>1, <1>13 DEF ConnType
<1>6. Basic(v)
  <2>1. \A e \in Conn : v.conn[e].live = w.conn[e].live /\ v.conn[e].refs = w.conn[e].refs
    BY <1>5
  <2>2. \A e \in Conn : Owned(v, e) = Owned(w, e)
    BY <1>3 DEF Owned
  <2>3. \A g \in Fd : v.item[g].owner # None => v.conn[v.item[g].owner].live
    BY <1>1, <1>3, <2>1 DEF Safe, Basic, WorldType, ItemType
  <2>4. \A i \in 1..Len(v.pool) : ~v.conn[v.pool[i]].live
    <3>1. \A i \in 1..Len(w.pool) : w.pool[i] \in Conn
      BY <1>1, ElementOfSeq DEF WorldType
    <3> QED
      BY <1>3, <2>1, <3>1 DEF Safe, Basic
  <2> QED
    BY <1>3, <1>4, <1>5, <2>1, <2>2, <2>3, <2>4 DEF Safe, Basic
<1>7. \A e \in Conn : Alive(v, e) <=> Alive(w, e)
  BY <1>3, <1>5 DEF Alive
<1>8. \A e \in Conn : ~Uses(w, e, f)
  BY <1>1 DEF Safe, Links
<1>9. /\ \A e \in Conn \ {c}, g \in Fd : Uses(v, e, g) <=> Uses(w, e, g)
      /\ \A g \in Fd : Uses(v, c, g) <=> (Uses(w, c, g) \/ g = f)
  BY <1>1, <1>5, <1>7 DEF Uses
<1>10. Links(v)
  <2>1. ASSUME NEW g \in Fd, v.item[g].int # {} PROVE Uses(v, v.item[g].owner, g)
    <3>1. w.item[g].owner \in Conn /\ Uses(w, w.item[g].owner, g)
      BY <1>1, <1>3, <2>1 DEF Safe, Basic, Links, WorldType, ItemType
    <3> QED
      BY <1>3, <1>9, <3>1
  <2>2. \A e \in Conn, g \in Fd : Uses(v, e, g) => v.sock[g] # "free"
    BY <1>5, <1>9 DEF Safe, Links
  <2>3. ASSUME NEW e \in Conn, Alive(v, e) PROVE v.conn[e].client # v.conn[e].origin
    <3>1. Alive(w, e)
      BY <1>7, <2>3
    <3>2. CASE e = c
      <4>1. w.conn[c].client # f
        BY <1>8, <3>1, <3>2 DEF Uses
      <4> QED
        BY <1>5, <3>2, <4>1
    <3>3. CASE e # c
      BY <1>5, <3>1, <3>3 DEF Safe, Links
    <3> QED
      BY <3>2, <3>3
  <2>4. \A e, d \in Conn, g \in Fd : Uses(v, e, g) /\ Uses(v, d, g) => e = d
    BY <1>8, <1>9 DEF Safe, Links
  <2> QED
    BY <2>1, <2>2, <2>3, <2>4 DEF Links
<1>11. Frame(w, v, c)
  BY <1>3, <1>5, <1>7 DEF Frame, SameButRefs
<1> QED
  BY <1>3, <1>5, <1>6, <1>7, <1>10, <1>11 DEF Safe

\* selector_register for the origin's descriptor, whose entry is free, with a
\* reference that no entry has yet.
LEMMA RegisterSafe ==
    ASSUME NEW w, NEW c \in Conn, Safe(w), Alive(w, c), w.conn[c].origin \in Fd,
           w.item[w.conn[c].origin].owner = None, NEW i \in SUBSET {R, W},
           w.conn[c].refs > Cardinality(Owned(w, c))
    PROVE  LET f == w.conn[c].origin
               v == selector_register(w, f, c, i)
           IN /\ Safe(v) /\ Frame(w, v, c) /\ Alive(v, c)
              /\ v.conn = w.conn /\ v.metrics = w.metrics /\ v.stopped = w.stopped
              /\ v.item[f].owner = c
<1> DEFINE f == w.conn[c].origin
           n == [owner |-> c, int |-> i]
           v == selector_register(w, f, c, i)
<1>1. /\ w \in WorldType /\ f \in Fd /\ None \notin Conn /\ w.item \in [Fd -> ItemType]
      /\ w.item[f].owner = None /\ Uses(w, c, f) /\ w.sock[f] # "free"
  BY ConnAssumption DEF Safe, Basic, Links, WorldType, None, Uses
<1>2. n \in ItemType /\ n.owner = c
  BY DEF ItemType
<1>3. v = [w EXCEPT !.item[f] = n]
  BY DEF selector_register
<1> HIDE DEF f, n
<1>4. [w.item EXCEPT ![f] = n] \in [Fd -> ItemType]
  BY <1>1, <1>2
<1>5. v \in WorldType
  BY <1>1, <1>3, <1>4 DEF WorldType
<1>6. /\ v.conn = w.conn /\ v.sock = w.sock /\ v.pool = w.pool
      /\ v.metrics = w.metrics /\ v.stopped = w.stopped
      /\ v.item = [w.item EXCEPT ![f] = n]
  BY <1>1, <1>3 DEF WorldType
<1>7. v.item[f] = n /\ \A g \in Fd \ {f} : v.item[g] = w.item[g]
  BY <1>1, <1>6
<1> HIDE DEF v
<1>8. \A e \in Conn : Alive(v, e) <=> Alive(w, e)
  <2> SUFFICES ASSUME NEW e \in Conn PROVE Alive(v, e) <=> Alive(w, e)
    OBVIOUS
  <2>1. CASE w.conn[e].client = f
    <3>1. ~Alive(w, e)
      BY <1>1, <2>1 DEF Alive
    <3>2. e # c
      BY <2>1, <3>1 DEF f
    <3> QED
      BY <1>2, <1>6, <1>7, <2>1, <3>1, <3>2 DEF Alive
  <2>2. CASE w.conn[e].client # f
    BY <1>6, <1>7, <2>2 DEF Alive
  <2> QED
    BY <2>1, <2>2
<1>9. \A e \in Conn : \A g : Uses(v, e, g) <=> Uses(w, e, g)
  BY <1>6, <1>8 DEF Uses
<1>10. \A e \in Conn : v.conn[e].refs >= Cardinality(Owned(v, e))
  <2> SUFFICES ASSUME NEW e \in Conn PROVE v.conn[e].refs >= Cardinality(Owned(v, e))
    OBVIOUS
  <2>1. IsFiniteSet(Owned(w, e)) /\ Cardinality(Owned(w, e)) \in Nat /\ w.conn[e].refs \in Nat
    BY <1>1, OwnedFinite DEF WorldType, ConnType
  <2>2. CASE e = c
    <3>1. Owned(v, c) = Owned(w, c) \cup {f} /\ f \notin Owned(w, c)
      BY <1>1, <1>2, <1>7 DEF Owned
    <3>2. Cardinality(Owned(v, c)) = Cardinality(Owned(w, c)) + 1
      BY <2>1, <2>2, <3>1, FS_AddElement
    <3> QED
      BY <1>6, <2>1, <2>2, <3>2
  <2>3. CASE e # c
    <3>1. Owned(v, e) = Owned(w, e)
      BY <1>1, <1>2, <1>7, <2>3 DEF Owned
    <3> QED
      BY <1>6, <3>1 DEF Safe, Basic
  <2> QED
    BY <2>2, <2>3
<1>11. w.conn[c].live
  BY <1>1 DEF Safe, Basic, Alive
<1>12. Basic(v)
  <2>1. \A g \in Fd : v.item[g].owner # None => v.conn[v.item[g].owner].live
    BY <1>2, <1>6, <1>7, <1>11 DEF Safe, Basic
  <2>2. \A g \in Fd : v.item[g].owner = None => v.item[g].int = {}
    BY <1>1, <1>2, <1>7 DEF Safe, Basic
  <2>3. \A g \in Fd : v.item[g].int # {} => v.sock[g] # "free"
    BY <1>1, <1>6, <1>7 DEF Safe, Basic
  <2> QED
    BY <1>5, <1>6, <1>10, <2>1, <2>2, <2>3 DEF Safe, Basic
<1>13. Links(v)
  <2>1. \A g \in Fd : v.item[g].int # {} => Uses(v, v.item[g].owner, g)
    <3> SUFFICES ASSUME NEW g \in Fd, v.item[g].int # {} PROVE Uses(v, v.item[g].owner, g)
      OBVIOUS
    <3>1. CASE g = f
      BY <1>1, <1>2, <1>7, <1>9, <3>1
    <3>2. CASE g # f
      <4>1. w.item[g].int # {} /\ w.item[g].owner \in Conn
        BY <1>1, <1>7, <3>2 DEF Safe, Basic, ItemType
      <4> QED
        BY <1>7, <1>9, <3>2, <4>1 DEF Safe, Links
    <3> QED
      BY <3>1, <3>2
  <2> QED
    BY <1>6, <1>8, <1>9, <2>1 DEF Safe, Links
<1>14. Frame(w, v, c)
  <2>1. \A e \in Conn \ {c} : ~Uses(w, e, f)
    BY <1>1 DEF Safe, Links
  <2> QED
    BY <1>6, <1>7, <1>8, <2>1 DEF Frame, SameButRefs
<1> QED
  BY <1>2, <1>6, <1>7, <1>8, <1>12, <1>13, <1>14 DEF Safe, v, f

\* From w to v on behalf of c, which goes on with its client and its login.
On(w, v, c) ==
    /\ Safe(v) /\ Frame(w, v, c) /\ Alive(v, c)
    /\ v.conn[c].st = w.conn[c].st /\ v.conn[c].client = w.conn[c].client
    /\ v.conn[c].method = w.conn[c].method /\ v.conn[c].auth = w.conn[c].auth
    /\ v.conn[c].thread = w.conn[c].thread /\ v.conn[c].replies >= w.conn[c].replies

\* A chain of calls.
LEMMA OnTrans ==
    ASSUME NEW w, NEW u, NEW v, NEW c \in Conn, Safe(w), On(w, u, c), On(u, v, c)
    PROVE  On(w, v, c)
<1>1. w \in WorldType /\ u \in WorldType /\ v \in WorldType
  BY DEF On, Safe, Basic
<1>2. Frame(w, v, c)
  BY <1>1, FrameTrans DEF On
<1>3. /\ w.conn[c].replies \in Nat /\ u.conn[c].replies \in Nat /\ v.conn[c].replies \in Nat
  BY <1>1 DEF WorldType, ConnType
<1> QED
  BY <1>2, <1>3 DEF On

\* A field of c that nothing else depends on is set: the stage, the status,
\* the number of addresses left.
LEMMA SetSafe ==
    ASSUME NEW w, NEW c \in Conn, Safe(w), Alive(w, c), NEW r \in ConnType,
           r.live = w.conn[c].live, r.client = w.conn[c].client,
           r.origin = w.conn[c].origin, r.refs >= w.conn[c].refs
    PROVE  LET v == [w EXCEPT !.conn[c] = r]
           IN /\ Safe(v) /\ Frame(w, v, c) /\ Alive(v, c)
              /\ v.conn[c] = r /\ v.item = w.item /\ v.sock = w.sock
              /\ v.metrics = w.metrics /\ v.stopped = w.stopped
              /\ \A d \in Conn, f \in Fd : Uses(v, d, f) <=> Uses(w, d, f)
<1> DEFINE v == [w EXCEPT !.conn[c] = r]
<1>1. w \in WorldType /\ w.conn \in [Conn -> ConnType]
  BY DEF Safe, Basic, WorldType
<1>2. [w.conn EXCEPT ![c] = r] \in [Conn -> ConnType]
  BY <1>1
<1>3. v \in WorldType
  BY <1>1, <1>2 DEF WorldType
<1>4. /\ v.item = w.item /\ v.sock = w.sock /\ v.pool = w.pool
      /\ v.metrics = w.metrics /\ v.stopped = w.stopped
      /\ v.conn = [w.conn EXCEPT ![c] = r]
  BY <1>1 DEF WorldType
<1> HIDE DEF v
<1>5. v.conn[c] = r /\ \A d \in Conn \ {c} : v.conn[d] = w.conn[d]
  BY <1>1, <1>4
<1>6. Touched(w, v, c)
  BY <1>3, <1>4, <1>5 DEF Touched
<1>7. /\ Safe(v) /\ Frame(w, v, c) /\ Alive(v, c)
      /\ \A d \in Conn, f \in Fd : Uses(v, d, f) <=> Uses(w, d, f)
  BY <1>6, TouchSafe
<1> QED
  BY <1>4, <1>5, <1>7 DEF v

\* A reply is marshalled.
LEMMA ReplySafe ==
    ASSUME NEW w, NEW c \in Conn, Safe(w), Alive(w, c)
    PROVE  LET v == [w EXCEPT !.conn[c].replies = @ + 1]
           IN /\ On(w, v, c)
              /\ v.conn[c] = [w.conn[c] EXCEPT !.replies = @ + 1]
              /\ v.conn[c].replies > 0
              /\ v.item = w.item /\ v.sock = w.sock
              /\ v.metrics = w.metrics /\ v.stopped = w.stopped
<1> DEFINE r == [w.conn[c] EXCEPT !.replies = @ + 1]
           v == [w EXCEPT !.conn[c] = r]
<1>1. /\ w \in WorldType /\ w.conn[c] \in ConnType
      /\ w.conn[c].replies \in Nat /\ w.conn[c].refs \in Nat
  BY DEF Safe, Basic, WorldType, ConnType
<1>2. r \in ConnType /\ r.replies > 0 /\ r.replies >= w.conn[c].replies
  BY <1>1 DEF ConnType
<1>3. /\ r.st = w.conn[c].st /\ r.client = w.conn[c].client /\ r.origin = w.conn[c].origin
      /\ r.method = w.conn[c].method /\ r.auth = w.conn[c].auth /\ r.live = w.conn[c].live
      /\ r.thread = w.conn[c].thread /\ r.refs = w.conn[c].refs
  BY <1>1 DEF ConnType
<1>4. v = [w EXCEPT !.conn[c].replies = @ + 1]
  BY <1>1 DEF WorldType
<1> HIDE DEF r
<1>5. /\ Safe(v) /\ Frame(w, v, c) /\ Alive(v, c)
      /\ v.conn[c] = r /\ v.item = w.item /\ v.sock = w.sock
      /\ v.metrics = w.metrics /\ v.stopped = w.stopped
  BY <1>1, <1>2, <1>3, SetSafe
<1> HIDE DEF v
<1>6. On(w, v, c)
  BY <1>2, <1>3, <1>5 DEF On
<1> QED
  BY <1>2, <1>4, <1>5, <1>6 DEF r

\* selector_set_interest, as a step of c.
LEMMA InterestOn ==
    ASSUME NEW w, NEW c \in Conn, Safe(w), Alive(w, c), NEW f, f \in Fd => Uses(w, c, f),
           NEW i \in SUBSET {R, W}, ITEM_USED(w, f) /\ i # {} => w.item[f].owner = c
    PROVE  LET v == selector_set_interest(w, f, i)
           IN /\ On(w, v, c) /\ v.conn = w.conn /\ v.sock = w.sock
              /\ v.metrics = w.metrics /\ v.stopped = w.stopped
              /\ \A g \in Fd : v.item[g].owner = w.item[g].owner
              /\ f \in Fd /\ i = {} => v.item[f].int = {}
<1>1. w.conn[c].replies \in Nat
  BY DEF Safe, Basic, WorldType, ConnType
<1> QED
  BY <1>1, InterestSafe DEF On, Safe, Basic

\* error_handler, error_handler_to_client: a reply is queued and the client is
\* armed for it.
LEMMA ErrorHandlers ==
    ASSUME NEW w, NEW c \in Conn, Safe(w), Alive(w, c),
           NEW v \in {error_handler(w, c), error_handler_to_client(w, c)}
    PROVE  /\ On(w, v, c)
           /\ v.conn[c].origin = w.conn[c].origin /\ v.conn[c].status = w.conn[c].status
           /\ v.conn[c].refs = w.conn[c].refs /\ v.conn[c].replies > 0
           /\ v.metrics = w.metrics /\ v.stopped = w.stopped
           /\ \A g \in Fd : v.item[g].owner = w.item[g].owner
           /\ v = error_handler_to_client(w, c) /\ w.conn[c].origin \in Fd
              => v.item[w.conn[c].origin].int = {}
<1> DEFINE u == [w EXCEPT !.conn[c].replies = @ + 1]
           t == selector_set_interest(u, w.conn[c].client, {W})
           x == selector_set_interest(t, w.conn[c].origin, {})
<1>1. error_handler(w, c) = t /\ error_handler_to_client(w, c) = x
  BY DEF error_handler, error_handler_to_client
<1>2. /\ On(w, u, c)
      /\ u.conn[c] = [w.conn[c] EXCEPT !.replies = @ + 1]
      /\ u.conn[c].replies > 0
      /\ u.item = w.item /\ u.metrics = w.metrics /\ u.stopped = w.stopped
  BY ReplySafe
<1>3. w.conn[c] \in ConnType
  BY DEF Safe, Basic, WorldType
<1>4. /\ u.conn[c].client = w.conn[c].client /\ u.conn[c].origin = w.conn[c].origin
      /\ u.conn[c].status = w.conn[c].status /\ u.conn[c].refs = w.conn[c].refs
  BY <1>2, <1>3 DEF ConnType
<1> HIDE DEF u
<1>5. /\ On(u, t, c) /\ t.conn = u.conn
      /\ t.metrics = u.metrics /\ t.stopped = u.stopped
      /\ \A g \in Fd : t.item[g].owner = u.item[g].owner
  <2>1. Uses(u, c, w.conn[c].client) /\ u.item[w.conn[c].client].owner = c
    BY <1>2, <1>4 DEF On, Alive, Uses
  <2>2. {W} \in SUBSET {R, W}
    OBVIOUS
  <2>3. Safe(u) /\ Alive(u, c)
    BY <1>2 DEF On
  <2> QED
    BY <2>1, <2>2, <2>3, InterestOn
<1> HIDE DEF t
<1>6. /\ On(t, x, c) /\ x.conn = t.conn
      /\ x.metrics = t.metrics /\ x.stopped = t.stopped
      /\ \A g \in Fd : x.item[g].owner = t.item[g].owner
      /\ w.conn[c].origin \in Fd => x.item[w.conn[c].origin].int = {}
  <2>1. Uses(t, c, w.conn[c].origin) /\ Safe(t) /\ Alive(t, c)
    BY <1>4, <1>5 DEF On, Uses
  <2>2. {} \in SUBSET {R, W}
    OBVIOUS
  <2> QED
    BY <2>1, <2>2, InterestOn
<1> HIDE DEF x
<1>7. On(w, t, c)
  BY <1>2, <1>5, OnTrans
<1>8. On(w, x, c)
  BY <1>6, <1>7, OnTrans
<1>9. CASE v = x
  BY <1>2, <1>4, <1>5, <1>6, <1>8, <1>9
<1>10. CASE v = t /\ v # x
  BY <1>1, <1>2, <1>4, <1>5, <1>7, <1>10
<1> QED
  BY <1>1, <1>9, <1>10

\* The connection attempt failed: the client is told.
LEMMA FailSafe ==
    ASSUME NEW w, NEW c \in Conn, Safe(w), Alive(w, c)
    PROVE  LET v == error_handler_to_client(Status(w, c, "err"), c)
           IN /\ On(w, v, c) /\ v.conn[c].status = "err"
              /\ v.conn[c].origin = w.conn[c].origin /\ v.conn[c].replies > 0
              /\ v.metrics = w.metrics /\ v.stopped = w.stopped
              /\ \A g \in Fd : v.item[g].owner = w.item[g].owner
              /\ w.conn[c].origin \in Fd => v.item[w.conn[c].origin].int = {}
<1> DEFINE r == [w.conn[c] EXCEPT !.status = "err"]
           u == [w EXCEPT !.conn[c] = r]
           v == error_handler_to_client(u, c)
<1>1. w.conn[c] \in ConnType /\ w.conn[c].refs \in Nat /\ w.conn[c].replies \in Nat
  BY DEF Safe, Basic, WorldType, ConnType
<1>2. /\ r \in ConnType /\ r.live = w.conn[c].live /\ r.client = w.conn[c].client
      /\ r.origin = w.conn[c].origin /\ r.refs = w.conn[c].refs /\ r.st = w.conn[c].st
      /\ r.method = w.conn[c].method /\ r.auth = w.conn[c].auth /\ r.thread = w.conn[c].thread
      /\ r.replies = w.conn[c].replies /\ r.status = "err"
  BY <1>1 DEF ConnType
<1>3. u = Status(w, c, "err")
  BY <1>1 DEF Status
<1> HIDE DEF r
<1>4. /\ Safe(u) /\ Frame(w, u, c) /\ Alive(u, c)
      /\ u.conn[c] = r /\ u.item = w.item
      /\ u.metrics = w.metrics /\ u.stopped = w.stopped
  BY <1>1, <1>2, SetSafe
<1> HIDE DEF u
<1>5. On(w, u, c)
  BY <1>1, <1>2, <1>4 DEF On
<1>6. /\ On(u, v, c) /\ v.conn[c].origin = r.origin /\ v.conn[c].status = r.status
      /\ v.conn[c].replies > 0 /\ v.metrics = u.metrics /\ v.stopped = u.stopped
      /\ \A g \in Fd : v.item[g].owner = u.item[g].owner
      /\ u.conn[c].origin \in Fd => v.item[u.conn[c].origin].int = {}
  BY <1>4, ErrorHandlers
<1> HIDE DEF v
<1>7. v.conn[c].status = "err" /\ v.conn[c].origin = w.conn[c].origin
  BY <1>2, <1>6
<1>8. On(w, v, c)
  BY <1>5, <1>6, OnTrans
<1> QED
  BY <1>2, <1>3, <1>4, <1>6, <1>7, <1>8 DEF v

\* Counting, on behalf of c.
LEMMA CountSafe ==
    ASSUME NEW w, NEW c \in Conn, Safe(w),
           NEW m \in [attempts : Nat, historic : Nat, concurrent : Int, max : Nat]
    PROVE  LET v == [w EXCEPT !.metrics = m]
           IN /\ Safe(v) /\ Frame(w, v, c)
              /\ v.conn = w.conn /\ v.item = w.item /\ v.sock = w.sock
              /\ v.metrics = m /\ v.stopped = w.stopped
              /\ \A d \in Conn : Alive(v, d) <=> Alive(w, d)
              /\ \A d \in Conn, f \in Fd : Uses(v, d, f) <=> Uses(w, d, f)
<1> DEFINE v == [w EXCEPT !.metrics = m]
<1>1. w \in WorldType
  BY DEF Safe, Basic
<1>2. v \in WorldType
  BY <1>1 DEF WorldType
<1>3. /\ v.conn = w.conn /\ v.item = w.item /\ v.sock = w.sock /\ v.pool = w.pool
      /\ v.metrics = m /\ v.stopped = w.stopped
  BY <1>1 DEF WorldType
<1> HIDE DEF v
<1>4. Touched(w, v, c)
  BY <1>1, <1>2, <1>3 DEF Touched, WorldType, ConnType
<1> QED
  BY <1>3, <1>4, TouchSafe DEF v

\* What connect() leaves of the socket.
LEMMA AfterConnectSafe ==
    ASSUME NEW w, NEW c \in Conn, Safe(w), Alive(w, c), NEW f, f = w.conn[c].origin, NEW r
    PROVE  LET v == AfterConnect(w, f, r)
           IN /\ Safe(v) /\ Frame(w, v, c)
              /\ v.conn = w.conn /\ v.item = w.item
              /\ v.metrics = w.metrics /\ v.stopped = w.stopped
              /\ \A d \in Conn : Alive(v, d) <=> Alive(w, d)
              /\ \A d \in Conn, g \in Fd : Uses(v, d, g) <=> Uses(w, d, g)
<1> DEFINE v == AfterConnect(w, f, r)
<1>1. /\ f \in Fd \cup {None} /\ None \notin Fd /\ w \in WorldType
      /\ f \in Fd => Uses(w, c, f)
  BY DEF Safe, Basic, WorldType, ConnType, None, Fd, Uses
<1>2. CASE f = None
  BY <1>1, <1>2, FrameNone DEF AfterConnect
<1>3. CASE f \in Fd
  <2> DEFINE s == IF r = "inprogress" THEN "connecting" ELSE IF r = "now" THEN "up"
                  ELSE IF w.sock[f] \in {"error", "dead"} THEN "new" ELSE w.sock[f]
  <2>1. w.sock[f] # "free" /\ w.sock[f] \in SockType
    BY <1>1, <1>3 DEF Safe, Links, WorldType
  <2>2. s \in SockType \ {"free"}
    BY <2>1 DEF SockType
  <2>3. v = [w EXCEPT !.sock[f] = s]
    BY <1>1, <1>3 DEF AfterConnect
  <2> HIDE DEF s, v
  <2>4. /\ Safe(v) /\ \A x \in Conn : Frame(w, v, x)
        /\ \A d \in Conn : Alive(v, d) <=> Alive(w, d)
        /\ \A d \in Conn, g \in Fd : Uses(v, d, g) <=> Uses(w, d, g)
        /\ v.conn = w.conn /\ v.item = w.item
        /\ v.metrics = w.metrics /\ v.stopped = w.stopped
    <3> DEFINE y == [w EXCEPT !.sock[f] = s]
    <3>1. /\ Safe(w) /\ f \in Fd /\ w.sock[f] # "free" /\ s \in SockType \ {"free"}
      BY <1>3, <2>1, <2>2
    <3>2. /\ Safe(y) /\ \A x \in Conn : Frame(w, y, x)
          /\ \A d \in Conn : Alive(y, d) <=> Alive(w, d)
          /\ \A d \in Conn, g \in Fd : Uses(y, d, g) <=> Uses(w, d, g)
          /\ y.conn = w.conn /\ y.item = w.item
          /\ y.metrics = w.metrics /\ y.stopped = w.stopped
      BY ONLY <3>1, SockSafe
    <3>3. v = y
      BY <2>3
    <3> HIDE DEF y
    <3> QED
      BY <3>2, <3>3
  <2> QED
    BY <2>4 DEF v
<1> QED
  BY <1>1, <1>2, <1>3

\* A reference is taken.
LEMMA ReferSafe ==
    ASSUME NEW w, NEW c \in Conn, Safe(w), Alive(w, c)
    PROVE  LET v == refer(w, c)
           IN /\ On(w, v, c)
              /\ v.conn[c] = [w.conn[c] EXCEPT !.refs = @ + 1]
              /\ v.conn[c].refs = w.conn[c].refs + 1
              /\ v.conn[c].origin = w.conn[c].origin
              /\ v.item = w.item /\ v.metrics = w.metrics /\ v.stopped = w.stopped
              /\ \A d \in Conn, f \in Fd : Uses(v, d, f) <=> Uses(w, d, f)
              /\ v.conn[c].refs > Cardinality(Owned(v, c))
<1> DEFINE r == [w.conn[c] EXCEPT !.refs = @ + 1]
           v == [w EXCEPT !.conn[c] = r]
<1>1. w.conn[c] \in ConnType /\ w.conn[c].refs \in Nat /\ w.conn[c].replies \in Nat
  BY DEF Safe, Basic, WorldType, ConnType
<1>2. /\ r \in ConnType /\ r.live = w.conn[c].live /\ r.client = w.conn[c].client
      /\ r.origin = w.conn[c].origin /\ r.refs = w.conn[c].refs + 1 /\ r.st = w.conn[c].st
      /\ r.method = w.conn[c].method /\ r.auth = w.conn[c].auth /\ r.thread = w.conn[c].thread
      /\ r.replies = w.conn[c].replies
  BY <1>1 DEF ConnType
<1>3. v = refer(w, c)
  BY <1>1 DEF refer
<1> HIDE DEF r
<1>4. /\ Safe(v) /\ Frame(w, v, c) /\ Alive(v, c)
      /\ v.conn[c] = r /\ v.item = w.item
      /\ v.metrics = w.metrics /\ v.stopped = w.stopped
      /\ \A d \in Conn, f \in Fd : Uses(v, d, f) <=> Uses(w, d, f)
  BY <1>1, <1>2, SetSafe
<1> HIDE DEF v
<1>5. Owned(v, c) = Owned(w, c)
  BY <1>4 DEF Owned
<1>6. Cardinality(Owned(w, c)) \in Nat /\ w.conn[c].refs >= Cardinality(Owned(w, c))
  BY OwnedFinite DEF Safe, Basic
<1> QED
  BY <1>1, <1>2, <1>3, <1>4, <1>5, <1>6 DEF On, r

\* connection(), for an event of descriptor k, which is c's: the attempt is
\* counted, and what is taken for a success has an entry of its own.
LEMMA ConnectionSafe ==
    ASSUME NEW w, NEW c \in Conn, Safe(w), Alive(w, c),
           NEW k \in Fd, Uses(w, c, k), w.item[k].owner = c, NEW r \in ConnectResults
    PROVE  LET v == connection(w, c, k, r)
           IN /\ On(w, v, c) /\ v.stopped = w.stopped
              /\ v.metrics = [w.metrics EXCEPT !.attempts = @ + 1]
              /\ v.conn[c].status = "ok" /\ v.conn[c].origin # None
                 => v.item[v.conn[c].origin].owner = c
<1> DEFINE f   == w.conn[c].origin
           res == ConnectResult(w, f, r)
           m   == [w.metrics EXCEPT !.attempts = @ + 1]
           n   == [w EXCEPT !.metrics = m]
           b   == AfterConnect(n, f, res)
           Fail(x) == error_handler_to_client(Status(x, c, "err"), c)
           q   == selector_set_interest(b, k, {})
           h   == selector_set_interest(refer(b, c), k, {R})
           v   == connection(w, c, k, r)
<1>1. /\ f \in Fd \cup {None} /\ None \notin Fd /\ None \notin Conn /\ w \in WorldType
      /\ w.metrics \in [attempts : Nat, historic : Nat, concurrent : Int, max : Nat]
      /\ w.conn[c].replies \in Nat
  BY ConnAssumption DEF Safe, Basic, WorldType, ConnType, None, Fd
<1>2. m \in [attempts : Nat, historic : Nat, concurrent : Int, max : Nat]
  BY <1>1
<1>3. res \in {"fail", "inprogress", "now"}
  BY ConnectAssumption DEF ConnectResult
<1>4. v = CASE res = "fail" -> Fail(b)
            [] res = "inprogress" ->
                 IF ITEM_USED(q, f) THEN [close(Fail(q), f) EXCEPT !.conn[c].origin = None]
                 ELSE refer(selector_register(q, f, c, {W}), c)
            [] res = "now" ->
                 IF ITEM_USED(h, f) THEN Fail(h) ELSE selector_register(h, f, c, {R})
  <2>1. n = [w EXCEPT !.metrics.attempts = @ + 1]
    BY <1>1 DEF WorldType
  <2> QED
    BY <2>1 DEF connection
<1>5. /\ Safe(n) /\ Frame(w, n, c) /\ n.conn = w.conn /\ n.item = w.item /\ n.sock = w.sock
      /\ n.metrics = m /\ n.stopped = w.stopped /\ Alive(n, c)
      /\ \A d \in Conn, g \in Fd : Uses(n, d, g) <=> Uses(w, d, g)
  BY <1>2, CountSafe
<1> HIDE DEF n, res
<1>6. /\ Safe(b) /\ Frame(n, b, c) /\ b.conn = w.conn /\ b.item = w.item
      /\ b.metrics = m /\ b.stopped = w.stopped /\ Alive(b, c)
      /\ Uses(b, c, k) /\ b.item[k].owner = c
  <2>1. n.conn[c].origin = f
    BY <1>5
  <2> QED
    <3> DEFINE y == AfterConnect(n, n.conn[c].origin, res)
    <3>1. c \in Conn /\ Safe(n) /\ Alive(n, c)
      BY <1>5
    <3>2. /\ Safe(y) /\ Frame(n, y, c) /\ y.conn = n.conn /\ y.item = n.item
          /\ y.metrics = n.metrics /\ y.stopped = n.stopped
          /\ \A d \in Conn : Alive(y, d) <=> Alive(n, d)
          /\ \A d \in Conn, g \in Fd : Uses(y, d, g) <=> Uses(n, d, g)
      BY ONLY <3>1, AfterConnectSafe
    <3>3. b = y
      BY <2>1
    <3> HIDE DEF f, m, b, y
    <3> QED
      BY <1>5, <3>2, <3>3
<1>7. On(w, b, c)
  <2>1. On(w, n, c) /\ On(n, b, c)
    BY <1>1, <1>5, <1>6 DEF On
  <2> QED
    BY <2>1, OnTrans
<1> HIDE DEF b, m
<1>8. CASE res = "fail"
  <2>1. v = Fail(b)
    BY <1>4, <1>8
  <2> QED
    BY <1>6, <1>7, <2>1, FailSafe, OnTrans DEF m
<1>9. CASE res = "inprogress"
  <2>1. /\ On(b, q, c) /\ q.conn = b.conn
        /\ q.metrics = b.metrics /\ q.stopped = b.stopped
        /\ \A g \in Fd : q.item[g].owner = b.item[g].owner
    <3>1. {} \in SUBSET {R, W}
      OBVIOUS
    <3> QED
      BY <1>6, <3>1, InterestOn
  <2> HIDE DEF q
  <2>2. On(w, q, c) /\ Safe(q) /\ Alive(q, c)
    BY <1>7, <2>1, OnTrans DEF On
  <2>3. CASE ITEM_USED(q, f)
    <3> DEFINE x == Fail(q)
    <3>1. v = [close(x, f) EXCEPT !.conn[c].origin = None]
      BY <1>4, <1>9, <2>3
    <3>2. /\ On(q, x, c) /\ x.metrics = q.metrics /\ x.stopped = q.stopped
          /\ x.conn[c].origin = q.conn[c].origin
          /\ q.conn[c].origin \in Fd => x.item[q.conn[c].origin].int = {}
      BY <2>2, FailSafe
    <3> HIDE DEF x
    <3>3. On(w, x, c) /\ x.conn[c].origin = f /\ (f \in Fd => x.item[f].int = {})
      BY <1>6, <2>1, <2>2, <3>2, OnTrans
    <3>4. /\ Safe(v) /\ Frame(x, v, c) /\ Alive(v, c)
          /\ v.metrics = x.metrics /\ v.stopped = x.stopped
          /\ v.conn[c] = [x.conn[c] EXCEPT !.origin = None]
          /\ v.conn[c].origin = None
      <4>1. Safe(x) /\ Alive(x, c)
        BY <3>2 DEF On
      <4>2. x.conn[c].origin \in Fd => x.item[x.conn[c].origin].int = {}
        BY <3>3
      <4>3. v = [close(x, x.conn[c].origin) EXCEPT !.conn[c].origin = None]
        BY <3>1, <3>3
      <4> HIDE DEF v, f, Fail
      <4> QED
        <5> DEFINE y == [close(x, x.conn[c].origin) EXCEPT !.conn[c].origin = None]
        <5>1. c \in Conn
          OBVIOUS
        <5>2. /\ Safe(y) /\ Frame(x, y, c) /\ Alive(y, c)
              /\ y.metrics = x.metrics /\ y.stopped = x.stopped
              /\ y.conn[c] = [x.conn[c] EXCEPT !.origin = None]
              /\ y.conn[c].origin = None
          BY ONLY <4>1, <4>2, <5>1, CloseOrigin
        <5>3. v = y
          BY <4>3
        <5> HIDE DEF y
        <5> QED
          BY <5>2, <5>3
    <3>5. On(x, v, c)
      <4>1. x.conn[c] \in ConnType /\ x.conn[c].replies \in Nat
        BY <3>2 DEF On, Safe, Basic, WorldType, ConnType
      <4>2. /\ v.conn[c].st = x.conn[c].st /\ v.conn[c].client = x.conn[c].client
            /\ v.conn[c].method = x.conn[c].method /\ v.conn[c].auth = x.conn[c].auth
            /\ v.conn[c].thread = x.conn[c].thread /\ v.conn[c].replies = x.conn[c].replies
        BY <3>4, <4>1 DEF ConnType
      <4> QED
        BY <3>4, <4>1, <4>2 DEF On
    <3>6. On(w, v, c)
      BY <3>3, <3>5, OnTrans
    <3> QED
      BY <1>6, <2>1, <3>2, <3>4, <3>6 DEF m
  <2>4. CASE ~ITEM_USED(q, f)
    <3> DEFINE x == refer(q, c)
    <3>1. /\ On(q, x, c) /\ x.conn[c].origin = f /\ x.item = q.item
          /\ x.metrics = q.metrics /\ x.stopped = q.stopped
          /\ x.conn[c].refs > Cardinality(Owned(x, c))
      <4>1. q.conn[c].origin = f
        BY <1>6, <2>1
      <4> HIDE DEF f
      <4> QED
        <5>1. c \in Conn /\ Safe(q) /\ Alive(q, c)
          BY <2>2
        <5>2. /\ On(q, x, c) /\ x.conn[c].origin = q.conn[c].origin /\ x.item = q.item
              /\ x.metrics = q.metrics /\ x.stopped = q.stopped
              /\ x.conn[c].refs > Cardinality(Owned(x, c))
          BY ONLY <5>1, ReferSafe
        <5> HIDE DEF x
        <5> QED
          BY <4>1, <5>2
    <3>2. f \in Fd
      BY <1>1, <1>3, <1>9 DEF res, ConnectResult
    <3>3. v = selector_register(x, f, c, {W})
      <4>1. v = refer(selector_register(q, f, c, {W}), c)
        BY <1>4, <1>9, <2>4
      <4>2. q \in WorldType
        BY <2>2 DEF Safe, Basic
      <4> QED
        BY <4>1, <4>2 DEF refer, selector_register, WorldType
    <3> HIDE DEF x, v
    <3>4. x.item[f].owner = None /\ Safe(x) /\ Alive(x, c) /\ {W} \in SUBSET {R, W}
      BY <2>4, <3>1, <3>2 DEF On, ITEM_USED
    <3>5. /\ Safe(v) /\ Frame(x, v, c) /\ Alive(v, c)
          /\ v.conn = x.conn /\ v.metrics = x.metrics /\ v.stopped = x.stopped
          /\ v.item[f].owner = c
      BY <3>1, <3>2, <3>3, <3>4, RegisterSafe
    <3>6. On(x, v, c)
      <4>1. x.conn[c].replies \in Nat
        BY <3>4 DEF Safe, Basic, WorldType, ConnType
      <4> QED
        BY <3>5, <4>1 DEF On
    <3>7. On(w, v, c)
      BY <2>2, <3>1, <3>6, OnTrans
    <3> QED
      BY <1>6, <2>1, <3>1, <3>5, <3>7 DEF m, v
  <2> QED
    BY <2>3, <2>4
<1>10. CASE res = "now"
  <2> DEFINE y == refer(b, c)
  <2>1. /\ On(b, y, c) /\ y.conn[c].origin = f /\ y.item = b.item
        /\ y.metrics = b.metrics /\ y.stopped = b.stopped
        /\ y.conn[c].refs > Cardinality(Owned(y, c))
        /\ \A d \in Conn, g \in Fd : Uses(y, d, g) <=> Uses(b, d, g)
    <3>1. b.conn[c].origin = f
      BY <1>6
    <3> HIDE DEF f
    <3> QED
      BY <1>6, <3>1, ReferSafe
  <2>2. h = selector_set_interest(y, k, {R})
    OBVIOUS
  <2> HIDE DEF y, h
  <2>3. /\ On(y, h, c) /\ h.conn = y.conn
        /\ h.metrics = y.metrics /\ h.stopped = y.stopped
        /\ \A g \in Fd : h.item[g].owner = y.item[g].owner
    <3>1. {R} \in SUBSET {R, W} /\ Safe(y) /\ Alive(y, c) /\ Uses(y, c, k) /\ y.item[k].owner = c
      BY <1>6, <2>1 DEF On
    <3> QED
      BY <2>2, <3>1, InterestOn
  <2>4. On(w, h, c) /\ Safe(h) /\ Alive(h, c)
    <3>1. On(w, y, c)
      BY <1>7, <2>1, OnTrans
    <3> QED
      BY <2>3, <3>1, OnTrans DEF On
  <2>5. CASE ITEM_USED(h, f)
    <3>1. v = Fail(h)
      BY <1>4, <1>10, <2>5
    <3> QED
      BY <1>6, <2>1, <2>3, <2>4, <3>1, FailSafe, OnTrans DEF m
  <2>6. CASE ~ITEM_USED(h, f)
    <3>1. v = selector_register(h, f, c, {R})
      BY <1>4, <1>10, <2>6
    <3>2. f \in Fd
      BY <1>1, <1>3, <1>10 DEF res, ConnectResult
    <3>3. /\ h.item[f].owner = None /\ {R} \in SUBSET {R, W} /\ h.conn[c].origin = f
          /\ Owned(h, c) = Owned(y, c)
      BY <2>1, <2>3, <2>6, <3>2 DEF ITEM_USED, Owned
    <3>4. h.conn[c].refs > Cardinality(Owned(h, c))
      BY <2>1, <2>3, <3>3
    <3> HIDE DEF v
    <3>5. /\ Safe(v) /\ Frame(h, v, c) /\ Alive(v, c)
          /\ v.conn = h.conn /\ v.metrics = h.metrics /\ v.stopped = h.stopped
          /\ v.item[f].owner = c
      BY <2>4, <3>1, <3>2, <3>3, <3>4, RegisterSafe
    <3>6. On(h, v, c)
      <4>1. h.conn[c].replies \in Nat
        BY <2>4 DEF Safe, Basic, WorldType, ConnType
      <4> QED
        BY <3>5, <4>1 DEF On
    <3>7. On(w, v, c)
      BY <2>4, <3>6, OnTrans
    <3> QED
      BY <1>6, <2>1, <2>3, <3>3, <3>5, <3>7 DEF m, v
  <2> QED
    BY <2>5, <2>6
<1> QED
  BY <1>3, <1>8, <1>9, <1>10

\* The kernel's choice is one of the free descriptors.
LEMMA LowestFree ==
    ASSUME NEW w, FreeFds(w) # {}
    PROVE  Lowest(FreeFds(w)) \in FreeFds(w)
<1>1. FreeFds(w) \subseteq Nat
  BY MaxFdAssumption DEF FreeFds, Fd
<1>2. \E f \in FreeFds(w) : \A g \in FreeFds(w) : f <= g
  BY <1>1, LeastNat
<1> QED
  BY <1>2 DEF Lowest

\* The attempt of a request with an address: a socket, then connection().
LEMMA ConnectingInitSafe ==
    ASSUME NEW w, NEW c \in Conn, Safe(w), Alive(w, c), w.conn[c].origin = None,
           NEW k, k = w.conn[c].client, NEW r \in ConnectResults
    PROVE  LET v == connecting_init(w, c, k, r)
           IN /\ On(w, v, c) /\ v.stopped = w.stopped
              /\ \/ v.metrics = w.metrics /\ v.conn[c].status = "err" /\ v.conn[c].replies > 0
                 \/ v.metrics = [w.metrics EXCEPT !.attempts = @ + 1]
              /\ v.conn[c].status = "ok" /\ v.conn[c].origin # None
                 => v.item[v.conn[c].origin].owner = c
<1> DEFINE v == connecting_init(w, c, k, r)
<1>1. CASE FreeFds(w) = {}
  <2>1. v = error_handler_to_client(Status(w, c, "err"), c)
    BY <1>1 DEF connecting_init
  <2> QED
    BY <2>1, FailSafe
<1>2. CASE FreeFds(w) # {}
  <2>2. PICK f \in FreeFds(w) : f = Lowest(FreeFds(w))
    BY <1>2, LowestFree
  <2>9. f \in FreeFds(w)
    BY <2>2
  <2> DEFINE x == [w.conn[c] EXCEPT !.origin = f, !.status = "ok"]
             u == [w EXCEPT !.sock[f] = "new", !.conn[c] = x]
  <2>1. v = connection(u, c, k, r)
    <3>1. u = [w EXCEPT !.sock[f] = "new", !.conn[c].origin = f, !.conn[c].status = "ok"]
      <4> DEFINE C == w.conn
      <4>1. C = w.conn /\ C \in [Conn -> ConnType] /\ w \in WorldType
        BY DEF Safe, Basic, WorldType
      <4>2. [w EXCEPT !.sock[f] = "new", !.conn[c] = [C[c] EXCEPT !.origin = f, !.status = "ok"]]
              = [w EXCEPT !.sock[f] = "new", !.conn[c].origin = f, !.conn[c].status = "ok"]
        BY ONLY <4>1 DEF WorldType
      <4> QED
        BY ONLY <4>2
    <3> QED
      BY <1>2, <2>2, <3>1 DEF connecting_init
  <2> HIDE DEF v
  <2>3. /\ Safe(u) /\ Frame(w, u, c) /\ Alive(u, c)
        /\ u.item = w.item /\ u.metrics = w.metrics /\ u.stopped = w.stopped
        /\ u.conn[c] = x
    <3>1. /\ w \in WorldType /\ w.conn \in [Conn -> ConnType] /\ w.sock \in [Fd -> SockType]
          /\ w.conn[c] \in ConnType /\ f \in Fd
      BY <2>2 DEF Safe, Basic, WorldType, FreeFds
    <3>2. x \in ConnType
      BY <3>1 DEF ConnType
    <3> HIDE DEF x
    <3>3. /\ [w.conn EXCEPT ![c] = x] \in [Conn -> ConnType]
          /\ [w.sock EXCEPT ![f] = "new"] \in [Fd -> SockType]
      BY <3>1, <3>2 DEF SockType
    <3>4. u \in WorldType
      BY <3>1, <3>3 DEF WorldType
    <3>5. /\ u.item = w.item /\ u.pool = w.pool /\ u.metrics = w.metrics
          /\ u.stopped = w.stopped
          /\ u.sock = [w.sock EXCEPT ![f] = "new"] /\ u.conn = [w.conn EXCEPT ![c] = x]
      BY <3>1 DEF WorldType
    <3> HIDE DEF u
    <3>6. u.conn = [w.conn EXCEPT ![c] = [w.conn[c] EXCEPT !.origin = f, !.status = "ok"]]
      BY <3>5 DEF x
    <3>7. Safe(u) /\ Frame(w, u, c) /\ Alive(u, c)
      BY <2>9, <3>4, <3>5, <3>6, OpenOrigin
    <3> QED
      BY <3>1, <3>5, <3>7
  <2> HIDE DEF u
  <2>4. w.conn[c] \in ConnType /\ w.conn[c].replies \in Nat
    BY DEF Safe, Basic, WorldType, ConnType
  <2>5. u.conn[c].client = k /\ On(w, u, c)
    BY <2>3, <2>4 DEF On, ConnType
  <2>6. k \in Fd /\ Uses(u, c, k) /\ u.item[k].owner = c
    BY <2>3, <2>5 DEF Alive, Uses
  <2>7. /\ On(u, v, c) /\ v.stopped = u.stopped
        /\ v.metrics = [u.metrics EXCEPT !.attempts = @ + 1]
        /\ v.conn[c].status = "ok" /\ v.conn[c].origin # None
           => v.item[v.conn[c].origin].owner = c
    <3> HIDE DEF x
    <3> QED
      <4>1. c \in Conn /\ Safe(u) /\ Alive(u, c) /\ r \in ConnectResults
        BY <2>3
      <4> DEFINE y == connection(u, c, k, r)
      <4>2. /\ On(u, y, c) /\ y.stopped = u.stopped
            /\ y.metrics = [u.metrics EXCEPT !.attempts = @ + 1]
            /\ y.conn[c].status = "ok" /\ y.conn[c].origin # None
               => y.item[y.conn[c].origin].owner = c
        BY ONLY <2>6, <4>1, ConnectionSafe
      <4>3. v = y
        BY <2>1
      <4> HIDE DEF y, v
      <4> QED
        BY ONLY <4>2, <4>3
  <2>8. On(w, v, c)
    BY <2>5, <2>7, OnTrans
  <2> QED
    BY <2>3, <2>7, <2>8 DEF v
<1> QED
  BY <1>1, <1>2

\* A change of c's struct that keeps its client, its login and its replies.
LEMMA SetOn ==
    ASSUME NEW w, NEW c \in Conn, Safe(w), Alive(w, c), NEW r \in ConnType,
           \A g \in {"live", "st", "client", "origin", "method", "auth", "thread", "refs",
                     "replies"} : r[g] = w.conn[c][g]
    PROVE  LET v == [w EXCEPT !.conn[c] = r]
           IN /\ On(w, v, c) /\ v.conn[c] = r /\ v.item = w.item /\ v.sock = w.sock
              /\ v.metrics = w.metrics /\ v.stopped = w.stopped
              /\ \A d \in Conn, f \in Fd : Uses(v, d, f) <=> Uses(w, d, f)
<1>1. w.conn[c].replies \in Nat /\ w.conn[c].refs \in Nat
  BY DEF Safe, Basic, WorldType, ConnType
<1>2. /\ r.live = w.conn[c].live /\ r.client = w.conn[c].client
      /\ r.origin = w.conn[c].origin /\ r.refs = w.conn[c].refs /\ r.st = w.conn[c].st
      /\ r.method = w.conn[c].method /\ r.auth = w.conn[c].auth
      /\ r.thread = w.conn[c].thread /\ r.replies = w.conn[c].replies
  OBVIOUS
<1> DEFINE v == [w EXCEPT !.conn[c] = r]
<1>3. /\ Safe(v) /\ Frame(w, v, c) /\ Alive(v, c)
      /\ v.conn[c] = r /\ v.item = w.item /\ v.sock = w.sock
      /\ v.metrics = w.metrics /\ v.stopped = w.stopped
      /\ \A d \in Conn, f \in Fd : Uses(v, d, f) <=> Uses(w, d, f)
  BY <1>1, <1>2, SetSafe
<1> HIDE DEF v
<1>4. On(w, v, c)
  BY <1>1, <1>2, <1>3 DEF On
<1> QED
  BY <1>3, <1>4 DEF v

\* From w to v on behalf of c, which goes on to stage s with its client and
\* its login.
To(w, v, c, s) ==
    /\ Safe(v) /\ Frame(w, v, c) /\ Alive(v, c)
    /\ v.conn[c].st = s /\ v.conn[c].client = w.conn[c].client
    /\ v.conn[c].method = w.conn[c].method /\ v.conn[c].auth = w.conn[c].auth
    /\ v.conn[c].thread = w.conn[c].thread /\ v.conn[c].replies >= w.conn[c].replies

\* The new stage is entered after the calls of the handler.
LEMMA StageTo ==
    ASSUME NEW w, NEW u, NEW c \in Conn, Safe(w), On(w, u, c), NEW s \in Stages
    PROVE  LET v == Stage(u, c, s)
           IN /\ To(w, v, c, s)
              /\ v.conn[c].status = u.conn[c].status /\ v.conn[c].origin = u.conn[c].origin
              /\ v.conn[c].replies = u.conn[c].replies /\ v.conn[c].refs = u.conn[c].refs
              /\ v.conn[c].addrs = u.conn[c].addrs
              /\ v.item = u.item /\ v.metrics = u.metrics /\ v.stopped = u.stopped
              /\ \A d \in Conn, f \in Fd : Uses(v, d, f) <=> Uses(u, d, f)
<1> DEFINE r == [u.conn[c] EXCEPT !.st = s]
           v == [u EXCEPT !.conn[c] = r]
<1>1. u.conn[c] \in ConnType /\ u.conn[c].refs \in Nat /\ Safe(u) /\ Alive(u, c)
  BY DEF On, Safe, Basic, WorldType, ConnType
<1>2. /\ r \in ConnType /\ r.live = u.conn[c].live /\ r.client = u.conn[c].client
      /\ r.origin = u.conn[c].origin /\ r.refs = u.conn[c].refs /\ r.st = s
      /\ r.method = u.conn[c].method /\ r.auth = u.conn[c].auth /\ r.thread = u.conn[c].thread
      /\ r.replies = u.conn[c].replies /\ r.status = u.conn[c].status
      /\ r.addrs = u.conn[c].addrs
  BY <1>1 DEF ConnType
<1>3. v = Stage(u, c, s)
  BY <1>1 DEF Stage
<1> HIDE DEF r
<1>4. /\ Safe(v) /\ Frame(u, v, c) /\ Alive(v, c)
      /\ v.conn[c] = r /\ v.item = u.item
      /\ v.metrics = u.metrics /\ v.stopped = u.stopped
      /\ \A d \in Conn, f \in Fd : Uses(v, d, f) <=> Uses(u, d, f)
  BY <1>1, <1>2, SetSafe
<1> HIDE DEF v
<1>5. w \in WorldType /\ u \in WorldType /\ v \in WorldType
  BY <1>1, <1>4 DEF Safe, Basic
<1>6. Frame(w, v, c)
  BY <1>4, <1>5, FrameTrans DEF On
<1>7. To(w, v, c, s)
  BY <1>2, <1>4, <1>6 DEF To, On
<1> QED
  BY <1>2, <1>3, <1>4, <1>7

\* The next address of the name is taken.
LEMMA NextAddrSafe ==
    ASSUME NEW w, NEW c \in Conn, Safe(w), Alive(w, c), HasNext(w, c)
    PROVE  LET v == NextAddr(w, c)
           IN /\ On(w, v, c) /\ v.item = w.item
              /\ v.metrics = w.metrics /\ v.stopped = w.stopped
              /\ \A d \in Conn, f \in Fd : Uses(v, d, f) <=> Uses(w, d, f)
<1> DEFINE r == [w.conn[c] EXCEPT !.addrs = @ - 1]
           v == [w EXCEPT !.conn[c] = r]
<1>1. w.conn[c] \in ConnType
  BY DEF Safe, Basic, WorldType
<1>2. w.conn[c].addrs - 1 \in 0..MaxAddrs
  BY <1>1, MaxAddrsAssumption DEF ConnType, HasNext
<1>3. /\ r \in ConnType
      /\ \A g \in {"live", "st", "client", "origin", "method", "auth", "thread", "refs",
                   "replies"} : r[g] = w.conn[c][g]
  BY <1>1, <1>2 DEF ConnType
<1>4. v = NextAddr(w, c)
  BY <1>1 DEF NextAddr
<1> HIDE DEF r
<1>5. /\ On(w, v, c) /\ v.item = w.item
      /\ v.metrics = w.metrics /\ v.stopped = w.stopped
      /\ \A d \in Conn, f \in Fd : Uses(v, d, f) <=> Uses(w, d, f)
  BY <1>3, SetOn
<1> HIDE DEF v
<1> QED
  BY <1>4, <1>5

\* The pending error of the socket is consumed and the failure noted.
LEMMA BadSafe ==
    ASSUME NEW w, NEW c \in Conn, Safe(w), Alive(w, c), NEW k \in Fd, Uses(w, c, k)
    PROVE  LET v == Status([w EXCEPT !.sock[k] = "dead"], c, "err")
           IN /\ On(w, v, c) /\ v.item = w.item /\ v.conn[c].status = "err"
              /\ v.metrics = w.metrics /\ v.stopped = w.stopped
              /\ \A d \in Conn, f \in Fd : Uses(v, d, f) <=> Uses(w, d, f)
<1> DEFINE u == [w EXCEPT !.sock[k] = "dead"]
           r == [u.conn[c] EXCEPT !.status = "err"]
           v == [u EXCEPT !.conn[c] = r]
<1>1. w.sock[k] # "free" /\ "dead" \in SockType \ {"free"} /\ w.conn[c].replies \in Nat
  BY DEF Safe, Basic, Links, SockType, WorldType, ConnType
<1>2. /\ Safe(u) /\ Frame(w, u, c) /\ Alive(u, c) /\ u.conn = w.conn /\ u.item = w.item
      /\ u.metrics = w.metrics /\ u.stopped = w.stopped
      /\ \A d \in Conn, f \in Fd : Uses(u, d, f) <=> Uses(w, d, f)
  BY <1>1, SockSafe
<1> HIDE DEF u
<1>3. u.conn[c] \in ConnType
  BY <1>2 DEF Safe, Basic, WorldType
<1>4. /\ r \in ConnType /\ r.status = "err"
      /\ \A g \in {"live", "st", "client", "origin", "method", "auth", "thread", "refs",
                   "replies"} : r[g] = u.conn[c][g]
  BY <1>3 DEF ConnType
<1>5. v = Status(u, c, "err")
  BY <1>3 DEF Status
<1> HIDE DEF r
<1>6. /\ On(u, v, c) /\ v.conn[c] = r /\ v.item = u.item
      /\ v.metrics = u.metrics /\ v.stopped = u.stopped
      /\ \A d \in Conn, f \in Fd : Uses(v, d, f) <=> Uses(u, d, f)
  BY <1>2, <1>4, SetOn
<1> HIDE DEF v
<1>7. On(w, u, c)
  BY <1>1, <1>2 DEF On
<1>8. On(w, v, c)
  BY <1>6, <1>7, OnTrans
<1> QED
  BY <1>2, <1>4, <1>5, <1>6, <1>8 DEF u

\* A success that connecting_write sees: counted and replied.
LEMMA ConnectedSafe ==
    ASSUME NEW w, NEW c \in Conn, Safe(w), Alive(w, c), NEW k \in Fd, Uses(w, c, k)
    PROVE  LET v == connected(w, c, k)
               n == w.metrics.concurrent + 1
           IN /\ To(w, v, c, "REQUEST_WRITE")
              /\ v.conn[c].status = w.conn[c].status /\ v.conn[c].origin = w.conn[c].origin
              /\ v.conn[c].replies > 0 /\ v.stopped = w.stopped
              /\ v.metrics = [attempts |-> w.metrics.attempts,
                              historic |-> w.metrics.historic + 1, concurrent |-> n,
                              max |-> IF n > w.metrics.max THEN n ELSE w.metrics.max]
              /\ \A g \in Fd : v.item[g].owner = w.item[g].owner
<1> DEFINE n == w.metrics.concurrent + 1
           m == [attempts |-> w.metrics.attempts, historic |-> w.metrics.historic + 1,
                 concurrent |-> n, max |-> IF n > w.metrics.max THEN n ELSE w.metrics.max]
           a == [w EXCEPT !.metrics = m]
           b == [a EXCEPT !.conn[c].replies = @ + 1]
           x == selector_set_interest(b, w.conn[c].client, {W})
           y == selector_set_interest(x, k, {})
           v == Stage(y, c, "REQUEST_WRITE")
<1>1. /\ w \in WorldType /\ w.conn[c] \in ConnType /\ w.conn[c].replies \in Nat
      /\ w.metrics \in [attempts : Nat, historic : Nat, concurrent : Int, max : Nat]
  BY DEF Safe, Basic, WorldType, ConnType
<1>2. m \in [attempts : Nat, historic : Nat, concurrent : Int, max : Nat]
  <2>1. /\ n \in Int /\ w.metrics.historic + 1 \in Nat
        /\ (IF n > w.metrics.max THEN n ELSE w.metrics.max) \in Nat
    BY <1>1
  <2> HIDE DEF n
  <2> QED
    BY <1>1, <2>1
<1>3. connected(w, c, k) = v
  <2>1. b = [w EXCEPT !.metrics.historic = @ + 1, !.metrics.concurrent = n,
                      !.metrics.max = IF n > @ THEN n ELSE @, !.conn[c].replies = @ + 1]
    BY <1>1 DEF WorldType
  <2> QED
    BY <2>1 DEF connected
<1> HIDE DEF m
<1>4. /\ Safe(a) /\ Frame(w, a, c) /\ Alive(a, c) /\ a.conn = w.conn /\ a.item = w.item
      /\ a.metrics = m /\ a.stopped = w.stopped
      /\ \A d \in Conn, f \in Fd : Uses(a, d, f) <=> Uses(w, d, f)
  BY <1>2, CountSafe
<1> HIDE DEF a
<1>5. On(w, a, c)
  BY <1>1, <1>4 DEF On
<1>6. /\ On(a, b, c) /\ b.conn[c] = [a.conn[c] EXCEPT !.replies = @ + 1]
      /\ b.conn[c].replies > 0 /\ b.item = a.item
      /\ b.metrics = a.metrics /\ b.stopped = a.stopped
  BY <1>4, ReplySafe
<1> HIDE DEF b
<1>7. /\ b.conn[c].client = w.conn[c].client /\ b.conn[c].origin = w.conn[c].origin
      /\ b.conn[c].status = w.conn[c].status /\ Safe(b) /\ Alive(b, c)
  BY <1>1, <1>4, <1>6 DEF On, ConnType
<1>8. Uses(b, c, w.conn[c].client) /\ Uses(b, c, k) /\ b.item[w.conn[c].client].owner = c
  BY <1>4, <1>6, <1>7 DEF Uses, Alive
<1>9. /\ On(b, x, c) /\ x.conn = b.conn /\ x.metrics = b.metrics /\ x.stopped = b.stopped
      /\ \A g \in Fd : x.item[g].owner = b.item[g].owner
  <2>1. {W} \in SUBSET {R, W}
    OBVIOUS
  <2> QED
    BY <1>7, <1>8, <2>1, InterestOn
<1> HIDE DEF x
<1>10. /\ On(x, y, c) /\ y.conn = x.conn /\ y.metrics = x.metrics /\ y.stopped = x.stopped
       /\ \A g \in Fd : y.item[g].owner = x.item[g].owner
  <2>1. {} \in SUBSET {R, W} /\ Safe(x) /\ Alive(x, c) /\ Uses(x, c, k)
    BY <1>8, <1>9 DEF On, Uses
  <2> QED
    BY <2>1, InterestOn
<1> HIDE DEF y
<1>11. On(w, y, c)
  <2>1. On(w, b, c)
    BY <1>5, <1>6, OnTrans
  <2>2. On(w, x, c)
    BY <1>9, <2>1, OnTrans
  <2> QED
    BY <1>10, <2>2, OnTrans
<1>12. /\ To(w, v, c, "REQUEST_WRITE")
       /\ v.conn[c].status = y.conn[c].status /\ v.conn[c].origin = y.conn[c].origin
       /\ v.conn[c].replies = y.conn[c].replies
       /\ v.item = y.item /\ v.metrics = y.metrics /\ v.stopped = y.stopped
  BY <1>11, StageTo DEF Stages
<1> HIDE DEF v
<1>13. /\ v.conn[c].status = w.conn[c].status /\ v.conn[c].origin = w.conn[c].origin
       /\ v.conn[c].replies > 0 /\ v.stopped = w.stopped /\ v.metrics = m
       /\ \A g \in Fd : v.item[g].owner = w.item[g].owner
  BY <1>4, <1>6, <1>7, <1>9, <1>10, <1>12
<1> QED
  BY <1>3, <1>12, <1>13 DEF m

\* No address is left after a failure seen earlier: the origin is given back
\* and the client told.
LEMMA GiveUpSafe ==
    ASSUME NEW w, NEW c \in Conn, Safe(w), Alive(w, c)
    PROVE  LET v == give_up(w, c)
           IN /\ To(w, v, c, "REQUEST_WRITE") /\ v.conn[c].origin = None
              /\ v.conn[c].replies > 0 /\ v.metrics = w.metrics /\ v.stopped = w.stopped
<1> DEFINE f == w.conn[c].origin
           a == selector_unregister_fd(w, f)
           b == [close(a, f) EXCEPT !.conn[c].origin = None]
           x == error_handler_to_client(b, c)
           v == Stage(x, c, "REQUEST_WRITE")
<1>1. give_up(w, c) = v
  BY DEF give_up
<1>2. w.conn[c] \in ConnType /\ w.conn[c].replies \in Nat
  BY DEF Safe, Basic, WorldType, ConnType
<1>3. /\ Safe(a) /\ Frame(w, a, c) /\ Alive(a, c)
      /\ a.metrics = w.metrics /\ a.stopped = w.stopped
      /\ SameButRefs(a.conn[c], w.conn[c])
      /\ f \in Fd => a.item[f].int = {}
  BY UnregisterOrigin
<1> HIDE DEF a
<1>4. On(w, a, c) /\ a.conn[c].origin = f /\ a.conn[c] \in ConnType
  <2>1. a.conn[c] \in ConnType
    BY <1>3 DEF Safe, Basic, WorldType
  <2>2. /\ a.conn[c].client = w.conn[c].client /\ a.conn[c].origin = f
        /\ a.conn[c].st = w.conn[c].st /\ a.conn[c].thread = w.conn[c].thread
        /\ a.conn[c].method = w.conn[c].method /\ a.conn[c].auth = w.conn[c].auth
        /\ a.conn[c].replies = w.conn[c].replies
    BY <1>3 DEF SameButRefs, Fields
  <2> QED
    BY <1>2, <1>3, <2>1, <2>2 DEF On
<1> HIDE DEF f
<1>5. /\ Safe(b) /\ Frame(a, b, c) /\ Alive(b, c)
      /\ b.metrics = a.metrics /\ b.stopped = a.stopped
      /\ b.conn[c] = [a.conn[c] EXCEPT !.origin = None] /\ b.conn[c].origin = None
  BY <1>3, <1>4, CloseOrigin
<1> HIDE DEF b
<1>6. On(a, b, c)
  BY <1>4, <1>5 DEF On, ConnType
<1>8. /\ On(b, x, c) /\ x.conn[c].origin = b.conn[c].origin
      /\ x.conn[c].replies > 0 /\ x.metrics = b.metrics /\ x.stopped = b.stopped
  <2>1. x \in {error_handler(b, c), error_handler_to_client(b, c)}
    OBVIOUS
  <2>2. Safe(b) /\ Alive(b, c)
    BY <1>5
  <2> HIDE DEF x
  <2> QED
    BY <2>1, <2>2, ErrorHandlers
<1> HIDE DEF x
<1>9. x.conn[c].origin = None
  BY <1>5, <1>8
<1>10. On(w, x, c)
  BY <1>4, <1>6, <1>8, OnTrans
<1>11. /\ To(w, v, c, "REQUEST_WRITE") /\ v.conn[c].origin = x.conn[c].origin
       /\ v.conn[c].replies = x.conn[c].replies
       /\ v.metrics = x.metrics /\ v.stopped = x.stopped
  BY <1>10, StageTo DEF Stages
<1> HIDE DEF v
<1> QED
  BY <1>1, <1>3, <1>5, <1>8, <1>9, <1>11

\* The three ends of connecting_write: another attempt, a failure that is
\* told to the client, a connection.
Retried(w, v, c) ==
    /\ On(w, v, c) /\ v.metrics = [w.metrics EXCEPT !.attempts = @ + 1]
    /\ v.conn[c].status = "ok" /\ v.conn[c].origin # None
       => v.item[v.conn[c].origin].owner = c

Failed(w, v, c) ==
    /\ To(w, v, c, "REQUEST_WRITE") /\ v.conn[c].replies > 0 /\ v.metrics = w.metrics
    /\ v.conn[c].status = "err" \/ v.conn[c].origin = None

Connected(w, v, c) ==
    LET n == w.metrics.concurrent + 1
    IN /\ To(w, v, c, "REQUEST_WRITE") /\ v.conn[c].replies > 0
       /\ w.conn[c].status = "ok" /\ v.conn[c].status = "ok"
       /\ v.conn[c].origin = w.conn[c].origin
       /\ v.metrics = [attempts |-> w.metrics.attempts,
                       historic |-> w.metrics.historic + 1, concurrent |-> n,
                       max |-> IF n > w.metrics.max THEN n ELSE w.metrics.max]
       /\ \A g \in Fd : v.item[g].owner = w.item[g].owner

\* Another attempt with the next address.
LEMMA RetrySafe ==
    ASSUME NEW w, NEW c \in Conn, Safe(w), Alive(w, c), HasNext(w, c),
           NEW k \in Fd, Uses(w, c, k), w.item[k].owner = c, NEW r \in ConnectResults
    PROVE  LET v == connection(NextAddr(w, c), c, k, r)
           IN Retried(w, v, c) /\ v.stopped = w.stopped
<1> DEFINE u == NextAddr(w, c)
           v == connection(u, c, k, r)
<1>1. /\ On(w, u, c) /\ u.item = w.item /\ u.metrics = w.metrics /\ u.stopped = w.stopped
      /\ Uses(u, c, k) /\ u.item[k].owner = c /\ Safe(u) /\ Alive(u, c)
  BY NextAddrSafe DEF On
<1> HIDE DEF u
<1>2. /\ On(u, v, c) /\ v.stopped = u.stopped
      /\ v.metrics = [u.metrics EXCEPT !.attempts = @ + 1]
      /\ v.conn[c].status = "ok" /\ v.conn[c].origin # None
         => v.item[v.conn[c].origin].owner = c
  BY <1>1, ConnectionSafe
<1> HIDE DEF v
<1>3. On(w, v, c)
  BY <1>1, <1>2, OnTrans
<1> QED
  BY <1>1, <1>2, <1>3 DEF Retried, v, u

\* connecting_write, for the descriptor k of c.
LEMMA ConnectingWriteSafe ==
    ASSUME NEW w, NEW c \in Conn, Safe(w), Alive(w, c),
           NEW k \in Fd, Uses(w, c, k), w.item[k].owner = c, NEW r \in ConnectResults
    PROVE  LET v == connecting_write(w, c, k, r)
           IN /\ v.stopped = w.stopped
              /\ Retried(w, v, c) \/ Failed(w, v, c) \/ Connected(w, v, c)
<1> DEFINE v == connecting_write(w, c, k, r)
           b == Status([w EXCEPT !.sock[k] = "dead"], c, "err")
           x == error_handler_to_client(b, c)
<1>1. CASE w.conn[c].status # "ok" /\ HasNext(w, c)
  <2>1. v = connection(NextAddr(w, c), c, k, r)
    BY <1>1 DEF connecting_write
  <2> QED
    BY <1>1, <2>1, RetrySafe
<1>2. CASE w.conn[c].status # "ok" /\ ~HasNext(w, c)
  <2>1. v = give_up(w, c)
    BY <1>2 DEF connecting_write
  <2> QED
    BY <2>1, GiveUpSafe DEF Failed
<1>3. CASE w.conn[c].status = "ok" /\ w.sock[k] # "error"
  <2>1. v = connected(w, c, k)
    BY <1>3 DEF connecting_write
  <2> HIDE DEF v
  <2>2. w.conn[c].status = "ok"
    BY <1>3
  <2>3. Connected(w, v, c) /\ v.stopped = w.stopped
    BY <2>1, <2>2, ConnectedSafe DEF Connected
  <2> QED
    BY <2>3 DEF v
<1>4. CASE w.conn[c].status = "ok" /\ w.sock[k] = "error"
  <2>1. v = IF HasNext(b, c) THEN connection(NextAddr(b, c), c, k, r)
            ELSE Stage(x, c, "REQUEST_WRITE")
    BY <1>4 DEF connecting_write
  <2>2. /\ On(w, b, c) /\ b.item = w.item /\ b.conn[c].status = "err"
        /\ b.metrics = w.metrics /\ b.stopped = w.stopped
        /\ Uses(b, c, k) /\ b.item[k].owner = c /\ Safe(b) /\ Alive(b, c)
    BY BadSafe DEF On
  <2> HIDE DEF v, b
  <2>3. CASE HasNext(b, c)
    <3>1. v = connection(NextAddr(b, c), c, k, r)
      BY <2>1, <2>3
    <3>2. Retried(b, v, c) /\ v.stopped = b.stopped
      BY <2>2, <2>3, <3>1, RetrySafe
    <3>3. On(w, v, c)
      BY <2>2, <3>2, OnTrans DEF Retried
    <3> QED
      BY <2>2, <3>2, <3>3 DEF Retried, v
  <2>4. CASE ~HasNext(b, c)
    <3>1. v = Stage(x, c, "REQUEST_WRITE")
      BY <2>1, <2>4
    <3>2. x \in {error_handler(b, c), error_handler_to_client(b, c)}
      OBVIOUS
    <3> HIDE DEF x
    <3>3. /\ On(b, x, c) /\ x.conn[c].status = b.conn[c].status
          /\ x.conn[c].replies > 0 /\ x.metrics = b.metrics /\ x.stopped = b.stopped
      BY <2>2, <3>2, ErrorHandlers
    <3>4. On(w, x, c)
      BY <2>2, <3>3, OnTrans
    <3>5. /\ To(w, v, c, "REQUEST_WRITE") /\ v.conn[c].status = x.conn[c].status
          /\ v.conn[c].replies = x.conn[c].replies
          /\ v.metrics = x.metrics /\ v.stopped = x.stopped
      BY <3>1, <3>4, StageTo DEF Stages
    <3> QED
      BY <2>2, <3>3, <3>5 DEF Failed, v
  <2> QED
    BY <2>3, <2>4
<1>5. w.conn[c].status \in {"ok", "err"}
  BY DEF Safe, Basic, WorldType, ConnType
<1> QED
  BY <1>1, <1>2, <1>3, <1>4, <1>5

\* Calls after the stage has changed.
LEMMA ToTrans ==
    ASSUME NEW w, NEW u, NEW v, NEW c \in Conn, NEW s, Safe(w), To(w, u, c, s), On(u, v, c)
    PROVE  To(w, v, c, s)
<1>1. w \in WorldType /\ u \in WorldType /\ v \in WorldType
  BY DEF On, To, Safe, Basic
<1>2. Frame(w, v, c)
  BY <1>1, FrameTrans DEF On, To
<1>3. w.conn[c].replies \in Nat /\ u.conn[c].replies \in Nat /\ v.conn[c].replies \in Nat
  BY <1>1 DEF WorldType, ConnType
<1> QED
  BY <1>2, <1>3 DEF On, To

\* The handler has called nothing yet.
LEMMA OnNone ==
    ASSUME NEW w, NEW c \in Conn, Safe(w), Alive(w, c)
    PROVE  On(w, w, c)
<1>1. w \in WorldType /\ w.conn[c].replies \in Nat
  BY DEF Safe, Basic, WorldType, ConnType
<1> QED
  BY <1>1, FrameNone DEF On

\* A connection attempt was made, or found impossible, for a request without
\* an origin.
Attempted(w, v, c) ==
    /\ To(w, v, c, "REQUEST_CONNECTING")
    /\ \/ v.metrics = w.metrics /\ v.conn[c].status = "err"
       \/ v.metrics = [w.metrics EXCEPT !.attempts = @ + 1]
    /\ v.conn[c].status = "ok" /\ v.conn[c].origin # None
       => v.item[v.conn[c].origin].owner = c

\* connecting_init after the stage has changed.
LEMMA AttemptSafe ==
    ASSUME NEW w, NEW u, NEW c \in Conn, Safe(w), To(w, u, c, "REQUEST_CONNECTING"),
           u.conn[c].origin = None, u.metrics = w.metrics, u.stopped = w.stopped,
           NEW k, k = w.conn[c].client, NEW r \in ConnectResults
    PROVE  LET v == connecting_init(u, c, k, r)
           IN Attempted(w, v, c) /\ v.stopped = w.stopped
<1> DEFINE v == connecting_init(u, c, k, r)
<1>1. Safe(u) /\ Alive(u, c) /\ k = u.conn[c].client
  BY DEF To
<1>2. /\ On(u, v, c) /\ v.stopped = u.stopped
      /\ \/ v.metrics = u.metrics /\ v.conn[c].status = "err" /\ v.conn[c].replies > 0
         \/ v.metrics = [u.metrics EXCEPT !.attempts = @ + 1]
      /\ v.conn[c].status = "ok" /\ v.conn[c].origin # None
         => v.item[v.conn[c].origin].owner = c
  BY <1>1, ConnectingInitSafe
<1> HIDE DEF v
<1>3. To(w, v, c, "REQUEST_CONNECTING")
  BY <1>2, ToTrans
<1> QED
  BY <1>2, <1>3 DEF Attempted, v

\* The resolver's result is handled.
LEMMA ResolvDoneSafe ==
    ASSUME NEW w, NEW c \in Conn, Safe(w), Alive(w, c), w.conn[c].origin = None,
           NEW k, k = w.conn[c].client, NEW r \in ConnectResults
    PROVE  LET v == request_resolv_done(w, c, k, r)
           IN v.stopped = w.stopped /\ (Failed(w, v, c) \/ Attempted(w, v, c))
<1> DEFINE v == request_resolv_done(w, c, k, r)
<1>1. /\ w.conn[c] \in ConnType /\ w.conn[c].addrs \in 0..MaxAddrs
      /\ On(w, w, c) /\ w \in WorldType
  BY OnNone DEF Safe, Basic, WorldType, ConnType
<1>2. CASE w.conn[c].addrs = 0
  <2> DEFINE x == [w.conn[c] EXCEPT !.status = "err"]
             a == [w EXCEPT !.conn[c] = x]
             b == error_handler(a, c)
  <2>1. a = Status(w, c, "err")
    BY <1>1 DEF Status
  <2>2. v = Stage(b, c, "REQUEST_WRITE")
    BY <1>2, <2>1 DEF request_resolv_done
  <2>3. /\ x \in ConnType /\ x.status = "err"
        /\ \A g \in {"live", "st", "client", "origin", "method", "auth", "thread", "refs",
                     "replies"} : x[g] = w.conn[c][g]
    BY <1>1 DEF ConnType
  <2> HIDE DEF v, x
  <2>4. /\ On(w, a, c) /\ a.conn[c] = x
        /\ a.metrics = w.metrics /\ a.stopped = w.stopped
    BY <2>3, SetOn
  <2> HIDE DEF a
  <2>5. /\ On(a, b, c) /\ b.conn[c].status = a.conn[c].status
        /\ b.conn[c].replies > 0 /\ b.metrics = a.metrics /\ b.stopped = a.stopped
    <3>1. b \in {error_handler(a, c), error_handler_to_client(a, c)} /\ Safe(a) /\ Alive(a, c)
      BY <2>4 DEF On
    <3> HIDE DEF b
    <3> QED
      BY <3>1, ErrorHandlers
  <2> HIDE DEF b
  <2>6. On(w, b, c)
    BY <2>4, <2>5, OnTrans
  <2>7. /\ To(w, v, c, "REQUEST_WRITE") /\ v.conn[c].status = b.conn[c].status
        /\ v.conn[c].replies = b.conn[c].replies
        /\ v.metrics = b.metrics /\ v.stopped = b.stopped
    BY <2>2, <2>6, StageTo DEF Stages
  <2>8. v.conn[c].status = "err"
    BY <2>3, <2>4, <2>5, <2>7
  <2> QED
    BY <2>4, <2>5, <2>7, <2>8 DEF Failed, v
<1>3. CASE w.conn[c].addrs # 0
  <2> DEFINE a == Stage(w, c, "REQUEST_CONNECTING")
             x == [a.conn[c] EXCEPT !.addrs = @ - 1, !.resolved = TRUE]
             b == [a EXCEPT !.conn[c] = x]
  <2>1. /\ To(w, a, c, "REQUEST_CONNECTING") /\ a.conn[c].origin = None
        /\ a.metrics = w.metrics /\ a.stopped = w.stopped
        /\ a.conn[c].addrs = w.conn[c].addrs
    BY <1>1, StageTo DEF Stages
  <2> HIDE DEF a
  <2>2. a \in WorldType /\ a.conn[c] \in ConnType /\ Safe(a) /\ Alive(a, c)
    BY <2>1 DEF To, Safe, Basic, WorldType
  <2>3. b = [a EXCEPT !.conn[c].addrs = @ - 1, !.conn[c].resolved = TRUE]
    BY <2>2 DEF WorldType
  <2>4. v = connecting_init(b, c, k, r)
    BY <1>3, <2>3 DEF request_resolv_done, a
  <2>5. a.conn[c].addrs - 1 \in 0..MaxAddrs
    BY <1>1, <1>3, <2>1, MaxAddrsAssumption
  <2>6. /\ x \in ConnType
        /\ \A g \in {"live", "st", "client", "origin", "method", "auth", "thread", "refs",
                     "replies"} : x[g] = a.conn[c][g]
    BY <2>2, <2>5 DEF ConnType
  <2> HIDE DEF v, x
  <2>7. /\ On(a, b, c) /\ b.conn[c] = x
        /\ b.metrics = a.metrics /\ b.stopped = a.stopped
    BY <2>2, <2>6, SetOn
  <2> HIDE DEF b
  <2>8. To(w, b, c, "REQUEST_CONNECTING")
    BY <2>1, <2>7, ToTrans
  <2>9. b.conn[c].origin = None
    BY <2>1, <2>6, <2>7
  <2>10. Attempted(w, v, c) /\ v.stopped = w.stopped
    BY <2>1, <2>4, <2>7, <2>8, <2>9, AttemptSafe
  <2> QED
    BY <2>10 DEF v
<1> QED
  BY <1>2, <1>3

\* The origin, if there is one, has an entry of its own.
OwnOrigin(w, c) == w.conn[c].origin # None => w.item[w.conn[c].origin].owner = c

\* COPY sets interests only where there is an entry: it does not abort.
LEMMA CopyInterestsSafe ==
    ASSUME NEW w, NEW c \in Conn, Safe(w), Alive(w, c), OwnOrigin(w, c),
           NEW i \in SUBSET {R, W}, NEW o \in SUBSET {R, W}
    PROVE  LET v == copy_interests(w, c, i, o)
           IN /\ On(w, v, c) /\ v.conn = w.conn
              /\ v.metrics = w.metrics /\ v.stopped = w.stopped
              /\ \A g \in Fd : v.item[g].owner = w.item[g].owner
<1> DEFINE f  == w.conn[c].origin
           cl == w.conn[c].client
           u  == IF f = None THEN w ELSE selector_set_interest(w, f, o)
           v  == selector_set_interest(u, cl, i)
<1>1. /\ f \in Fd \cup {None} /\ cl \in Fd /\ None \notin Fd /\ None \notin Conn
      /\ w.item[cl].owner = c /\ Uses(w, c, cl) /\ (f \in Fd => Uses(w, c, f))
  BY ConnAssumption DEF Safe, Basic, WorldType, ConnType, None, Fd, Uses, Alive
<1>2. f \in Fd => w.item[f].owner = c
  BY <1>1 DEF OwnOrigin
<1>3. /\ On(w, u, c) /\ u.conn = w.conn /\ u.metrics = w.metrics /\ u.stopped = w.stopped
      /\ \A g \in Fd : u.item[g].owner = w.item[g].owner
  <2>1. CASE f = None
    BY <2>1, OnNone
  <2>2. CASE f \in Fd
    <3>1. u = selector_set_interest(w, f, o)
      BY <1>1, <2>2
    <3> HIDE DEF u
    <3> QED
      BY <1>1, <1>2, <2>2, <3>1, InterestOn
  <2> QED
    BY <1>1, <2>1, <2>2
<1>4. copy_interests(w, c, i, o) = v
  <2>1. ITEM_USED(u, cl)
    BY <1>1, <1>3 DEF ITEM_USED
  <2>2. f # None => ITEM_USED(w, f)
    BY <1>1, <1>2 DEF ITEM_USED
  <2> QED
    BY <1>1, <2>1, <2>2 DEF copy_interests
<1> HIDE DEF u
<1>5. /\ On(u, v, c) /\ v.conn = u.conn /\ v.metrics = u.metrics /\ v.stopped = u.stopped
      /\ \A g \in Fd : v.item[g].owner = u.item[g].owner
  <2>1. Safe(u) /\ Alive(u, c) /\ Uses(u, c, cl) /\ u.item[cl].owner = c
    BY <1>1, <1>3 DEF On, Uses
  <2> QED
    BY <1>1, <2>1, InterestOn
<1> HIDE DEF v
<1>6. On(w, v, c)
  BY <1>3, <1>5, OnTrans
<1> QED
  BY <1>3, <1>4, <1>5, <1>6

\* Both forms of copy_init, and what an event of COPY leaves armed.
LEMMA RelaySafe ==
    ASSUME NEW w, NEW c \in Conn, Safe(w), Alive(w, c), OwnOrigin(w, c),
           NEW o \in SUBSET {"up", "down"}, NEW a
    PROVE  LET v == Relay(w, c, o, a)
           IN /\ On(w, v, c)
              /\ v.conn[c].status = w.conn[c].status /\ v.conn[c].origin = w.conn[c].origin
              /\ v.metrics = w.metrics /\ v.stopped = w.stopped
              /\ \A g \in Fd : v.item[g].owner = w.item[g].owner
<1> DEFINE Arm(in, out) == {op \in {R, W} : LET d == IF op = R THEN in ELSE out
                                            IN d \in o /\ op \in a[d]}
           r == [w.conn[c] EXCEPT !.open = o]
           u == [w EXCEPT !.conn[c] = r]
           v == copy_interests(u, c, Arm("up", "down"), Arm("down", "up"))
<1>1. w.conn[c] \in ConnType
  BY DEF Safe, Basic, WorldType
<1>2. v = Relay(w, c, o, a)
  <2>1. u = [w EXCEPT !.conn[c].open = o]
    BY <1>1 DEF WorldType
  <2> QED
    BY <2>1 DEF Relay
<1>3. /\ r \in ConnType /\ r.status = w.conn[c].status
      /\ \A g \in {"live", "st", "client", "origin", "method", "auth", "thread", "refs",
                   "replies"} : r[g] = w.conn[c][g]
  BY <1>1 DEF ConnType
<1> HIDE DEF r
<1>4. /\ On(w, u, c) /\ u.conn[c] = r /\ u.item = w.item
      /\ u.metrics = w.metrics /\ u.stopped = w.stopped
  BY <1>3, SetOn
<1> HIDE DEF u
<1>5. Safe(u) /\ Alive(u, c) /\ OwnOrigin(u, c)
  BY <1>3, <1>4 DEF On, OwnOrigin
<1>6. Arm("up", "down") \in SUBSET {R, W} /\ Arm("down", "up") \in SUBSET {R, W}
  OBVIOUS
<1> HIDE DEF Arm
<1>7. /\ On(u, v, c) /\ v.conn = u.conn /\ v.metrics = u.metrics /\ v.stopped = u.stopped
      /\ \A g \in Fd : v.item[g].owner = u.item[g].owner
  BY <1>5, <1>6, CopyInterestsSafe
<1> HIDE DEF v
<1>8. On(w, v, c)
  BY <1>4, <1>7, OnTrans
<1> QED
  BY <1>2, <1>3, <1>4, <1>7, <1>8

\* What copy_init leaves, whichever way it arms the two.
LEMMA CopyInitSafe ==
    ASSUME NEW w, NEW c \in Conn, Safe(w), Alive(w, c), OwnOrigin(w, c), NEW v \in copy_init(w, c)
    PROVE  /\ On(w, v, c)
           /\ v.conn[c].status = w.conn[c].status /\ v.conn[c].origin = w.conn[c].origin
           /\ v.metrics = w.metrics /\ v.stopped = w.stopped
           /\ \A g \in Fd : v.item[g].owner = w.item[g].owner
<1>1. CASE w.conn[c].origin = None
  <2>1. PICK i \in {{}, {R}} : v = copy_interests(w, c, i, {})
    BY <1>1 DEF copy_init
  <2>2. i \in SUBSET {R, W} /\ {} \in SUBSET {R, W}
    OBVIOUS
  <2> QED
    BY <2>1, <2>2, CopyInterestsSafe
<1>2. CASE w.conn[c].origin # None
  <2>1. PICK a \in CopyArms : v = Relay(w, c, {"up", "down"}, [up |-> a, down |-> {R}])
    BY <1>2 DEF copy_init
  <2>2. {"up", "down"} \in SUBSET {"up", "down"}
    OBVIOUS
  <2> QED
    BY <2>1, <2>2, RelaySafe
<1> QED
  BY <1>1, <1>2

\* The struct for a new connection, free, and the first of the pool if there
\* is one.
Spare(w, c) == ~w.conn[c].live /\ (w.pool # << >> => c = Head(w.pool))

Rest(w) == IF w.pool # << >> THEN Tail(w.pool) ELSE w.pool

\* The pool without it.
LEMMA RestSound ==
    ASSUME NEW w, NEW c \in Conn, Basic(w), Spare(w, c)
    PROVE  /\ Rest(w) \in Seq(Conn)
           /\ \A i, j \in 1..Len(Rest(w)) : Rest(w)[i] = Rest(w)[j] => i = j
           /\ \A i \in 1..Len(Rest(w)) :
                Rest(w)[i] \in Conn \ {c} /\ ~w.conn[Rest(w)[i]].live
<1>1. /\ w.pool \in Seq(Conn)
      /\ \A i, j \in 1..Len(w.pool) : w.pool[i] = w.pool[j] => i = j
      /\ \A i \in 1..Len(w.pool) : ~w.conn[w.pool[i]].live
  BY DEF Basic, WorldType
<1>2. CASE w.pool = << >>
  BY <1>2 DEF Rest
<1>3. CASE w.pool # << >>
  <2>1. Rest(w) = Tail(w.pool)
    BY <1>3 DEF Rest
  <2>2. /\ Tail(w.pool) \in Seq(Conn) /\ Len(Tail(w.pool)) = Len(w.pool) - 1
        /\ Len(w.pool) \in Nat \ {0} /\ Head(w.pool) = w.pool[1]
        /\ \A i \in 1..Len(Tail(w.pool)) : Tail(w.pool)[i] = w.pool[i + 1]
    BY <1>1, <1>3, HeadTailProperties, LenProperties, EmptySeq
  <2>3. c = w.pool[1]
    BY <1>3, <2>2 DEF Spare
  <2>4. ASSUME NEW i \in 1..Len(Tail(w.pool))
        PROVE  i + 1 \in 1..Len(w.pool) /\ 1 \in 1..Len(w.pool) /\ i + 1 # 1
    BY <2>2
  <2>5. ASSUME NEW i \in 1..Len(Tail(w.pool))
        PROVE  Tail(w.pool)[i] \in Conn \ {c} /\ ~w.conn[Tail(w.pool)[i]].live
    <3>1. Tail(w.pool)[i] \in Conn
      BY <2>2, ElementOfSeq
    <3>2. Tail(w.pool)[i] = w.pool[i + 1]
      BY <2>2
    <3>3. w.pool[i + 1] # w.pool[1] /\ ~w.conn[w.pool[i + 1]].live
      BY <1>1, <2>4
    <3> QED
      BY <2>3, <3>1, <3>2, <3>3
  <2>6. ASSUME NEW i \in 1..Len(Tail(w.pool)), NEW j \in 1..Len(Tail(w.pool)),
               Tail(w.pool)[i] = Tail(w.pool)[j]
        PROVE  i = j
    <3>1. w.pool[i + 1] = w.pool[j + 1]
      BY <2>2, <2>6
    <3>2. i + 1 = j + 1
      BY <1>1, <2>4, <3>1
    <3> QED
      BY <2>2, <3>2
  <2> QED
    BY <2>1, <2>2, <2>5, <2>6
<1> QED
  BY <1>2, <1>3

\* A struct that is not in use has no entry and no descriptor.
LEMMA SpareUnused ==
    ASSUME NEW w, NEW c \in Conn, Basic(w), ~w.conn[c].live
    PROVE  Owned(w, c) = {} /\ ~Alive(w, c)
<1>1. \A f \in Fd : w.item[f].owner # c
  BY ConnAssumption DEF Basic, None
<1> QED
  BY <1>1 DEF Owned, Alive

\* The struct of a connection just accepted on descriptor f.
New(f) == [Blank EXCEPT !.live = TRUE, !.client = f, !.refs = 1]

\* socks5_new.
LEMMA NewIs ==
    ASSUME NEW w, NEW c \in Conn, Safe(w), Spare(w, c), NEW f \in FreeFds(w)
    PROVE  LET n == socks5_new([w EXCEPT !.sock[f] = "client"], c, f)
           IN /\ n \in WorldType /\ n.item = w.item /\ n.pool = Rest(w)
              /\ n.metrics = w.metrics /\ n.stopped = w.stopped
              /\ \A g \in Fd \ {f} : n.sock[g] = w.sock[g]
              /\ n.sock[f] = "client"
              /\ \A d \in Conn \ {c} : n.conn[d] = w.conn[d]
              /\ n.conn[c] = New(f)
<1> DEFINE u == [w EXCEPT !.sock[f] = "client"]
           n == socks5_new(u, c, f)
<1>1. /\ w \in WorldType /\ w.conn \in [Conn -> ConnType] /\ w.sock \in [Fd -> SockType]
      /\ f \in Fd /\ w.pool \in Seq(Conn)
  BY DEF Safe, Basic, WorldType, FreeFds
<1>2. New(f) \in ConnType
  <2>1. Blank \in ConnType
    BY MaxAddrsAssumption DEF Blank, ConnType, Stages
  <2> QED
    BY <1>1, <2>1 DEF New, ConnType
<1>3. Rest(w) \in Seq(Conn)
  BY RestSound DEF Safe
<1>4. /\ u.conn = w.conn /\ u.item = w.item /\ u.pool = w.pool
      /\ u.pool_size = w.pool_size
      /\ u.metrics = w.metrics /\ u.stopped = w.stopped
      /\ u.sock = [w.sock EXCEPT ![f] = "client"] /\ u \in WorldType
  <2>1. [w.sock EXCEPT ![f] = "client"] \in [Fd -> SockType]
    BY <1>1 DEF SockType
  <2> QED
    BY <1>1, <2>1 DEF WorldType
<1> HIDE DEF u
<1>5. n = [u EXCEPT !.pool = Rest(w), !.conn[c] = New(f)]
  BY <1>4 DEF socks5_new, Rest, New
<1> HIDE DEF n
<1>6. [u.conn EXCEPT ![c] = New(f)] \in [Conn -> ConnType]
  BY <1>1, <1>2, <1>4
<1>7. n \in WorldType
  BY <1>3, <1>4, <1>5, <1>6 DEF WorldType
<1>8. /\ n.item = w.item /\ n.pool = Rest(w)
      /\ n.metrics = w.metrics /\ n.stopped = w.stopped
      /\ n.sock = [w.sock EXCEPT ![f] = "client"]
      /\ n.conn = [w.conn EXCEPT ![c] = New(f)]
  BY <1>4, <1>5 DEF WorldType
<1> QED
  BY <1>1, <1>7, <1>8 DEF n, u

\* A connection is accepted: it is registered, alone in its use of f.
LEMMA AcceptSafe ==
    ASSUME NEW w, NEW c \in Conn, Safe(w), Spare(w, c), NEW f \in FreeFds(w),
           ~ITEM_USED(w, f)
    PROVE  LET v == selector_register(socks5_new([w EXCEPT !.sock[f] = "client"], c, f),
                                      f, c, {R})
           IN /\ Safe(v) /\ Frame(w, v, c) /\ Alive(v, c) /\ v.conn[c] = New(f)
              /\ v.metrics = w.metrics /\ v.stopped = w.stopped
<1> DEFINE n == socks5_new([w EXCEPT !.sock[f] = "client"], c, f)
           e == [owner |-> c, int |-> {R}]
           v == selector_register(n, f, c, {R})
<1>1. /\ n \in WorldType /\ n.item = w.item /\ n.pool = Rest(w)
      /\ n.metrics = w.metrics /\ n.stopped = w.stopped
      /\ \A g \in Fd \ {f} : n.sock[g] = w.sock[g]
      /\ n.sock[f] = "client"
      /\ \A d \in Conn \ {c} : n.conn[d] = w.conn[d]
      /\ n.conn[c] = New(f)
  BY NewIs
<1>2. /\ w \in WorldType /\ w.item \in [Fd -> ItemType] /\ f \in Fd /\ w.item[f].owner = None
      /\ w.sock[f] = "free" /\ None \notin Conn
      /\ Owned(w, c) = {} /\ ~Alive(w, c)
  BY ConnAssumption, SpareUnused DEF Safe, Basic, WorldType, FreeFds, ITEM_USED, Spare, None
<1>3. v = [n EXCEPT !.item[f] = e]
  BY DEF selector_register
<1> HIDE DEF n
<1>4. e \in ItemType /\ e.owner = c /\ e.int = {R}
  BY DEF ItemType
<1> HIDE DEF e
<1>5. [w.item EXCEPT ![f] = e] \in [Fd -> ItemType]
  BY <1>2, <1>4
<1>6. v \in WorldType
  <2>1. [n.item EXCEPT ![f] = e] \in [Fd -> ItemType] /\ n \in WorldType
    BY <1>1, <1>5
  <2> HIDE DEF v
  <2> QED
    BY ONLY <1>3, <2>1 DEF WorldType
<1>7. /\ v.conn = n.conn /\ v.sock = n.sock /\ v.pool = Rest(w)
      /\ v.metrics = w.metrics /\ v.stopped = w.stopped
      /\ v.item = [w.item EXCEPT ![f] = e]
  BY <1>1, <1>3 DEF WorldType
<1>8. v.item[f] = e /\ \A g \in Fd \ {f} : v.item[g] = w.item[g]
  BY <1>2, <1>7
<1> HIDE DEF v
<1>9. /\ New(f).client = f /\ New(f).origin = None /\ New(f).refs = 1 /\ New(f).live
      /\ ~New(f).thread
  BY DEF New, Blank
<1>10. Alive(v, c)
  BY <1>1, <1>2, <1>4, <1>7, <1>8, <1>9 DEF Alive
<1>11. ASSUME NEW d \in Conn \ {c} PROVE Alive(v, d) <=> Alive(w, d)
  <2>1. v.conn[d] = w.conn[d]
    BY <1>1, <1>7
  <2> QED
    BY <1>2, <1>4, <1>8, <2>1 DEF Alive
<1>12. /\ \A d \in Conn \ {c} : \A g : Uses(v, d, g) <=> Uses(w, d, g)
       /\ \A g \in Fd : Uses(v, c, g) <=> g = f
  BY <1>1, <1>2, <1>7, <1>9, <1>10, <1>11 DEF Uses, None, Fd
<1>13. \A d \in Conn : ~Uses(w, d, f)
  BY <1>2 DEF Safe, Links
<1>14. Owned(v, c) = {f} /\ \A d \in Conn \ {c} : Owned(v, d) = Owned(w, d)
  BY <1>2, <1>4, <1>8 DEF Owned
<1>15. Basic(v)
  <2>1. ASSUME NEW d \in Conn PROVE v.conn[d].refs >= Cardinality(Owned(v, d))
    <3>1. CASE d = c
      <4>1. Cardinality({f}) = 1
        BY FS_Singleton
      <4> QED
        BY <1>1, <1>7, <1>9, <1>14, <3>1, <4>1
    <3>2. CASE d # c
      BY <1>1, <1>7, <1>14, <3>2 DEF Safe, Basic
    <3> QED
      BY <3>1, <3>2
  <2>2. ASSUME NEW g \in Fd, v.item[g].owner # None PROVE v.conn[v.item[g].owner].live
    <3>1. CASE g = f
      BY <1>1, <1>4, <1>7, <1>8, <1>9, <3>1
    <3>2. CASE g # f
      <4>1. /\ v.item[g] = w.item[g] /\ w.item[g].owner \in Conn
            /\ w.conn[w.item[g].owner].live
        BY <1>2, <1>8, <2>2, <3>2 DEF Safe, Basic, ItemType
      <4>2. w.item[g].owner # c
        BY <4>1 DEF Spare
      <4> QED
        BY <1>1, <1>7, <4>1, <4>2
    <3> QED
      BY <3>1, <3>2
  <2>3. \A g \in Fd : v.item[g].owner = None => v.item[g].int = {}
    BY <1>2, <1>4, <1>8 DEF Safe, Basic
  <2>4. \A g \in Fd : v.item[g].int # {} => v.sock[g] # "free"
    BY <1>1, <1>7, <1>8 DEF Safe, Basic
  <2>5. /\ \A i, j \in 1..Len(v.pool) : v.pool[i] = v.pool[j] => i = j
        /\ \A i \in 1..Len(v.pool) : ~v.conn[v.pool[i]].live
    <3>1. /\ \A i, j \in 1..Len(Rest(w)) : Rest(w)[i] = Rest(w)[j] => i = j
          /\ \A i \in 1..Len(Rest(w)) :
               Rest(w)[i] \in Conn \ {c} /\ ~w.conn[Rest(w)[i]].live
      BY RestSound DEF Safe
    <3> QED
      BY <1>1, <1>7, <3>1
  <2> QED
    BY <1>6, <2>1, <2>2, <2>3, <2>4, <2>5 DEF Basic
<1>16. Links(v)
  <2>1. ASSUME NEW g \in Fd, v.item[g].int # {} PROVE Uses(v, v.item[g].owner, g)
    <3>1. CASE g = f
      BY <1>4, <1>8, <1>12, <3>1
    <3>2. CASE g # f
      <4>1. v.item[g] = w.item[g] /\ w.item[g].owner \in Conn /\ Uses(w, w.item[g].owner, g)
        BY <1>2, <1>8, <2>1, <3>2 DEF Safe, Basic, Links, ItemType
      <4>2. w.item[g].owner # c
        BY <1>2, <4>1 DEF Uses
      <4> QED
        BY <1>12, <4>1, <4>2
    <3> QED
      BY <3>1, <3>2
  <2>2. ASSUME NEW d \in Conn, NEW g \in Fd, Uses(v, d, g) PROVE v.sock[g] # "free"
    <3>1. CASE g = f
      BY <1>1, <1>7, <3>1
    <3>2. CASE g # f
      BY <1>1, <1>7, <1>12, <2>2, <3>2 DEF Safe, Links
    <3> QED
      BY <3>1, <3>2
  <2>3. ASSUME NEW d \in Conn, Alive(v, d) PROVE v.conn[d].client # v.conn[d].origin
    <3>1. CASE d = c
      BY <1>1, <1>2, <1>7, <1>9, <3>1 DEF None, Fd
    <3>2. CASE d # c
      BY <1>1, <1>7, <1>11, <2>3, <3>2 DEF Safe, Links
    <3> QED
      BY <3>1, <3>2
  <2>4. ASSUME NEW d \in Conn, NEW x \in Conn, NEW g \in Fd, Uses(v, d, g), Uses(v, x, g)
        PROVE  d = x
    BY <1>12, <1>13, <2>4 DEF Safe, Links
  <2> QED
    BY <2>1, <2>2, <2>3, <2>4 DEF Links
<1>17. Frame(w, v, c)
  BY <1>1, <1>7, <1>8, <1>11, <1>13 DEF Frame, SameButRefs
<1> QED
  BY <1>1, <1>7, <1>10, <1>15, <1>16, <1>17 DEF Safe, v, n

\* A connection is turned away: its descriptor's entry is still in use.
LEMMA RefuseSafe ==
    ASSUME NEW w, NEW c \in Conn, Safe(w), Spare(w, c), NEW f \in FreeFds(w), ITEM_USED(w, f)
    PROVE  LET v == socks5_destroy(close(socks5_new([w EXCEPT !.sock[f] = "client"], c, f), f), c)
           IN /\ Safe(v) /\ Frame(w, v, c) /\ ~Alive(v, c) /\ v.conn[c] = Blank
              /\ v.metrics = w.metrics /\ v.stopped = w.stopped
<1> DEFINE n == socks5_new([w EXCEPT !.sock[f] = "client"], c, f)
           b == close(n, f)
           v == socks5_destroy(b, c)
<1>1. /\ n \in WorldType /\ n.item = w.item /\ n.pool = Rest(w)
      /\ n.metrics = w.metrics /\ n.stopped = w.stopped
      /\ \A g \in Fd \ {f} : n.sock[g] = w.sock[g]
      /\ \A d \in Conn \ {c} : n.conn[d] = w.conn[d]
      /\ n.conn[c] = New(f)
  BY NewIs
<1>2. /\ w \in WorldType /\ f \in Fd /\ w.sock[f] = "free" /\ None \notin Conn
      /\ None \notin Fd /\ Owned(w, c) = {} /\ ~Alive(w, c) /\ ~w.conn[c].live
  BY ConnAssumption, SpareUnused DEF Safe, Basic, FreeFds, Spare, None, Fd
<1> HIDE DEF n
<1>3. /\ b \in WorldType /\ b.item = w.item /\ b.pool = Rest(w) /\ b.conn = n.conn
      /\ b.metrics = w.metrics /\ b.stopped = w.stopped
      /\ \A g \in Fd : b.sock[g] = w.sock[g]
  <2>1. b = [n EXCEPT !.sock[f] = "free"]
    BY <1>2 DEF close, None
  <2>2. n.sock \in [Fd -> SockType] /\ [n.sock EXCEPT ![f] = "free"] \in [Fd -> SockType]
    BY <1>1, <1>2 DEF WorldType, SockType
  <2>3. /\ b.item = n.item /\ b.pool = n.pool /\ b.conn = n.conn
        /\ b.metrics = n.metrics /\ b.stopped = n.stopped
        /\ b.sock = [n.sock EXCEPT ![f] = "free"]
    BY <1>1, <2>1 DEF WorldType
  <2>4. b \in WorldType
    BY <1>1, <2>1, <2>2 DEF WorldType
  <2> QED
    BY <1>1, <1>2, <2>2, <2>3, <2>4
<1> HIDE DEF b
<1>4. New(f).refs = 1
  BY DEF New, Blank
<1>5. /\ v \in WorldType /\ v.item = w.item /\ v.sock = b.sock
      /\ v.metrics = w.metrics /\ v.stopped = w.stopped
      /\ \A d \in Conn \ {c} : v.conn[d] = w.conn[d]
      /\ v.conn[c] = Blank
      /\ v.pool = Rest(w) \/ v.pool = <<c>> \o Rest(w)
  BY <1>1, <1>3, <1>4, DestroyType
<1> HIDE DEF v
<1>6. Blank.refs = 0 /\ ~Blank.live /\ Blank.client = None /\ ~Blank.thread
  BY DEF Blank
<1>7. ~Alive(v, c)
  BY <1>2, <1>5, <1>6 DEF Alive
<1>8. \A d \in Conn \ {c} : Alive(v, d) <=> Alive(w, d)
  BY <1>5 DEF Alive
<1>9. \A d \in Conn, g \in Fd : Uses(v, d, g) => d # c /\ Uses(w, d, g)
  BY <1>5, <1>7, <1>8 DEF Uses
<1>10. \A d \in Conn : Owned(v, d) = Owned(w, d)
  BY <1>5 DEF Owned
<1>11. \A g \in Fd : w.item[g].owner # c
  BY <1>2 DEF Owned
<1>12. Basic(v)
  <2>1. ASSUME NEW d \in Conn PROVE v.conn[d].refs >= Cardinality(Owned(v, d))
    <3>1. CASE d = c
      <4>1. Owned(v, c) = {} /\ Cardinality({}) = 0
        BY <1>2, <1>10, FS_EmptySet
      <4> QED
        BY <1>5, <1>6, <3>1, <4>1
    <3>2. CASE d # c
      BY <1>5, <1>10, <3>2 DEF Safe, Basic
    <3> QED
      BY <3>1, <3>2
  <2>2. ASSUME NEW g \in Fd, v.item[g].owner # None PROVE v.conn[v.item[g].owner].live
    <3>1. w.item[g].owner \in Conn /\ w.conn[w.item[g].owner].live
      BY <1>2, <1>5, <2>2 DEF Safe, Basic, WorldType, ItemType
    <3> QED
      BY <1>5, <1>11, <3>1
  <2>3. \A g \in Fd : v.item[g].int # {} => v.sock[g] # "free"
    BY <1>3, <1>5 DEF Safe, Basic
  <2>4. /\ Rest(w) \in Seq(Conn)
        /\ \A i, j \in 1..Len(Rest(w)) : Rest(w)[i] = Rest(w)[j] => i = j
        /\ \A i \in 1..Len(Rest(w)) : Rest(w)[i] \in Conn \ {c} /\ ~w.conn[Rest(w)[i]].live
    BY RestSound DEF Safe
  <2>5. /\ \A i, j \in 1..Len(v.pool) : v.pool[i] = v.pool[j] => i = j
        /\ \A i \in 1..Len(v.pool) : ~v.conn[v.pool[i]].live
    <3>1. CASE v.pool = Rest(w)
      BY <1>5, <2>4, <3>1
    <3>2. CASE v.pool = <<c>> \o Rest(w)
      <4> DEFINE q == Rest(w)
      <4>1. /\ Len(v.pool) = Len(q) + 1 /\ v.pool[1] = c /\ Len(q) \in Nat
            /\ \A i \in 1..(Len(q) + 1) :
                 i = 1 \/ ((i - 1) \in 1..Len(q) /\ v.pool[i] = q[i - 1])
        BY <2>4, <3>2, Pushed, LenProperties
      <4>2. \A i \in 1..Len(q) : q[i] \in Conn \ {c} /\ ~w.conn[q[i]].live
        BY <2>4
      <4>3. \A i, j \in 1..Len(q) : q[i] = q[j] => i = j
        BY <2>4
      <4> HIDE DEF q
      <4>4. ASSUME NEW i \in 1..Len(v.pool) PROVE ~v.conn[v.pool[i]].live
        <5>1. CASE i = 1
          BY <1>5, <1>6, <4>1, <5>1
        <5>2. CASE i # 1
          <6>1. (i - 1) \in 1..Len(q) /\ v.pool[i] = q[i - 1]
            BY <4>1, <5>2
          <6>2. v.pool[i] \in Conn \ {c} /\ ~w.conn[v.pool[i]].live
            BY <4>2, <6>1
          <6> QED
            BY <1>5, <6>2
        <5> QED
          BY <5>1, <5>2
      <4>5. ASSUME NEW i \in 1..Len(v.pool), NEW j \in 1..Len(v.pool), v.pool[i] = v.pool[j]
            PROVE  i = j
        <5>1. CASE i = 1 \/ j = 1
          <6>1. i \in 1..(Len(q) + 1) /\ j \in 1..(Len(q) + 1)
            BY <4>1
          <6>2. CASE i = 1
            BY <4>1, <4>2, <4>5, <6>1, <6>2
          <6>3. CASE j = 1
            BY <4>1, <4>2, <4>5, <6>1, <6>3
          <6> QED
            BY <5>1, <6>2, <6>3
        <5>2. CASE i # 1 /\ j # 1
          <6>1. /\ (i - 1) \in 1..Len(q) /\ (j - 1) \in 1..Len(q)
                /\ q[i - 1] = q[j - 1]
            BY <4>1, <4>5, <5>2
          <6> QED
            BY <4>1, <4>3, <6>1
        <5> QED
          BY <5>1, <5>2
      <4> QED
        BY <4>4, <4>5
    <3> QED
      BY <1>5, <3>1, <3>2
  <2>6. \A g \in Fd : v.item[g].owner = None => v.item[g].int = {}
    BY <1>5 DEF Safe, Basic
  <2> QED
    BY <1>5, <2>1, <2>2, <2>3, <2>5, <2>6 DEF Basic
<1>13. Links(v)
  <2>1. ASSUME NEW g \in Fd, v.item[g].int # {} PROVE Uses(v, v.item[g].owner, g)
    <3>1. Uses(w, w.item[g].owner, g) /\ w.item[g].owner \in Conn
      BY <1>2, <1>5, <2>1 DEF Safe, Basic, Links, WorldType, ItemType
    <3> QED
      BY <1>5, <1>8, <1>11, <3>1 DEF Uses
  <2>2. ASSUME NEW d \in Conn, Alive(v, d) PROVE v.conn[d].client # v.conn[d].origin
    BY <1>5, <1>7, <1>8, <2>2 DEF Safe, Links
  <2> QED
    BY <1>3, <1>5, <1>9, <2>1, <2>2 DEF Safe, Links
<1>14. Frame(w, v, c)
  BY <1>5, <1>8 DEF Frame, SameButRefs
<1> QED
  BY <1>5, <1>7, <1>12, <1>13, <1>14 DEF Safe, v, b, n

-----------------------------------------------------------------------------
(* The life of a connection *)

\* The stages in which a connection has no origin yet, and the ones that are
\* reached only after the login the negotiated method asks for.
Early == {"HELLO_READ", "HELLO_WRITE", "USERPASS_READ", "USERPASS_WRITE", "REQUEST_READ",
          "REQUEST_RESOLV"}
Late == {"REQUEST_READ", "REQUEST_RESOLV", "REQUEST_CONNECTING", "REQUEST_WRITE", "COPY"}

\* What each stage is entered with.
Staged(x) ==
    /\ x.st \notin {"DONE", "ERROR"}
    /\ x.st \in Early => x.origin = None /\ x.refs = 1
    /\ x.st = "COPY" => x.status = "ok"
    /\ x.st = "HELLO_WRITE" => x.method \in Methods
    /\ x.st \in {"USERPASS_READ", "USERPASS_WRITE"} => x.method = "user"
    /\ x.st \in Late => x.method = "none" \/ (x.method = "user" /\ x.auth = "granted")
    /\ x.st = "REQUEST_WRITE" => x.replies > 0

\* An origin that no failure was seen of has its own entry.
Sound(w, c) == Staged(w.conn[c]) /\ (w.conn[c].status = "ok" => OwnOrigin(w, c))

Resolving(w, c) == Alive(w, c) /\ w.conn[c].st = "REQUEST_RESOLV"

Conns(w) ==
    /\ \A c \in Conn : Alive(w, c) => Sound(w, c)
    /\ \A c \in Conn : w.conn[c].thread => Resolving(w, c)

\* The connection whose client f is waits for its notification.
Waiting(w, f) ==
    LET c == w.item[f].owner
    IN /\ c \in Conn /\ w.conn[c].client = f
       /\ w.conn[c].st = "REQUEST_RESOLV" /\ ~w.conn[c].thread

Queued(w, q) ==
    /\ q \in Seq(Fd)
    /\ \A i \in 1..Len(q) : Waiting(w, q[i])
    /\ \A i, j \in 1..Len(q) : q[i] = q[j] => i = j

\* The connections counted as concurrent, and those whose attempt is counted
\* and not decided.
Rel(w) == {c \in Conn : /\ Alive(w, c) /\ w.conn[c].origin # None
                        /\ \/ w.conn[c].st = "COPY"
                           \/ w.conn[c].st = "REQUEST_WRITE" /\ w.conn[c].status = "ok"}
Pend(w) == {c \in Conn : /\ Alive(w, c) /\ w.conn[c].st = "REQUEST_CONNECTING"
                         /\ w.conn[c].status = "ok"}

Counted(w) ==
    /\ Cardinality(Rel(w)) <= w.metrics.concurrent
    /\ w.metrics.concurrent <= w.metrics.max
    /\ w.metrics.max <= w.metrics.historic
    /\ w.metrics.historic + Cardinality(Pend(w)) <= w.metrics.attempts

\* How a handler of c may move the metrics: not at all, by an attempt, by a
\* connection that succeeded, by the end of one that was relayed.
Counts(w, v, c) ==
    \/ /\ v.metrics = w.metrics
       /\ c \in Rel(v) => c \in Rel(w)
       /\ c \in Pend(v) => c \in Pend(w)
    \/ /\ v.metrics = [w.metrics EXCEPT !.attempts = @ + 1]
       /\ c \in Rel(v) => c \in Rel(w)
    \/ LET n == w.metrics.concurrent + 1
       IN /\ v.metrics = [attempts |-> w.metrics.attempts,
                          historic |-> w.metrics.historic + 1, concurrent |-> n,
                          max |-> IF n > w.metrics.max THEN n ELSE w.metrics.max]
          /\ c \in Pend(w) /\ c \notin Pend(v)
    \/ /\ v.metrics = [w.metrics EXCEPT !.concurrent = @ - 1]
       /\ c \in Rel(w) /\ c \notin Rel(v) /\ c \notin Pend(v)

\* What a handler of c does to the world.
Serves(w, v, c) ==
    /\ Safe(v) /\ Frame(w, v, c) /\ Counts(w, v, c)
    /\ Alive(v, c) => Sound(v, c)
    /\ v.conn[c].thread => Resolving(v, c)

\* The others keep what their stages rely on.
LEMMA FrameConns ==
    ASSUME NEW w, NEW v, NEW c \in Conn, Safe(w), Safe(v), Conns(w), Frame(w, v, c),
           Alive(v, c) => Sound(v, c), v.conn[c].thread => Resolving(v, c)
    PROVE  Conns(v)
<1>1. ASSUME NEW d \in Conn \ {c}, Alive(v, d) PROVE Sound(v, d)
  <2>1. /\ Alive(w, d) /\ Sound(w, d) /\ SameButRefs(v.conn[d], w.conn[d])
        /\ w.conn[d].refs = 1 => v.conn[d].refs = 1
        /\ w.conn[d].origin \in Fd \cup {None}
    BY <1>1 DEF Frame, Conns, Safe, Basic, WorldType, ConnType
  <2>2. /\ v.conn[d].st = w.conn[d].st /\ v.conn[d].origin = w.conn[d].origin
        /\ v.conn[d].status = w.conn[d].status /\ v.conn[d].method = w.conn[d].method
        /\ v.conn[d].auth = w.conn[d].auth /\ v.conn[d].replies = w.conn[d].replies
    BY <2>1 DEF SameButRefs, Fields
  <2>3. Staged(v.conn[d])
    BY <2>1, <2>2 DEF Sound, Staged
  <2>4. \A f \in Fd : f = w.conn[d].origin => v.item[f] = w.item[f]
    BY <2>1 DEF Frame, Uses
  <2>5. OwnOrigin(w, d) => OwnOrigin(v, d)
    BY <2>1, <2>2, <2>4 DEF OwnOrigin
  <2> QED
    BY <2>1, <2>2, <2>3, <2>5 DEF Sound
<1>2. ASSUME NEW d \in Conn \ {c}, v.conn[d].thread PROVE Resolving(v, d)
  <2>1. w.conn[d].thread /\ Alive(w, d) /\ w.conn[d].st = "REQUEST_RESOLV"
    BY <1>2 DEF Frame, Conns, Resolving
  <2>2. Alive(v, d) /\ SameButRefs(v.conn[d], w.conn[d])
    BY <2>1 DEF Frame
  <2> QED
    BY <2>1, <2>2 DEF Resolving, SameButRefs, Fields
<1> QED
  BY <1>1, <1>2 DEF Conns

\* Notifications for the others stay valid.
LEMMA FrameQueued ==
    ASSUME NEW w, NEW v, NEW c \in Conn, NEW q, Safe(w), Safe(v), Queued(w, q), Frame(w, v, c),
           \A i \in 1..Len(q) : w.item[q[i]].owner # c
    PROVE  Queued(v, q)
<1> SUFFICES ASSUME NEW i \in 1..Len(q) PROVE Waiting(v, q[i])
  BY DEF Queued
<1> DEFINE f == q[i]
           d == w.item[f].owner
<1>1. f \in Fd
  BY ElementOfSeq DEF Queued
<1>2. /\ d \in Conn \ {c} /\ w.conn[d].client = f
      /\ w.conn[d].st = "REQUEST_RESOLV" /\ ~w.conn[d].thread
  BY DEF Queued, Waiting
<1> HIDE DEF f
<1>3. Alive(w, d) /\ Uses(w, d, f)
  BY <1>1, <1>2 DEF Alive, Uses
<1>4. v.item[f] = w.item[f] /\ SameButRefs(v.conn[d], w.conn[d])
  BY <1>1, <1>2, <1>3 DEF Frame
<1> QED
  BY <1>2, <1>4 DEF Waiting, SameButRefs, Fields, f

\* The sets the metrics count.
LEMMA CountedFinite ==
    ASSUME NEW w
    PROVE  /\ IsFiniteSet(Rel(w)) /\ Cardinality(Rel(w)) \in Nat
           /\ IsFiniteSet(Pend(w)) /\ Cardinality(Pend(w)) \in Nat
<1>1. IsFiniteSet(Conn)
  BY ConnAssumption
<1>2. Rel(w) \subseteq Conn /\ Pend(w) \subseteq Conn
  BY DEF Rel, Pend
<1> QED
  BY <1>1, <1>2, FS_Subset, FS_CardinalityType

\* The others are counted as before.
LEMMA FrameCounts ==
    ASSUME NEW w, NEW v, NEW c \in Conn, Frame(w, v, c), NEW d \in Conn \ {c}
    PROVE  (d \in Rel(v) <=> d \in Rel(w)) /\ (d \in Pend(v) <=> d \in Pend(w))
<1>1. Alive(v, d) <=> Alive(w, d)
  BY DEF Frame
<1>2. Alive(w, d) => /\ v.conn[d].st = w.conn[d].st /\ v.conn[d].origin = w.conn[d].origin
                     /\ v.conn[d].status = w.conn[d].status
  BY DEF Frame, SameButRefs, Fields
<1> QED
  BY <1>1, <1>2 DEF Rel, Pend

\* A set that has at most c more than another has at most one element more.
LEMMA OneMore ==
    ASSUME NEW S, NEW T, NEW c, IsFiniteSet(S), T \subseteq S \cup {c}
    PROVE  /\ IsFiniteSet(T) /\ Cardinality(T) \in Nat /\ Cardinality(S) \in Nat
           /\ Cardinality(T) <= Cardinality(S) + 1
           /\ c \notin T \/ c \in S => Cardinality(T) <= Cardinality(S)
           /\ c \in S /\ c \notin T => Cardinality(T) <= Cardinality(S) - 1
<1>1. IsFiniteSet(S \cup {c}) /\ Cardinality(S) \in Nat
      /\ Cardinality(S \cup {c}) = IF c \in S THEN Cardinality(S) ELSE Cardinality(S) + 1
  BY FS_AddElement, FS_CardinalityType
<1>2. IsFiniteSet(T) /\ Cardinality(T) <= Cardinality(S \cup {c}) /\ Cardinality(T) \in Nat
  BY <1>1, FS_Subset, FS_CardinalityType
<1>3. ASSUME c \notin T \/ c \in S PROVE Cardinality(T) <= Cardinality(S)
  <2>1. T \subseteq S
    BY <1>3
  <2> QED
    BY <2>1, FS_Subset
<1>4. ASSUME c \in S, c \notin T PROVE Cardinality(T) <= Cardinality(S) - 1
  <2>1. T \subseteq S \ {c}
    BY <1>4
  <2>2. IsFiniteSet(S \ {c}) /\ Cardinality(S \ {c}) = Cardinality(S) - 1
    BY <1>4, FS_RemoveElement
  <2> QED
    BY <2>1, <2>2, FS_Subset
<1> QED
  BY <1>1, <1>2, <1>3, <1>4

\* The metrics keep their order.
LEMMA CountsKept ==
    ASSUME NEW w, NEW v, NEW c \in Conn, Safe(w), Frame(w, v, c), Counted(w), Counts(w, v, c)
    PROVE  Counted(v)
<1> DEFINE m == w.metrics
           r == Cardinality(Rel(w))
           p == Cardinality(Pend(w))
<1>1. /\ m.attempts \in Nat /\ m.historic \in Nat /\ m.concurrent \in Int /\ m.max \in Nat
      /\ m = [attempts |-> m.attempts, historic |-> m.historic, concurrent |-> m.concurrent,
              max |-> m.max]
  BY DEF Safe, Basic, WorldType
<1>2. Rel(v) \subseteq Rel(w) \cup {c} /\ Pend(v) \subseteq Pend(w) \cup {c}
  BY FrameCounts DEF Rel, Pend
<1>3. /\ Cardinality(Rel(v)) \in Nat /\ r \in Nat /\ Cardinality(Rel(v)) <= r + 1
      /\ c \notin Rel(v) \/ c \in Rel(w) => Cardinality(Rel(v)) <= r
      /\ c \in Rel(w) /\ c \notin Rel(v) => Cardinality(Rel(v)) <= r - 1
  BY <1>2, CountedFinite, OneMore
<1>4. /\ Cardinality(Pend(v)) \in Nat /\ p \in Nat /\ Cardinality(Pend(v)) <= p + 1
      /\ c \notin Pend(v) \/ c \in Pend(w) => Cardinality(Pend(v)) <= p
      /\ c \in Pend(w) /\ c \notin Pend(v) => Cardinality(Pend(v)) <= p - 1
  BY <1>2, CountedFinite, OneMore
<1>5. r <= m.concurrent /\ m.concurrent <= m.max /\ m.max <= m.historic
      /\ m.historic + p <= m.attempts
  BY DEF Counted
<1> HIDE DEF m, r, p
<1>6. CASE v.metrics = m /\ (c \in Rel(v) => c \in Rel(w)) /\ (c \in Pend(v) => c \in Pend(w))
  BY <1>1, <1>3, <1>4, <1>5, <1>6 DEF Counted
<1>7. CASE v.metrics = [m EXCEPT !.attempts = @ + 1] /\ (c \in Rel(v) => c \in Rel(w))
  <2>1. /\ v.metrics.attempts = m.attempts + 1 /\ v.metrics.historic = m.historic
        /\ v.metrics.concurrent = m.concurrent /\ v.metrics.max = m.max
    BY <1>1, <1>7
  <2> QED
    BY <1>1, <1>3, <1>4, <1>5, <1>7, <2>1 DEF Counted
<1>8. CASE /\ v.metrics.attempts = m.attempts /\ v.metrics.historic = m.historic + 1
           /\ v.metrics.concurrent = m.concurrent + 1
           /\ v.metrics.max = IF m.concurrent + 1 > m.max THEN m.concurrent + 1 ELSE m.max
           /\ c \in Pend(w) /\ c \notin Pend(v)
  BY <1>1, <1>3, <1>4, <1>5, <1>8 DEF Counted
<1>9. CASE /\ v.metrics = [m EXCEPT !.concurrent = @ - 1]
           /\ c \in Rel(w) /\ c \notin Rel(v) /\ c \notin Pend(v)
  <2>1. /\ v.metrics.attempts = m.attempts /\ v.metrics.historic = m.historic
        /\ v.metrics.concurrent = m.concurrent - 1 /\ v.metrics.max = m.max
    BY <1>1, <1>9
  <2> QED
    BY <1>1, <1>3, <1>4, <1>5, <1>9, <2>1 DEF Counted
<1> QED
  BY <1>6, <1>7, <1>8, <1>9 DEF Counts, m

-----------------------------------------------------------------------------
(* The handlers, each for a connection that is served *)

\* A step of the login: the method, the verdict or the thread is noted, the
\* client is armed for i, and the next stage finds what it relies on.
LEMMA AdvanceServes ==
    ASSUME NEW w, NEW c \in Conn, Safe(w), Conns(w), Alive(w, c), w.conn[c].st \in Early,
           NEW k \in Fd, Uses(w, c, k), w.item[k].owner = c, NEW i \in SUBSET {R, W},
           NEW s \in Early, NEW r \in ConnType,
           \A g \in {"live", "client", "origin", "status", "refs", "replies"} :
              r[g] = w.conn[c][g],
           s = "HELLO_WRITE" => r.method \in Methods,
           s \in {"USERPASS_READ", "USERPASS_WRITE"} => r.method = "user",
           s \in Late => r.method = "none" \/ (r.method = "user" /\ r.auth = "granted"),
           r.thread => s = "REQUEST_RESOLV"
    PROVE  LET v == Stage(selector_set_interest([w EXCEPT !.conn[c] = r], k, i), c, s)
           IN /\ Serves(w, v, c) /\ v.stopped = w.stopped
              /\ Alive(v, c) /\ v.metrics = w.metrics /\ v.conn[c].st = s
<1> DEFINE u == [w EXCEPT !.conn[c] = r]
           b == selector_set_interest(u, k, i)
           v == Stage(b, c, s)
<1>1. /\ r.live = w.conn[c].live /\ r.client = w.conn[c].client
      /\ r.origin = w.conn[c].origin /\ r.refs = w.conn[c].refs
      /\ r.status = w.conn[c].status /\ r.refs >= w.conn[c].refs
  <2>1. /\ r.live = w.conn[c].live /\ r.client = w.conn[c].client
        /\ r.origin = w.conn[c].origin /\ r.refs = w.conn[c].refs
        /\ r.status = w.conn[c].status
    OBVIOUS
  <2>2. r.refs \in Nat
    BY DEF ConnType
  <2> QED
    BY <2>1, <2>2
<1>2. /\ Safe(u) /\ Frame(w, u, c) /\ Alive(u, c) /\ u.conn[c] = r /\ u.item = w.item
      /\ u.metrics = w.metrics /\ u.stopped = w.stopped
      /\ \A d \in Conn, f \in Fd : Uses(u, d, f) <=> Uses(w, d, f)
  BY <1>1, SetSafe
<1> HIDE DEF u
<1>3. Uses(u, c, k) /\ u.item[k].owner = c
  BY <1>2
<1>4. /\ On(u, b, c) /\ b.conn = u.conn
      /\ b.metrics = u.metrics /\ b.stopped = u.stopped
  BY <1>2, <1>3, InterestOn
<1> HIDE DEF b
<1>5. s \in Stages
  BY DEF Early, Stages
<1>6. /\ To(u, v, c, s) /\ v.conn[c].status = b.conn[c].status
      /\ v.conn[c].origin = b.conn[c].origin /\ v.conn[c].refs = b.conn[c].refs
      /\ v.metrics = b.metrics /\ v.stopped = b.stopped
  BY <1>2, <1>4, <1>5, StageTo
<1> HIDE DEF v
<1>7. /\ v.conn[c].st = s /\ v.conn[c].origin = w.conn[c].origin
      /\ v.conn[c].refs = w.conn[c].refs
      /\ v.conn[c].status = w.conn[c].status /\ v.conn[c].method = r.method
      /\ v.conn[c].auth = r.auth /\ v.conn[c].thread = r.thread
      /\ Safe(v) /\ Alive(v, c) /\ Frame(u, v, c)
      /\ v.metrics = w.metrics /\ v.stopped = w.stopped
  BY <1>1, <1>2, <1>4, <1>6 DEF To
<1>8. Frame(w, v, c)
  BY <1>2, <1>7, FrameTrans DEF Safe, Basic
<1>9. w.conn[c].origin = None /\ w.conn[c].refs = 1
  BY DEF Conns, Sound, Staged
<1>10. Sound(v, c)
  <2>1. Staged(v.conn[c])
    BY <1>7, <1>9 DEF Staged, Early
  <2> QED
    BY <1>7, <1>9, <2>1 DEF Sound, OwnOrigin
<1>11. c \notin Rel(v) /\ c \notin Pend(v)
  BY <1>7 DEF Rel, Pend, Early
<1> QED
  BY <1>7, <1>8, <1>10, <1>11 DEF Serves, Counts, Resolving, v, b, u

\* request_init fails: an error is queued, or a bad pointer ends the process.
LEMMA UnsentServes ==
    ASSUME NEW w, NEW c \in Conn, Safe(w), NEW b, Serves(w, b, c), Alive(b, c),
           b.metrics = w.metrics, b.conn[c].st = "REQUEST_READ",
           NEW v, v = [b EXCEPT !.stopped = "abort"] \/ v = error_handler(b, c)
    PROVE  /\ Serves(w, v, c) /\ v.stopped \in {b.stopped, "abort"}
           /\ Alive(v, c) /\ v.metrics = w.metrics /\ v.conn[c].st = "REQUEST_READ"
<1>1. /\ Safe(b) /\ Frame(w, b, c) /\ Staged(b.conn[c]) /\ ~b.conn[c].thread
      /\ b \in WorldType /\ b.conn[c].refs \in Nat
  BY DEF Serves, Sound, Resolving, Safe, Basic, WorldType, ConnType
<1>2. /\ Safe(v) /\ Frame(b, v, c) /\ Alive(v, c)
      /\ v.conn[c].st = b.conn[c].st /\ v.conn[c].origin = b.conn[c].origin
      /\ v.conn[c].refs = b.conn[c].refs /\ v.conn[c].thread = b.conn[c].thread
      /\ v.conn[c].method = b.conn[c].method /\ v.conn[c].auth = b.conn[c].auth
      /\ v.metrics = b.metrics /\ v.stopped \in {b.stopped, "abort"}
  <2>1. CASE v = [b EXCEPT !.stopped = "abort"]
    <3>1. /\ v \in WorldType /\ v.conn = b.conn /\ v.item = b.item /\ v.sock = b.sock
          /\ v.pool = b.pool /\ v.metrics = b.metrics /\ v.stopped = "abort"
      BY <1>1, <2>1 DEF WorldType
    <3>2. Touched(b, v, c)
      BY <1>1, <3>1 DEF Touched
    <3> QED
      BY <1>1, <3>1, <3>2, TouchSafe
  <2>2. CASE v = error_handler(b, c)
    <3>1. v \in {error_handler(b, c), error_handler_to_client(b, c)}
      BY <2>2
    <3> QED
      BY <1>1, <3>1, ErrorHandlers DEF On
  <2> QED
    BY <2>1, <2>2
<1>3. b.conn[c].origin = None /\ b.conn[c].refs = 1
  BY <1>1 DEF Staged, Early
<1>4. Sound(v, c)
  BY <1>1, <1>2, <1>3 DEF Staged, Sound, OwnOrigin
<1>5. Frame(w, v, c)
  BY <1>1, <1>2, FrameTrans DEF Safe, Basic
<1>6. c \notin Rel(v) /\ c \notin Pend(v)
  BY <1>2 DEF Rel, Pend
<1> QED
  BY <1>1, <1>2, <1>4, <1>5, <1>6 DEF Serves, Counts

\* A connection is torn down, whatever was called before in the handler.
LEMMA FinishServes ==
    ASSUME NEW w, NEW c \in Conn, Safe(w), Alive(w, c), ~w.conn[c].thread,
           NEW u, On(w, u, c), u.stopped # "abort", NEW s \in Stages,
           \/ u.metrics = w.metrics
           \/ u.metrics = [w.metrics EXCEPT !.concurrent = @ - 1] /\ c \in Rel(w)
    PROVE  LET v == socksv5_done(Stage(u, c, s), c)
           IN Serves(w, v, c) /\ v.stopped \in {u.stopped, "abort"}
<1> DEFINE b == Stage(u, c, s)
           v == socksv5_done(b, c)
<1>1. To(w, b, c, s) /\ b.metrics = u.metrics /\ b.stopped = u.stopped
  BY StageTo
<1> HIDE DEF b
<1>2. Safe(b) /\ Frame(w, b, c) /\ Alive(b, c) /\ ~b.conn[c].thread
  BY <1>1 DEF To
<1>3. /\ Safe(v) /\ Frame(b, v, c) /\ ~Alive(v, c)
      /\ v.metrics = b.metrics /\ v.stopped \in {b.stopped, "abort"}
      /\ v.conn[c] = Blank \/ SameButRefs(v.conn[c], b.conn[c])
  BY <1>1, <1>2, DoneSafe
<1> HIDE DEF v
<1>4. ~v.conn[c].thread
  BY <1>2, <1>3 DEF Blank, SameButRefs, Fields
<1>5. Frame(w, v, c)
  BY <1>2, <1>3, FrameTrans DEF Safe, Basic
<1>6. c \notin Rel(v) /\ c \notin Pend(v)
  BY <1>3 DEF Rel, Pend
<1>7. Counts(w, v, c)
  BY <1>1, <1>3, <1>6 DEF Counts
<1> QED
  BY <1>1, <1>3, <1>4, <1>5, <1>7 DEF Serves, v, b

\* The reply that says why there is no connection.
LEMMA FailedServes ==
    ASSUME NEW w, NEW c \in Conn, Safe(w), Conns(w), Alive(w, c), ~w.conn[c].thread,
           w.conn[c].st \in Late, NEW v, Failed(w, v, c)
    PROVE  Serves(w, v, c)
<1>1. /\ Safe(v) /\ Frame(w, v, c) /\ Alive(v, c) /\ v.conn[c].st = "REQUEST_WRITE"
      /\ v.conn[c].method = w.conn[c].method /\ v.conn[c].auth = w.conn[c].auth
      /\ ~v.conn[c].thread /\ v.conn[c].replies > 0 /\ v.metrics = w.metrics
      /\ v.conn[c].status = "err" \/ v.conn[c].origin = None
  BY DEF Failed, To
<1>2. Staged(w.conn[c])
  BY DEF Conns, Sound
<1>3. Staged(v.conn[c])
  BY <1>1, <1>2 DEF Staged, Late, Early
<1>4. Sound(v, c)
  BY <1>1, <1>3 DEF Sound, OwnOrigin
<1>5. c \notin Rel(v) /\ c \notin Pend(v)
  BY <1>1 DEF Rel, Pend
<1> QED
  BY <1>1, <1>4, <1>5 DEF Serves, Counts

\* The first attempt of a request.
LEMMA AttemptedServes ==
    ASSUME NEW w, NEW c \in Conn, Safe(w), Conns(w), Alive(w, c), ~w.conn[c].thread,
           w.conn[c].st \in Late, NEW v, Attempted(w, v, c)
    PROVE  Serves(w, v, c)
<1>1. /\ Safe(v) /\ Frame(w, v, c) /\ Alive(v, c) /\ v.conn[c].st = "REQUEST_CONNECTING"
      /\ v.conn[c].method = w.conn[c].method /\ v.conn[c].auth = w.conn[c].auth
      /\ ~v.conn[c].thread
      /\ v.conn[c].status = "ok" => OwnOrigin(v, c)
      /\ \/ v.metrics = w.metrics /\ v.conn[c].status = "err"
         \/ v.metrics = [w.metrics EXCEPT !.attempts = @ + 1]
  BY DEF Attempted, To, OwnOrigin
<1>2. Staged(w.conn[c])
  BY DEF Conns, Sound
<1>3. Staged(v.conn[c])
  BY <1>1, <1>2 DEF Staged, Late, Early
<1>4. c \notin Rel(v) /\ (c \in Pend(v) => v.conn[c].status # "err")
  BY <1>1 DEF Rel, Pend
<1> QED
  BY <1>1, <1>3, <1>4 DEF Serves, Counts, Sound

\* connecting: another attempt, a failure, a connection.
LEMMA ConnectingServes ==
    ASSUME NEW w, NEW c \in Conn, Safe(w), Conns(w), Alive(w, c), ~w.conn[c].thread,
           w.conn[c].st = "REQUEST_CONNECTING",
           NEW k \in Fd, Uses(w, c, k), w.item[k].owner = c, NEW r \in ConnectResults
    PROVE  LET v == connecting_write(w, c, k, r)
           IN Serves(w, v, c) /\ v.stopped = w.stopped
<1> DEFINE v == connecting_write(w, c, k, r)
<1>1. v.stopped = w.stopped /\ (Retried(w, v, c) \/ Failed(w, v, c) \/ Connected(w, v, c))
  BY ConnectingWriteSafe
<1> HIDE DEF v
<1>2. Staged(w.conn[c]) /\ (w.conn[c].status = "ok" => OwnOrigin(w, c))
  BY DEF Conns, Sound
<1>3. CASE Failed(w, v, c)
  <2>1. w.conn[c].st \in Late
    BY DEF Late
  <2> QED
    BY <1>1, <1>3, <2>1, FailedServes DEF v
<1>4. CASE Retried(w, v, c)
  <2>1. /\ Safe(v) /\ Frame(w, v, c) /\ Alive(v, c) /\ v.conn[c].st = "REQUEST_CONNECTING"
        /\ v.conn[c].method = w.conn[c].method /\ v.conn[c].auth = w.conn[c].auth
        /\ ~v.conn[c].thread
        /\ v.conn[c].status = "ok" => OwnOrigin(v, c)
        /\ v.metrics = [w.metrics EXCEPT !.attempts = @ + 1]
    BY <1>4 DEF Retried, On, OwnOrigin
  <2>2. Staged(v.conn[c])
    BY <1>2, <2>1 DEF Staged, Late, Early
  <2>3. c \notin Rel(v)
    BY <2>1 DEF Rel
  <2> QED
    BY <1>1, <2>1, <2>2, <2>3 DEF Serves, Counts, Sound, v
<1>5. CASE Connected(w, v, c)
  <2>1. /\ Safe(v) /\ Frame(w, v, c) /\ Alive(v, c) /\ v.conn[c].st = "REQUEST_WRITE"
        /\ v.conn[c].method = w.conn[c].method /\ v.conn[c].auth = w.conn[c].auth
        /\ ~v.conn[c].thread /\ v.conn[c].replies > 0
        /\ w.conn[c].status = "ok" /\ v.conn[c].origin = w.conn[c].origin
        /\ \A g \in Fd : v.item[g].owner = w.item[g].owner
    BY <1>5 DEF Connected, To
  <2>2. Staged(v.conn[c])
    BY <1>2, <2>1 DEF Staged, Late, Early
  <2>3. OwnOrigin(v, c)
    <3>1. w.conn[c].origin \in Fd \cup {None}
      BY DEF Safe, Basic, WorldType, ConnType
    <3> QED
      BY <1>2, <2>1, <3>1 DEF OwnOrigin
  <2>4. c \in Pend(w) /\ c \notin Pend(v)
    BY <2>1 DEF Pend
  <2>5. Counts(w, v, c)
    BY <1>5, <2>4 DEF Counts, Connected
  <2> QED
    BY <1>1, <2>1, <2>2, <2>3, <2>5 DEF Serves, Sound, v
<1> QED
  BY <1>1, <1>3, <1>4, <1>5

\* COPY starts or goes on: v comes from the stage s, REQUEST_WRITE or COPY.
LEMMA CopyServes ==
    ASSUME NEW w, NEW c \in Conn, Safe(w), Conns(w), Alive(w, c), ~w.conn[c].thread,
           w.conn[c].st \in {"REQUEST_WRITE", "COPY"}, w.conn[c].status = "ok",
           NEW v, To(w, v, c, "COPY"), v.conn[c].status = "ok",
           v.conn[c].origin = w.conn[c].origin, v.metrics = w.metrics,
           \A g \in Fd : v.item[g].owner = w.item[g].owner
    PROVE  Serves(w, v, c)
<1>1. /\ Safe(v) /\ Frame(w, v, c) /\ Alive(v, c) /\ v.conn[c].st = "COPY"
      /\ v.conn[c].method = w.conn[c].method /\ v.conn[c].auth = w.conn[c].auth
      /\ ~v.conn[c].thread
  BY DEF To
<1>2. Staged(w.conn[c]) /\ OwnOrigin(w, c)
  BY DEF Conns, Sound
<1>3. Staged(v.conn[c])
  BY <1>1, <1>2 DEF Staged, Late, Early
<1>4. OwnOrigin(v, c)
  <2>1. w.conn[c].origin \in Fd \cup {None}
    BY DEF Safe, Basic, WorldType, ConnType
  <2> QED
    BY <1>2, <2>1 DEF OwnOrigin
<1>5. (c \in Rel(v) => c \in Rel(w)) /\ c \notin Pend(v)
  BY <1>1 DEF Rel, Pend
<1> QED
  BY <1>1, <1>3, <1>4, <1>5 DEF Serves, Sound, Counts

\* Nothing happens, or the process aborts.
LEMMA IdleServes ==
    ASSUME NEW w, NEW c \in Conn, Safe(w), Conns(w), Alive(w, c),
           NEW v, v = w \/ v = [w EXCEPT !.stopped = "abort"]
    PROVE  /\ Serves(w, v, c) /\ v.stopped \in {w.stopped, "abort"}
           /\ v.conn = w.conn /\ v.item = w.item
<1>1. /\ v \in WorldType /\ v.conn = w.conn /\ v.item = w.item /\ v.sock = w.sock
      /\ v.pool = w.pool /\ v.metrics = w.metrics /\ v.stopped \in {w.stopped, "abort"}
  BY DEF Safe, Basic, WorldType
<1>2. w.conn[c].refs \in Nat
  BY DEF Safe, Basic, WorldType, ConnType
<1>3. Touched(w, v, c)
  BY <1>1, <1>2 DEF Touched
<1>4. Safe(v) /\ Frame(w, v, c) /\ (Alive(v, c) <=> Alive(w, c))
  BY <1>3, TouchSafe
<1>5. Sound(v, c) /\ (v.conn[c].thread => Resolving(v, c))
  BY <1>1, <1>4 DEF Conns, Sound, OwnOrigin, Resolving
<1>6. Counts(w, v, c)
  BY <1>1, <1>4 DEF Counts, Rel, Pend
<1> QED
  BY <1>1, <1>4, <1>5, <1>6 DEF Serves

-----------------------------------------------------------------------------
(* The inductive invariant *)

\* The event loop's own variables.
LoopTypes ==
    /\ phase \in {"select", "serve", "notify"}
    /\ todo \subseteq (0..MaxFd) \X {R, W}
    /\ accepts \in 0..MaxAccepts
    /\ <<0, R>> \in todo => accepts < MaxAccepts

\* After main has freed what it can reach.
Gone(w, q) ==
    /\ \A f \in Fd : w.item[f].owner = None
    /\ \A c \in Conn : ~w.conn[c].thread
    /\ w.pool = << >> /\ q = << >>

\* What the server goes on with.
Live(w, q) == Links(w) /\ Conns(w) /\ Queued(w, q)

ProxyInv ==
    /\ LoopTypes /\ Basic(World) /\ Counted(World) /\ stopped # "io"
    /\ stopped # "exit" => Live(World, jobs)
    /\ stopped = "exit" => Gone(World, jobs)

\* The world's fields are the variables.
LEMMA WorldIs ==
    /\ World.conn = conn /\ World.item = item /\ World.sock = sock /\ World.pool = pool
    /\ World.pool_size = pool_size /\ World.metrics = metrics /\ World.stopped = stopped
BY DEF World

\* Committing a world makes it the next one.
LEMMA CommitIs ==
    ASSUME NEW v \in WorldType, Commit(v)
    PROVE  World' = v /\ stopped' = v.stopped
BY DEF WorldType, Commit, World

\* The invariant after a step, in terms of the world it leads to.
LEMMA InvPrime ==
    ASSUME NEW v, World' = v, stopped' = v.stopped, LoopTypes', Basic(v), Counted(v),
           v.stopped # "io", v.stopped # "exit" => Live(v, jobs'),
           v.stopped = "exit" => Gone(v, jobs')
    PROVE  ProxyInv'
<1>1. Basic(World)' <=> Basic(World')
  BY DEF Basic, Owned
<1>2. Counted(World)' <=> Counted(World')
  BY DEF Counted, Rel, Pend, Alive
<1>3. Live(World, jobs)' <=> Live(World', jobs')
  BY DEF Live, Links, Uses, Alive, Conns, Sound, Staged, OwnOrigin, Resolving, Queued, Waiting
<1>4. Gone(World, jobs)' <=> Gone(World', jobs')
  BY DEF Gone
<1> QED
  BY <1>1, <1>2, <1>3, <1>4 DEF ProxyInv

\* A handler of c, and the notifications that are left.
LEMMA ServedNext ==
    ASSUME ProxyInv, Running, LoopTypes', NEW c \in Conn, NEW v, Commit(v),
           Serves(World, v, c), v.stopped \in {"no", "abort"}, Queued(v, jobs')
    PROVE  ProxyInv'
<1>1. /\ Safe(World) /\ Conns(World) /\ Counted(World)
      /\ World.stopped = "no"
  BY WorldIs DEF ProxyInv, Running, Live, Safe
<1>2. /\ Safe(v) /\ Frame(World, v, c) /\ Counts(World, v, c)
      /\ Alive(v, c) => Sound(v, c)
      /\ v.conn[c].thread => Resolving(v, c)
  BY DEF Serves
<1>3. Conns(v) /\ Counted(v)
  BY <1>1, <1>2, FrameConns, CountsKept
<1>4. v \in WorldType
  BY <1>2 DEF Safe, Basic
<1>5. World' = v /\ stopped' = v.stopped
  BY <1>4, CommitIs
<1> QED
  BY <1>2, <1>3, <1>5, InvPrime DEF Live, Safe

\* What an event finds.
LEMMA ServingFacts ==
    ASSUME ProxyInv, NEW e \in todo, NEW c \in Conn, NEW op, NEW st, Serving(e, op, c, st)
    PROVE  /\ Running /\ World.stopped = "no" /\ LoopTypes' /\ jobs' = jobs
           /\ Safe(World) /\ Conns(World) /\ Queued(World, jobs) /\ Alive(World, c)
           /\ e[1] \in Fd /\ World.item[e[1]].owner = c /\ Uses(World, c, e[1])
           /\ World.conn[c].st = st /\ Sound(World, c) /\ World.conn[c] \in ConnType
           /\ st # "REQUEST_RESOLV" =>
                /\ ~World.conn[c].thread
                /\ \A i \in 1..Len(jobs) : World.item[jobs[i]].owner # c
<1>1. /\ Running /\ todo' = todo \ {e} /\ phase' \in {"select", "serve", "notify"}
      /\ UNCHANGED <<jobs, accepts>>
      /\ e[1] # 0 /\ op \in item[e[1]].int /\ c = item[e[1]].owner /\ conn[c].st = st
  BY DEF Serving, Serve
<1>2. /\ Basic(World) /\ Live(World, jobs) /\ LoopTypes /\ World.stopped = "no"
  BY <1>1, WorldIs DEF ProxyInv, Running
<1>3. LoopTypes'
  BY <1>1, <1>2 DEF LoopTypes
<1>4. e[1] \in Fd
  <2>1. e \in (0..MaxFd) \X {R, W}
    BY <1>2 DEF LoopTypes
  <2>2. e[1] \in 0..MaxFd
    BY <2>1
  <2> QED
    BY <1>1, <2>2, MaxFdAssumption DEF Fd
<1>5. /\ World.item[e[1]].int # {} /\ World.item[e[1]].owner = c /\ World.conn[c].st = st
      /\ World.conn[c] \in ConnType
  BY <1>1, <1>2, WorldIs DEF Basic, WorldType
<1>6. Uses(World, c, e[1])
  BY <1>2, <1>4, <1>5 DEF Live, Links
<1>7. Alive(World, c)
  BY <1>6 DEF Uses
<1>8. st # "REQUEST_RESOLV" =>
        /\ ~World.conn[c].thread
        /\ \A i \in 1..Len(jobs) : World.item[jobs[i]].owner # c
  BY <1>2, <1>5 DEF Live, Conns, Resolving, Queued, Waiting
<1> QED
  BY <1>1, <1>2, <1>3, <1>4, <1>5, <1>6, <1>7, <1>8 DEF Live, Safe, Conns

\* A handler, for a connection that is not being resolved.
LEMMA HandlerNext ==
    ASSUME ProxyInv, NEW e \in todo, NEW c \in Conn, NEW op, NEW st, Serving(e, op, c, st),
           st # "REQUEST_RESOLV", NEW v, Commit(v), Serves(World, v, c),
           v.stopped \in {"no", "abort"}
    PROVE  ProxyInv'
<1>1. /\ Running /\ LoopTypes' /\ jobs' = jobs /\ Safe(World) /\ Queued(World, jobs)
      /\ \A i \in 1..Len(jobs) : World.item[jobs[i]].owner # c
  BY ServingFacts
<1>2. Safe(v) /\ Frame(World, v, c)
  BY DEF Serves
<1>3. Queued(v, jobs)
  BY <1>1, <1>2, FrameQueued
<1> QED
  BY <1>1, <1>3, ServedNext

\* A handler that did nothing, or ended the process.
LEMMA IdleNext ==
    ASSUME ProxyInv, NEW e \in todo, NEW c \in Conn, NEW op, NEW st, Serving(e, op, c, st),
           NEW v, Commit(v), v = World \/ v = [World EXCEPT !.stopped = "abort"]
    PROVE  ProxyInv'
<1>1. /\ Running /\ LoopTypes' /\ jobs' = jobs /\ Safe(World) /\ Queued(World, jobs)
      /\ Conns(World) /\ Alive(World, c) /\ World.stopped = "no"
  BY ServingFacts
<1>2. /\ Serves(World, v, c) /\ v.stopped \in {"no", "abort"}
      /\ v.conn = World.conn /\ v.item = World.item
  BY <1>1, IdleServes
<1>3. Queued(v, jobs)
  BY <1>1, <1>2 DEF Queued, Waiting
<1> QED
  BY <1>1, <1>2, <1>3, ServedNext

\* A handler that goes on with the login: c's fields r, then stage s with the
\* client armed for i.
LEMMA AdvanceNext ==
    ASSUME ProxyInv, NEW e \in todo, NEW c \in Conn, NEW op, NEW st \in Early,
           Serving(e, op, c, st), st # "REQUEST_RESOLV", NEW i \in SUBSET {R, W},
           NEW s \in Early, NEW r \in ConnType,
           \A g \in {"live", "client", "origin", "status", "refs", "replies"} :
              r[g] = World.conn[c][g],
           s = "HELLO_WRITE" => r.method \in Methods,
           s \in {"USERPASS_READ", "USERPASS_WRITE"} => r.method = "user",
           s \in Late => r.method = "none" \/ (r.method = "user" /\ r.auth = "granted"),
           r.thread => s = "REQUEST_RESOLV",
           NEW u, u = [World EXCEPT !.conn[c] = r], Advance(u, c, e[1], i, s)
    PROVE  ProxyInv'
<1> DEFINE v == Stage(selector_set_interest([World EXCEPT !.conn[c] = r], e[1], i), c, s)
<1>1. Commit(v)
  BY DEF Advance
<1>2. /\ Safe(World) /\ Conns(World) /\ Alive(World, c) /\ World.stopped = "no"
      /\ e[1] \in Fd /\ World.item[e[1]].owner = c /\ Uses(World, c, e[1])
      /\ World.conn[c].st \in Early
  BY ServingFacts
<1>3. Serves(World, v, c) /\ v.stopped = World.stopped
  BY <1>2, AdvanceServes
<1> HIDE DEF v
<1> QED
  BY <1>1, <1>2, <1>3, HandlerNext

\* A handler that leaves for a terminal stage, whatever it called before.
LEMMA FinishNext ==
    ASSUME ProxyInv, NEW e \in todo, NEW c \in Conn, NEW op, NEW st, Serving(e, op, c, st),
           st # "REQUEST_RESOLV", NEW u, On(World, u, c), u.stopped = World.stopped,
           \/ u.metrics = World.metrics
           \/ u.metrics = [World.metrics EXCEPT !.concurrent = @ - 1] /\ c \in Rel(World),
           NEW s \in Stages, Finish(u, c, s)
    PROVE  ProxyInv'
<1> DEFINE v == socksv5_done(Stage(u, c, s), c)
<1>1. Commit(v)
  BY DEF Finish
<1>2. /\ Safe(World) /\ Alive(World, c) /\ World.stopped = "no" /\ ~World.conn[c].thread
  BY ServingFacts
<1>3. Serves(World, v, c) /\ v.stopped \in {"no", "abort"}
  BY <1>2, FinishServes
<1> HIDE DEF v
<1> QED
  BY <1>1, <1>3, HandlerNext

\* A handler that fails before it calls anything.
LEMMA FailNext ==
    ASSUME ProxyInv, NEW e \in todo, NEW c \in Conn, NEW op, NEW st, Serving(e, op, c, st),
           st # "REQUEST_RESOLV", NEW s \in Stages, Finish(World, c, s)
    PROVE  ProxyInv'
<1>1. On(World, World, c)
  BY ServingFacts, OnNone
<1> QED
  BY <1>1, FinishNext

\* One that only changes the stage and what the client is armed for.
LEMMA GoOnNext ==
    ASSUME ProxyInv, NEW e \in todo, NEW c \in Conn, NEW op, NEW st \in Early,
           Serving(e, op, c, st), st # "REQUEST_RESOLV", NEW i \in SUBSET {R, W},
           NEW s \in Early, s # "HELLO_WRITE",
           s \in {"USERPASS_READ", "USERPASS_WRITE"} => World.conn[c].method = "user",
           s \in Late => \/ World.conn[c].method = "none"
                         \/ World.conn[c].method = "user" /\ World.conn[c].auth = "granted",
           Advance(World, c, e[1], i, s)
    PROVE  ProxyInv'
<1> DEFINE r == World.conn[c]
<1>1. r \in ConnType /\ ~r.thread /\ World \in WorldType
  BY ServingFacts DEF Safe, Basic
<1>2. World = [World EXCEPT !.conn[c] = r]
  BY <1>1 DEF WorldType
<1>3. \A g \in {"live", "client", "origin", "status", "refs", "replies"} :
        r[g] = World.conn[c][g]
  OBVIOUS
<1>4. s \in Late => r.method = "none" \/ (r.method = "user" /\ r.auth = "granted")
  OBVIOUS
<1>5. s \in {"USERPASS_READ", "USERPASS_WRITE"} => r.method = "user"
  OBVIOUS
<1> HIDE DEF r
<1> QED
  BY <1>1, <1>2, <1>3, <1>4, <1>5, AdvanceNext

\* The login is over, whatever request_init finds.
LEMMA BeginNext ==
    ASSUME ProxyInv, NEW e \in todo, NEW c \in Conn, NEW op,
           NEW st \in {"HELLO_WRITE", "USERPASS_WRITE"}, Serving(e, op, c, st),
           \/ World.conn[c].method = "none"
           \/ World.conn[c].method = "user" /\ World.conn[c].auth = "granted",
           begin_request(c, e[1])
    PROVE  ProxyInv'
<1> DEFINE r == World.conn[c]
           b == Stage(selector_set_interest(World, e[1], {R}), c, "REQUEST_READ")
           x == error_handler(b, c)
<1>1. PICK v \in request_init(b, c) : Commit(v)
  BY DEF begin_request
<1>2. /\ Safe(World) /\ Conns(World) /\ Alive(World, c) /\ World.stopped = "no"
      /\ e[1] \in Fd /\ World.item[e[1]].owner = c /\ Uses(World, c, e[1])
      /\ World.conn[c].st \in Early /\ r \in ConnType /\ ~r.thread /\ World \in WorldType
  BY ServingFacts DEF Early, Safe, Basic
<1>3. World = [World EXCEPT !.conn[c] = r]
  BY <1>2 DEF WorldType
<1>4. /\ \A g \in {"live", "client", "origin", "status", "refs", "replies"} :
           r[g] = World.conn[c][g]
      /\ r.method = "none" \/ (r.method = "user" /\ r.auth = "granted")
      /\ {R} \in SUBSET {R, W} /\ "REQUEST_READ" \in Early
  BY DEF Early
<1> HIDE DEF r
<1>5. b = Stage(selector_set_interest([World EXCEPT !.conn[c] = r], e[1], {R}), c, "REQUEST_READ")
  BY <1>3
<1> HIDE DEF b
<1>6. /\ Serves(World, b, c) /\ b.stopped = "no"
      /\ Alive(b, c) /\ b.metrics = World.metrics /\ b.conn[c].st = "REQUEST_READ"
  BY <1>2, <1>4, <1>5, AdvanceServes
<1>7. x = error_handler(b, c)
  OBVIOUS
<1> HIDE DEF x
<1>8. /\ Serves(World, x, c) /\ x.stopped \in {"no", "abort"}
      /\ Alive(x, c) /\ x.metrics = World.metrics /\ x.conn[c].st = "REQUEST_READ"
  BY <1>2, <1>6, <1>7, UnsentServes
<1>9. Serves(World, v, c) /\ v.stopped \in {"no", "abort"}
  <2>1. CASE v = b \/ v = x
    BY <1>6, <1>8, <2>1
  <2>2. CASE v = [b EXCEPT !.stopped = "abort"]
    BY <1>2, <1>6, <2>2, UnsentServes
  <2>3. CASE v = error_handler(x, c)
    BY <1>2, <1>8, <2>3, UnsentServes
  <2> QED
    BY <1>1, <2>1, <2>2, <2>3 DEF request_init, x
<1> QED
  BY <1>1, <1>9, HandlerNext

\* hello_read.
LEMMA HelloReadNext == ASSUME ProxyInv, hello_read PROVE ProxyInv'
<1>1. PICK e \in todo, c \in Conn :
        /\ Serving(e, R, c, "HELLO_READ")
        /\ \/ Commit(World)
           \/ \E m \in Methods :
                Advance([World EXCEPT !.conn[c].method = m], c, e[1], {W}, "HELLO_WRITE")
           \/ Finish(World, c, "ERROR")
  BY DEF hello_read
<1>2. CASE Commit(World)
  BY <1>1, <1>2, IdleNext
<1>3. ASSUME NEW m \in Methods,
             Advance([World EXCEPT !.conn[c].method = m], c, e[1], {W}, "HELLO_WRITE")
      PROVE  ProxyInv'
  <2> DEFINE r == [World.conn[c] EXCEPT !.method = m]
             u == [World EXCEPT !.conn[c].method = m]
  <2>1. World.conn[c] \in ConnType /\ ~World.conn[c].thread /\ World \in WorldType
    BY <1>1, ServingFacts DEF Safe, Basic
  <2>2. /\ r \in ConnType /\ r.method = m /\ ~r.thread
        /\ \A g \in {"live", "client", "origin", "status", "refs", "replies"} :
              r[g] = World.conn[c][g]
    BY <2>1 DEF ConnType
  <2>3. u = [World EXCEPT !.conn[c] = r]
    BY <2>1 DEF WorldType
  <2>4. Advance(u, c, e[1], {W}, "HELLO_WRITE")
    BY <1>3
  <2>5. {W} \in SUBSET {R, W} /\ "HELLO_WRITE" \in Early \ Late /\ "HELLO_READ" \in Early
    BY DEF Early, Late
  <2> HIDE DEF r, u
  <2> QED
    BY <1>1, <2>2, <2>3, <2>4, <2>5, AdvanceNext
<1>4. CASE Finish(World, c, "ERROR")
  BY <1>1, <1>4, FailNext DEF Stages
<1> QED
  BY <1>1, <1>2, <1>3, <1>4

\* hello_write.
LEMMA HelloWriteNext == ASSUME ProxyInv, hello_write PROVE ProxyInv'
<1>1. PICK e \in todo, c \in Conn :
        /\ Serving(e, W, c, "HELLO_WRITE")
        /\ \/ Commit(World)
           \/ CASE conn[c].method = "refused" -> Finish(World, c, "DONE")
                [] conn[c].method = "none" -> begin_request(c, e[1])
                [] conn[c].method = "user" -> Advance(World, c, e[1], {R}, "USERPASS_READ")
           \/ Finish(World, c, "ERROR")
  BY DEF hello_write
<1>2. CASE Commit(World)
  BY <1>1, <1>2, IdleNext
<1>3. World.conn[c].method \in Methods /\ World.conn[c].method = conn[c].method
  BY <1>1, ServingFacts, WorldIs DEF Sound, Staged
<1>4. CASE Finish(World, c, "ERROR") \/ Finish(World, c, "DONE")
  BY <1>1, <1>4, FailNext DEF Stages
<1>5. {R} \in SUBSET {R, W} /\ {"HELLO_WRITE", "USERPASS_READ"} \subseteq Early
  BY DEF Early
<1>6. CASE World.conn[c].method = "none" /\ begin_request(c, e[1])
  BY <1>1, <1>6, BeginNext
<1>7. CASE World.conn[c].method = "user" /\ Advance(World, c, e[1], {R}, "USERPASS_READ")
  BY <1>1, <1>5, <1>7, GoOnNext DEF Late
<1> QED
  BY <1>1, <1>2, <1>3, <1>4, <1>6, <1>7 DEF Methods

\* auth_read.
LEMMA AuthReadNext == ASSUME ProxyInv, auth_read PROVE ProxyInv'
<1>1. PICK e \in todo, c \in Conn :
        /\ Serving(e, R, c, "USERPASS_READ")
        /\ \/ Commit(World)
           \/ \E a \in Verdicts :
                Advance([World EXCEPT !.conn[c].auth = a], c, e[1], {W}, "USERPASS_WRITE")
           \/ Finish(World, c, "ERROR")
           \/ BadVersion /\ Commit([World EXCEPT !.stopped = "abort"])
  BY DEF auth_read
<1>2. CASE Commit(World) \/ Commit([World EXCEPT !.stopped = "abort"])
  BY <1>1, <1>2, IdleNext
<1>3. ASSUME NEW a \in Verdicts,
             Advance([World EXCEPT !.conn[c].auth = a], c, e[1], {W}, "USERPASS_WRITE")
      PROVE  ProxyInv'
  <2> DEFINE r == [World.conn[c] EXCEPT !.auth = a]
             u == [World EXCEPT !.conn[c].auth = a]
  <2>1. /\ World.conn[c] \in ConnType /\ ~World.conn[c].thread /\ World \in WorldType
        /\ World.conn[c].method = "user"
    BY <1>1, ServingFacts DEF Safe, Basic, Sound, Staged
  <2>2. /\ r \in ConnType /\ r.method = "user" /\ ~r.thread
        /\ \A g \in {"live", "client", "origin", "status", "refs", "replies"} :
              r[g] = World.conn[c][g]
    BY <2>1 DEF ConnType
  <2>3. u = [World EXCEPT !.conn[c] = r]
    BY <2>1 DEF WorldType
  <2>4. Advance(u, c, e[1], {W}, "USERPASS_WRITE")
    BY <1>3
  <2>5. /\ {W} \in SUBSET {R, W} /\ "USERPASS_WRITE" \in Early \ Late
        /\ "USERPASS_READ" \in Early
    BY DEF Early, Late
  <2> HIDE DEF r, u
  <2> QED
    BY <1>1, <2>2, <2>3, <2>4, <2>5, AdvanceNext
<1>4. CASE Finish(World, c, "ERROR")
  BY <1>1, <1>4, FailNext DEF Stages
<1> QED
  BY <1>1, <1>2, <1>3, <1>4

\* auth_write.
LEMMA AuthWriteNext == ASSUME ProxyInv, auth_write PROVE ProxyInv'
<1>1. PICK e \in todo, c \in Conn :
        /\ Serving(e, W, c, "USERPASS_WRITE")
        /\ \/ Commit(World)
           \/ IF conn[c].auth = "granted" THEN begin_request(c, e[1])
              ELSE Finish(World, c, "DONE")
           \/ Finish(World, c, "ERROR")
  BY DEF auth_write
<1>2. CASE Commit(World)
  BY <1>1, <1>2, IdleNext
<1>3. CASE Finish(World, c, "ERROR") \/ Finish(World, c, "DONE")
  BY <1>1, <1>3, FailNext DEF Stages
<1>4. CASE conn[c].auth = "granted" /\ begin_request(c, e[1])
  <2>1. World.conn[c].method = "user" /\ World.conn[c].auth = "granted"
    BY <1>1, <1>4, ServingFacts, WorldIs DEF Sound, Staged
  <2> QED
    BY <1>1, <1>4, <2>1, BeginNext
<1> QED
  BY <1>1, <1>2, <1>3, <1>4

\* request_read: an attempt is made, a thread is started, or neither can be.
LEMMA RequestReadNext == ASSUME ProxyInv, request_read PROVE ProxyInv'
<1>1. PICK e \in todo, c \in Conn :
        /\ Serving(e, R, c, "REQUEST_READ")
        /\ IF conn[c].replies > 0
           THEN \E w \in {Stage(World, c, "REQUEST_WRITE"), [World EXCEPT !.stopped = "abort"]} :
                  Commit(w)
           ELSE \/ Commit(World)
                \/ request_process(c, e[1])
                \/ Finish(World, c, "ERROR")
  BY DEF request_read
<1>2. /\ Safe(World) /\ Conns(World) /\ Alive(World, c) /\ World.stopped = "no"
      /\ World.conn[c].st = "REQUEST_READ" /\ ~World.conn[c].thread
      /\ World.conn[c] \in ConnType /\ World \in WorldType /\ On(World, World, c)
      /\ e[1] \in Fd /\ Uses(World, c, e[1])
  BY <1>1, ServingFacts, OnNone DEF Safe, Basic
<1>3. /\ World.conn[c].origin = None /\ World.conn[c].st \in Late
      /\ \/ World.conn[c].method = "none"
         \/ World.conn[c].method = "user" /\ World.conn[c].auth = "granted"
  BY <1>2 DEF Conns, Sound, Staged, Early, Late
<1>4. e[1] = World.conn[c].client
  BY <1>2, <1>3 DEF Uses, None, Fd
<1>5. CASE Commit(World)
  BY <1>1, <1>5, IdleNext
<1>6. ASSUME NEW r \in ConnectResults,
             Commit(connecting_init(Stage(World, c, "REQUEST_CONNECTING"), c, e[1], r))
      PROVE  ProxyInv'
  <2> DEFINE u == Stage(World, c, "REQUEST_CONNECTING")
             v == connecting_init(u, c, e[1], r)
  <2>1. /\ To(World, u, c, "REQUEST_CONNECTING") /\ u.conn[c].origin = None
        /\ u.metrics = World.metrics /\ u.stopped = World.stopped
    BY <1>2, <1>3, StageTo DEF Stages
  <2>2. Commit(v)
    BY <1>6
  <2> HIDE DEF u
  <2>3. Attempted(World, v, c) /\ v.stopped = World.stopped
    BY <1>2, <1>4, <2>1, AttemptSafe
  <2> HIDE DEF v
  <2>4. Serves(World, v, c)
    BY <1>2, <1>3, <2>3, AttemptedServes
  <2> QED
    BY <1>1, <1>2, <2>2, <2>3, <2>4, HandlerNext
<1>7. CASE Advance([World EXCEPT !.conn[c].thread = TRUE], c, e[1], {}, "REQUEST_RESOLV")
  <2> DEFINE r == [World.conn[c] EXCEPT !.thread = TRUE]
             u == [World EXCEPT !.conn[c].thread = TRUE]
  <2>1. /\ r \in ConnType /\ r.method = World.conn[c].method /\ r.auth = World.conn[c].auth
        /\ \A g \in {"live", "client", "origin", "status", "refs", "replies"} :
              r[g] = World.conn[c][g]
    BY <1>2 DEF ConnType
  <2>2. u = [World EXCEPT !.conn[c] = r]
    BY <1>2 DEF WorldType
  <2>3. Advance(u, c, e[1], {}, "REQUEST_RESOLV")
    BY <1>7
  <2>4. {} \in SUBSET {R, W} /\ {"REQUEST_READ", "REQUEST_RESOLV"} \subseteq Early
    BY DEF Early
  <2>5. r.method = "none" \/ (r.method = "user" /\ r.auth = "granted")
    BY <1>3, <2>1
  <2> HIDE DEF r, u
  <2> QED
    BY <1>1, <2>1, <2>2, <2>3, <2>4, <2>5, AdvanceNext
<1>8. CASE Commit(Stage(error_handler(World, c), c, "REQUEST_WRITE"))
  <2> DEFINE u == error_handler(World, c)
             v == Stage(u, c, "REQUEST_WRITE")
  <2>1. u \in {error_handler(World, c), error_handler_to_client(World, c)}
    OBVIOUS
  <2>2. Commit(v)
    BY <1>8
  <2> HIDE DEF u
  <2>3. /\ On(World, u, c) /\ u.conn[c].origin = None /\ u.conn[c].replies > 0
        /\ u.metrics = World.metrics /\ u.stopped = World.stopped
    BY <1>2, <1>3, <2>1, ErrorHandlers
  <2>4. /\ To(World, v, c, "REQUEST_WRITE") /\ v.conn[c].origin = u.conn[c].origin
        /\ v.conn[c].replies = u.conn[c].replies
        /\ v.metrics = u.metrics /\ v.stopped = u.stopped
    BY <1>2, <2>3, StageTo DEF Stages
  <2> HIDE DEF v
  <2>5. Failed(World, v, c)
    BY <2>3, <2>4 DEF Failed
  <2>6. Serves(World, v, c)
    BY <1>2, <1>3, <2>5, FailedServes
  <2> QED
    BY <1>1, <1>2, <2>2, <2>3, <2>4, <2>6, HandlerNext
<1>9. CASE Advance(World, c, e[1], {}, "REQUEST_RESOLV")
  <2>1. {} \in SUBSET {R, W} /\ {"REQUEST_READ", "REQUEST_RESOLV"} \subseteq Early
    BY DEF Early
  <2> QED
    BY <1>1, <1>3, <1>9, <2>1, GoOnNext
<1>10. CASE Finish(World, c, "ERROR")
  BY <1>1, <1>10, FailNext DEF Stages
<1>11. CASE conn[c].replies > 0 /\ Commit(Stage(World, c, "REQUEST_WRITE"))
  <2> DEFINE v == Stage(World, c, "REQUEST_WRITE")
  <2>1. Commit(v) /\ World.conn[c].replies > 0
    BY <1>11, WorldIs
  <2>2. /\ To(World, v, c, "REQUEST_WRITE") /\ v.conn[c].origin = None
        /\ v.conn[c].replies > 0
        /\ v.metrics = World.metrics /\ v.stopped = World.stopped
    BY <1>2, <1>3, <2>1, StageTo DEF Stages
  <2> HIDE DEF v
  <2>3. Failed(World, v, c)
    BY <2>2 DEF Failed
  <2>4. Serves(World, v, c)
    BY <1>2, <1>3, <2>3, FailedServes
  <2> QED
    BY <1>1, <1>2, <2>1, <2>2, <2>4, HandlerNext
<1>12. CASE Commit([World EXCEPT !.stopped = "abort"])
  BY <1>1, <1>12, IdleNext
<1> QED
  BY <1>1, <1>5, <1>6, <1>7, <1>8, <1>9, <1>10, <1>11, <1>12 DEF request_process

\* connecting_write.
LEMMA ConnectingNext == ASSUME ProxyInv, connecting PROVE ProxyInv'
<1>1. PICK e \in todo, c \in Conn, r \in ConnectResults :
        /\ Serving(e, W, c, "REQUEST_CONNECTING")
        /\ Commit(connecting_write(World, c, e[1], r))
  BY DEF connecting
<1> DEFINE v == connecting_write(World, c, e[1], r)
<1>2. /\ Safe(World) /\ Conns(World) /\ Alive(World, c) /\ World.stopped = "no"
      /\ World.conn[c].st = "REQUEST_CONNECTING" /\ ~World.conn[c].thread
      /\ e[1] \in Fd /\ Uses(World, c, e[1]) /\ World.item[e[1]].owner = c
  BY <1>1, ServingFacts
<1>3. Serves(World, v, c) /\ v.stopped = World.stopped
  BY <1>2, ConnectingServes
<1>4. Commit(v)
  BY <1>1
<1> HIDE DEF v
<1> QED
  BY <1>1, <1>2, <1>3, <1>4, HandlerNext

\* request_write: the last byte of the reply starts COPY or ends the connection.
LEMMA RequestWriteNext == ASSUME ProxyInv, request_write PROVE ProxyInv'
<1>1. PICK e \in todo, c \in Conn :
        /\ Serving(e, W, c, "REQUEST_WRITE")
        /\ \/ Commit(World)
           \/ IF conn[c].status = "ok"
              THEN \E w \in copy_init(Stage(World, c, "COPY"), c) : Commit(w)
              ELSE Finish(selector_set_interest(World, conn[c].client, {}), c, "DONE")
           \/ Finish(World, c, "ERROR")
  BY DEF request_write
<1>2. /\ Safe(World) /\ Conns(World) /\ Alive(World, c) /\ World.stopped = "no"
      /\ World.conn[c].st = "REQUEST_WRITE" /\ ~World.conn[c].thread
      /\ World.conn[c] \in ConnType /\ On(World, World, c) /\ World.conn = conn
      /\ World.conn[c].status = "ok" => OwnOrigin(World, c)
  BY <1>1, ServingFacts, OnNone, WorldIs DEF Sound
<1>3. CASE Commit(World)
  BY <1>1, <1>3, IdleNext
<1>4. CASE Finish(World, c, "ERROR")
  BY <1>1, <1>4, FailNext DEF Stages
<1>5. ASSUME conn[c].status = "ok", NEW v \in copy_init(Stage(World, c, "COPY"), c), Commit(v)
      PROVE  ProxyInv'
  <2> DEFINE u == Stage(World, c, "COPY")
  <2>1. /\ To(World, u, c, "COPY") /\ u.conn[c].origin = World.conn[c].origin
        /\ u.conn[c].status = World.conn[c].status /\ u.item = World.item
        /\ u.metrics = World.metrics /\ u.stopped = World.stopped
    BY <1>2, StageTo DEF Stages
  <2>2. v \in copy_init(u, c)
    BY <1>5
  <2> HIDE DEF u
  <2>3. Safe(u) /\ Alive(u, c) /\ OwnOrigin(u, c)
    BY <1>2, <1>5, <2>1 DEF To, OwnOrigin
  <2>4. /\ On(u, v, c) /\ v.conn[c].status = u.conn[c].status
        /\ v.conn[c].origin = u.conn[c].origin
        /\ v.metrics = u.metrics /\ v.stopped = u.stopped
        /\ \A g \in Fd : v.item[g].owner = u.item[g].owner
    BY <2>2, <2>3, CopyInitSafe
  <2>5. To(World, v, c, "COPY")
    BY <1>2, <2>1, <2>4, ToTrans
  <2>6. Serves(World, v, c)
    BY <1>2, <1>5, <2>1, <2>4, <2>5, CopyServes
  <2> QED
    BY <1>1, <1>2, <1>5, <2>1, <2>4, <2>6, HandlerNext
<1>6. CASE Finish(selector_set_interest(World, conn[c].client, {}), c, "DONE")
  <2> DEFINE f == World.conn[c].client
             u == selector_set_interest(World, f, {})
  <2>1. f \in Fd /\ Uses(World, c, f) /\ {} \in SUBSET {R, W}
    BY <1>2 DEF Alive, Uses
  <2>2. Finish(u, c, "DONE")
    BY <1>2, <1>6
  <2> HIDE DEF f
  <2>3. On(World, u, c) /\ u.metrics = World.metrics /\ u.stopped = World.stopped
    BY <1>2, <2>1, InterestOn
  <2> HIDE DEF u
  <2> QED
    BY <1>1, <2>2, <2>3, FinishNext DEF Stages
<1> QED
  BY <1>1, <1>3, <1>4, <1>5, <1>6

\* copy_read and copy_write.
LEMMA CopyEventNext == ASSUME ProxyInv, NEW op, copy_event(op) PROVE ProxyInv'
<1>1. PICK e \in todo, c \in Conn :
        /\ Serving(e, op, c, "COPY")
        /\ LET d == IF (e[1] = conn[c].client) = (op = R) THEN "up" ELSE "down"
           IN \/ conn[c].origin = None /\ \E w \in copy_init(World, c) : Commit(w)
              \/ /\ conn[c].origin # None
                 /\ \E o \in {conn[c].open, conn[c].open \ {d}} :
                      IF o = {}
                      THEN Finish([World EXCEPT !.metrics.concurrent = @ - 1], c, "DONE")
                      ELSE \E a \in [o -> CopyArms] : Commit(Relay(World, c, o, a))
  BY DEF copy_event
<1>2. /\ Safe(World) /\ Conns(World) /\ Alive(World, c) /\ World.stopped = "no"
      /\ World.conn[c].st = "COPY" /\ ~World.conn[c].thread
      /\ World.conn[c] \in ConnType /\ World \in WorldType
      /\ World.conn = conn /\ Sound(World, c)
  BY <1>1, ServingFacts, WorldIs DEF Safe, Basic
<1>3. World.conn[c].status = "ok" /\ OwnOrigin(World, c)
  BY <1>2 DEF Sound, Staged
<1>4. ASSUME NEW v, Commit(v), On(World, v, c), v.conn[c].status = World.conn[c].status,
             v.conn[c].origin = World.conn[c].origin, v.metrics = World.metrics,
             v.stopped = World.stopped, \A g \in Fd : v.item[g].owner = World.item[g].owner
      PROVE  ProxyInv'
  <2>1. To(World, v, c, "COPY")
    BY <1>2, <1>4 DEF On, To
  <2>2. Serves(World, v, c)
    BY <1>2, <1>3, <1>4, <2>1, CopyServes
  <2> QED
    BY <1>1, <1>2, <1>4, <2>2, HandlerNext
<1>5. ASSUME NEW v \in copy_init(World, c), Commit(v) PROVE ProxyInv'
  BY <1>2, <1>3, <1>4, <1>5, CopyInitSafe
<1>6. ASSUME NEW o \in SUBSET {"up", "down"}, NEW a, Commit(Relay(World, c, o, a))
      PROVE  ProxyInv'
  <2> DEFINE v == Relay(World, c, o, a)
  <2>1. /\ On(World, v, c) /\ v.conn[c].status = World.conn[c].status
        /\ v.conn[c].origin = World.conn[c].origin
        /\ v.metrics = World.metrics /\ v.stopped = World.stopped
        /\ \A g \in Fd : v.item[g].owner = World.item[g].owner
    BY <1>2, <1>3, RelaySafe
  <2>2. Commit(v)
    BY <1>6
  <2> HIDE DEF v
  <2> QED
    BY <1>4, <2>1, <2>2
<1>7. ASSUME conn[c].origin # None,
             Finish([World EXCEPT !.metrics.concurrent = @ - 1], c, "DONE")
      PROVE  ProxyInv'
  <2> DEFINE m == [World.metrics EXCEPT !.concurrent = @ - 1]
             u == [World EXCEPT !.metrics = m]
  <2>1. m \in [attempts : Nat, historic : Nat, concurrent : Int, max : Nat]
    BY <1>2 DEF WorldType
  <2>2. u = [World EXCEPT !.metrics.concurrent = @ - 1]
    BY <1>2 DEF WorldType
  <2>3. Finish(u, c, "DONE")
    BY <1>7, <2>2
  <2> HIDE DEF m
  <2>4. /\ Safe(u) /\ Frame(World, u, c) /\ u.conn = World.conn
        /\ u.metrics = m /\ u.stopped = World.stopped
        /\ \A d \in Conn : Alive(u, d) <=> Alive(World, d)
    BY <1>2, <2>1, CountSafe
  <2> HIDE DEF u
  <2>5. On(World, u, c)
    BY <1>2, <2>4 DEF On, ConnType
  <2>6. c \in Rel(World)
    BY <1>2, <1>7 DEF Rel
  <2>7. u.metrics = [World.metrics EXCEPT !.concurrent = @ - 1] /\ c \in Rel(World)
    BY <2>4, <2>6 DEF m
  <2>8. "DONE" \in Stages
    BY DEF Stages
  <2> QED
    BY <1>1, <2>3, <2>4, <2>5, <2>7, <2>8, FinishNext
<1>8. conn[c].open \in SUBSET {"up", "down"}
  BY <1>2 DEF ConnType
<1>9. CASE conn[c].origin = None /\ \E w \in copy_init(World, c) : Commit(w)
  BY <1>5, <1>9
<1>10. ASSUME conn[c].origin # None, NEW d, NEW o \in {conn[c].open, conn[c].open \ {d}},
              IF o = {}
              THEN Finish([World EXCEPT !.metrics.concurrent = @ - 1], c, "DONE")
              ELSE \E a \in [o -> CopyArms] : Commit(Relay(World, c, o, a))
       PROVE  ProxyInv'
  <2>1. o \in SUBSET {"up", "down"}
    BY <1>8
  <2>2. CASE o = {}
    BY <1>7, <1>10, <2>2
  <2>3. CASE o # {}
    BY <1>6, <1>10, <2>1, <2>3
  <2> QED
    BY <2>2, <2>3
<1> QED
  BY <1>1, <1>9, <1>10

-----------------------------------------------------------------------------
(* The event loop, the resolvers' threads and the network *)

\* The connections are as they were, whatever happened to the rest.
LEMMA ConnsKept ==
    ASSUME NEW w, NEW v, v.conn = w.conn, v.item = w.item, v.metrics = w.metrics
    PROVE  /\ Conns(w) <=> Conns(v) /\ \A q : Queued(w, q) <=> Queued(v, q)
           /\ Counted(w) <=> Counted(v)
<1>1. \A d : Alive(v, d) <=> Alive(w, d)
  BY DEF Alive
<1>2. Conns(w) <=> Conns(v)
  BY <1>1 DEF Conns, Sound, OwnOrigin, Resolving
<1>3. \A q : Queued(w, q) <=> Queued(v, q)
  BY DEF Queued, Waiting
<1>4. Rel(v) = Rel(w) /\ Pend(v) = Pend(w)
  BY <1>1 DEF Rel, Pend
<1> QED
  BY <1>2, <1>3, <1>4 DEF Counted

\* A step of the loop that touches no connection.
LEMMA LoopNext ==
    ASSUME ProxyInv, Running, LoopTypes', World' = World, stopped' = stopped, jobs' = jobs
    PROVE  ProxyInv'
BY WorldIs, InvPrime DEF ProxyInv, Running

\* selector_select: nothing armed is closed, so select does not fail.
LEMMA SelectNext == ASSUME ProxyInv, selector_select PROVE ProxyInv'
<1>1. Running /\ UNCHANGED <<conn, item, sock, pool, pool_size, metrics, jobs, accepts>>
  BY DEF selector_select
<1>2. ~BadFd
  BY WorldIs DEF ProxyInv, Basic, BadFd
<1>3. todo' \in SUBSET Ready /\ phase' \in {"serve", "notify"} /\ stopped' = stopped
  BY <1>2 DEF selector_select
<1>4. World' = World
  BY <1>1, <1>3 DEF World
<1>5. LoopTypes'
  <2>1. \A e \in Fd \X {R, W} : e[1] # 0 /\ e \in (0..MaxFd) \X {R, W}
    BY MaxFdAssumption DEF Fd
  <2>2. todo' \subseteq (0..MaxFd) \X {R, W}
    BY <1>3, <2>1, MaxFdAssumption DEF Ready
  <2>3. <<0, R>> \in Ready => accepts < MaxAccepts
    <3>1. <<0, R>> \notin Fd \X {R, W}
      BY MaxFdAssumption DEF Fd
    <3> QED
      BY <3>1 DEF Ready
  <2>4. accepts \in 0..MaxAccepts
    BY DEF ProxyInv, LoopTypes
  <2> QED
    BY <1>1, <1>3, <2>2, <2>3, <2>4 DEF LoopTypes
<1> QED
  BY <1>1, <1>3, <1>4, <1>5, LoopNext

\* An event whose descriptor lost it.
LEMMA SkipNext == ASSUME ProxyInv, skip_event PROVE ProxyInv'
<1>1. PICK e \in todo : Serve(e)
  BY DEF skip_event
<1>2. UNCHANGED <<conn, item, sock, pool, pool_size, metrics, stopped, jobs, accepts>>
  BY DEF skip_event
<1>3. World' = World
  BY <1>2 DEF World
<1>4. LoopTypes' /\ Running
  BY <1>1, <1>2 DEF LoopTypes, Serve, ProxyInv
<1> QED
  BY <1>2, <1>3, <1>4, LoopNext

\* An event without a handler.
LEMMA AbortNext == ASSUME ProxyInv, stm_abort PROVE ProxyInv'
<1>1. PICK e \in todo, c \in Conn :
        /\ Serving(e, e[2], c, conn[c].st)
        /\ Commit([World EXCEPT !.stopped = "abort"])
  BY DEF stm_abort
<1> QED
  BY <1>1, IdleNext

\* The struct that socks5_new takes.
LEMMA NextIsSpare ==
    ASSUME ProxyInv, pool # << >> \/ Fresh # {}
    PROVE  NextStruct \in Conn /\ Spare(World, NextStruct)
<1>1. CASE pool # << >>
  <2>1. /\ pool \in Seq(Conn) /\ \A i \in 1..Len(pool) : ~conn[pool[i]].live
    BY WorldIs DEF ProxyInv, Basic, WorldType
  <2>2. Head(pool) = pool[1] /\ Head(pool) \in Conn /\ 1 \in 1..Len(pool)
    BY <1>1, <2>1, HeadTailProperties, LenProperties, EmptySeq
  <2> QED
    BY <1>1, <2>1, <2>2, WorldIs DEF NextStruct, Spare
<1>2. CASE pool = << >> /\ Fresh # {}
  <2>1. NextStruct \in Fresh
    BY <1>2 DEF NextStruct
  <2> QED
    BY <1>2, <2>1, WorldIs DEF Fresh, Spare
<1> QED
  BY <1>1, <1>2

\* socksv5_passive_accept.
LEMMA AcceptNext == ASSUME ProxyInv, socksv5_passive_accept PROVE ProxyInv'
<1>1. <<0, R>> \in todo /\ Serve(<<0, R>>) /\ jobs' = jobs
  BY DEF socksv5_passive_accept
<1>2. /\ Running /\ todo' = todo \ {<<0, R>>} /\ phase' \in {"serve", "notify"}
      /\ World.stopped = "no"
      /\ Safe(World) /\ Conns(World) /\ Queued(World, jobs)
  BY <1>1, WorldIs DEF Serve, Running, ProxyInv, Live, Safe
<1>3. accepts' \in {accepts, accepts + 1}
  BY DEF socksv5_passive_accept
<1>4. LoopTypes'
  BY <1>1, <1>2, <1>3, MaxAcceptsAssumption DEF LoopTypes, ProxyInv
<1>5. CASE Commit(World)
  <2>1. World' = World /\ stopped' = stopped
    BY <1>2, <1>5, CommitIs, WorldIs DEF Safe, Basic
  <2> QED
    BY <1>1, <1>2, <1>4, <2>1, LoopNext
<1>6. CASE FreeFds(World) # {} /\ ~(pool = << >> /\ Fresh = {})
  <2>1. PICK f \in FreeFds(World) : f = Lowest(FreeFds(World))
    BY <1>6, LowestFree
  <2>2. PICK c \in Conn : c = NextStruct /\ Spare(World, c)
    BY <1>6, NextIsSpare
  <2> DEFINE n == socks5_new([World EXCEPT !.sock[f] = "client"], c, f)
             x == socks5_destroy(close(n, f), c)
             y == selector_register(n, f, c, {R})
  <2>3. Commit(IF ITEM_USED(World, f) THEN x ELSE y)
    BY <1>6, <2>1, <2>2 DEF socksv5_passive_accept
  <2>4. ~Alive(World, c) /\ Owned(World, c) = {}
    BY <1>2, <2>2, SpareUnused DEF Spare, Safe
  <2>5. ASSUME NEW v, Commit(v), Safe(v), Frame(World, v, c), v.metrics = World.metrics,
               v.stopped = World.stopped,
               \/ ~Alive(v, c) /\ v.conn[c] = Blank
               \/ v.conn[c] = New(f)
        PROVE  ProxyInv'
    <3>1. /\ ~Blank.thread /\ ~New(f).thread /\ New(f).st = "HELLO_READ"
          /\ New(f).origin = None /\ New(f).refs = 1
      BY DEF Blank, New
    <3>2. Alive(v, c) => Sound(v, c)
      BY <2>5, <3>1 DEF Sound, Staged, OwnOrigin, Late
    <3>3. Counts(World, v, c)
      <4>1. c \notin Rel(v) /\ c \notin Pend(v)
        BY <2>5, <3>1 DEF Rel, Pend
      <4> QED
        BY <2>5, <4>1 DEF Counts
    <3>4. Serves(World, v, c)
      BY <2>5, <3>1, <3>2, <3>3 DEF Serves
    <3>5. \A i \in 1..Len(jobs) : World.item[jobs[i]].owner # c
      <4> SUFFICES ASSUME NEW i \in 1..Len(jobs) PROVE World.item[jobs[i]].owner # c
        OBVIOUS
      <4>1. jobs[i] \in Fd
        BY <1>2, ElementOfSeq DEF Queued
      <4> QED
        BY <2>4, <4>1 DEF Owned
    <3>6. Queued(v, jobs)
      BY <1>2, <2>5, <3>5, FrameQueued
    <3> QED
      BY <1>1, <1>2, <1>4, <2>5, <3>4, <3>6, ServedNext
  <2>6. CASE ITEM_USED(World, f)
    <3>1. /\ Safe(x) /\ Frame(World, x, c) /\ ~Alive(x, c) /\ x.conn[c] = Blank
          /\ x.metrics = World.metrics /\ x.stopped = World.stopped
      BY <1>2, <2>2, <2>6, RefuseSafe
    <3>2. Commit(x)
      BY <2>3, <2>6
    <3> HIDE DEF x
    <3> QED
      BY <2>5, <3>1, <3>2
  <2>7. CASE ~ITEM_USED(World, f)
    <3>1. /\ Safe(y) /\ Frame(World, y, c) /\ y.conn[c] = New(f)
          /\ y.metrics = World.metrics /\ y.stopped = World.stopped
      BY <1>2, <2>2, <2>7, AcceptSafe
    <3>2. Commit(y)
      BY <2>3, <2>7
    <3> HIDE DEF y
    <3> QED
      BY <2>5, <3>1, <3>2
  <2> QED
    BY <2>6, <2>7
<1> QED
  BY <1>5, <1>6 DEF socksv5_passive_accept

\* The network answers an attempt, whoever made it.
LEMMA AttemptEndsNext == ASSUME ProxyInv, NEW f \in Fd, attempt_ends(f) PROVE ProxyInv'
<1>1. PICK s \in {"connected", "error"} : sock' = [sock EXCEPT ![f] = s]
  BY DEF attempt_ends
<1>2. /\ Running /\ sock[f] = "connecting"
      /\ UNCHANGED <<conn, item, pool, pool_size, metrics, stopped, phase, todo, jobs, accepts>>
  BY DEF attempt_ends
<1> DEFINE v == [World EXCEPT !.sock[f] = s]
<1>3. World' = v /\ v.stopped = World.stopped
  BY <1>1, <1>2 DEF World
<1>4. /\ Safe(World) /\ World.sock[f] # "free" /\ s \in SockType \ {"free"}
      /\ Live(World, jobs) /\ Counted(World) /\ stopped = "no" /\ World.stopped = "no"
  BY <1>2, WorldIs DEF ProxyInv, Running, Live, Safe, SockType
<1>5. Safe(v) /\ v.conn = World.conn /\ v.item = World.item /\ v.metrics = World.metrics
  BY <1>4, SockSafe
<1> HIDE DEF v
<1>6. Conns(v) /\ Queued(v, jobs) /\ Counted(v)
  BY <1>4, <1>5, ConnsKept DEF Live
<1>7. LoopTypes'
  BY <1>2 DEF ProxyInv, LoopTypes
<1> QED
  BY <1>2, <1>3, <1>4, <1>5, <1>6, <1>7, InvPrime DEF Live, Safe

\* One more notification.
LEMMA QueueMore ==
    ASSUME NEW w, NEW q, Queued(w, q), NEW f \in Fd, Waiting(w, f),
           \A i \in 1..Len(q) : q[i] # f
    PROVE  Queued(w, <<f>> \o q)
<1> DEFINE p == <<f>> \o q
<1>1. q \in Seq(Fd) /\ \A i, j \in 1..Len(q) : q[i] = q[j] => i = j
  BY DEF Queued
<1>2. /\ p \in Seq(Fd) /\ Len(p) = Len(q) + 1 /\ p[1] = f /\ Len(q) \in Nat
      /\ \A i \in 1..(Len(q) + 1) : i = 1 \/ ((i - 1) \in 1..Len(q) /\ p[i] = q[i - 1])
  BY <1>1, Pushed, LenProperties
<1> HIDE DEF p
<1>3. ASSUME NEW i \in 1..Len(p) PROVE Waiting(w, p[i])
  <2>1. CASE i = 1
    BY <1>2, <2>1
  <2>2. CASE i # 1
    <3>1. (i - 1) \in 1..Len(q) /\ p[i] = q[i - 1]
      BY <1>2, <2>2
    <3> QED
      BY <3>1 DEF Queued
  <2> QED
    BY <2>1, <2>2
<1>4. ASSUME NEW i \in 1..Len(p), NEW j \in 1..Len(p), p[i] = p[j] PROVE i = j
  <2>1. i \in 1..(Len(q) + 1) /\ j \in 1..(Len(q) + 1)
    BY <1>2
  <2>2. CASE i = 1
    BY <1>2, <1>4, <2>1, <2>2
  <2>3. CASE j = 1
    BY <1>2, <1>4, <2>1, <2>3
  <2>4. CASE i # 1 /\ j # 1
    <3>1. /\ (i - 1) \in 1..Len(q) /\ (j - 1) \in 1..Len(q)
          /\ q[i - 1] = q[j - 1]
      BY <1>2, <1>4, <2>1, <2>4
    <3> QED
      BY <1>1, <2>1, <3>1
  <2> QED
    BY <2>2, <2>3, <2>4
<1> QED
  BY <1>2, <1>3, <1>4 DEF Queued, p

\* One notification less: the head is handled.
LEMMA QueueLess ==
    ASSUME NEW w, NEW q, Queued(w, q), q # << >>
    PROVE  /\ Head(q) \in Fd /\ Waiting(w, Head(q)) /\ Queued(w, Tail(q))
           /\ \A i \in 1..Len(Tail(q)) : Tail(q)[i] # Head(q)
<1>1. /\ q \in Seq(Fd) /\ \A i, j \in 1..Len(q) : q[i] = q[j] => i = j
      /\ \A i \in 1..Len(q) : Waiting(w, q[i])
  BY DEF Queued
<1>2. /\ Tail(q) \in Seq(Fd) /\ Len(Tail(q)) = Len(q) - 1
      /\ Len(q) \in Nat \ {0} /\ Head(q) = q[1]
      /\ \A i \in 1..Len(Tail(q)) : Tail(q)[i] = q[i + 1]
  BY <1>1, HeadTailProperties, LenProperties, EmptySeq
<1>3. ASSUME NEW i \in 1..Len(Tail(q))
      PROVE  i + 1 \in 1..Len(q) /\ 1 \in 1..Len(q) /\ i + 1 # 1
  BY <1>2
<1>4. Head(q) \in Fd /\ Waiting(w, Head(q))
  <2>1. 1 \in 1..Len(q)
    BY <1>2
  <2> QED
    BY <1>1, <1>2, <2>1, ElementOfSeq
<1>5. ASSUME NEW i \in 1..Len(Tail(q)) PROVE Waiting(w, Tail(q)[i]) /\ Tail(q)[i] # Head(q)
  <2>1. Tail(q)[i] = q[i + 1]
    BY <1>2
  <2> QED
    BY <1>1, <1>2, <1>3, <2>1
<1>6. ASSUME NEW i \in 1..Len(Tail(q)), NEW j \in 1..Len(Tail(q)), Tail(q)[i] = Tail(q)[j]
      PROVE  i = j
  <2>1. q[i + 1] = q[j + 1]
    BY <1>2, <1>6
  <2>2. i + 1 = j + 1
    BY <1>1, <1>3, <2>1
  <2> QED
    BY <1>2, <2>2
<1> QED
  BY <1>2, <1>4, <1>5, <1>6 DEF Queued

\* A resolver's thread ends: its connection is the one that was waiting.
LEMMA ResolvNext ==
    ASSUME ProxyInv, NEW c \in Conn, request_resolv_blocking(c)
    PROVE  ProxyInv'
<1>1. PICK n \in 0..MaxAddrs : conn' = [conn EXCEPT ![c].thread = FALSE, ![c].addrs = n]
  BY DEF request_resolv_blocking
<1>2. /\ Running /\ conn[c].thread /\ jobs' \in {jobs, <<conn[c].client>> \o jobs}
      /\ UNCHANGED <<item, sock, pool, pool_size, metrics, stopped, phase, todo, accepts>>
  BY DEF request_resolv_blocking
<1> DEFINE r == [World.conn[c] EXCEPT !.thread = FALSE, !.addrs = n]
           v == [World EXCEPT !.conn[c] = r]
<1>3. /\ Safe(World) /\ Conns(World) /\ Queued(World, jobs)
      /\ World \in WorldType /\ World.conn[c] \in ConnType /\ World.stopped = "no"
      /\ World.conn[c].refs \in Nat
  BY <1>2, WorldIs DEF ProxyInv, Running, Live, Safe, Basic, WorldType, ConnType
<1>4. /\ Alive(World, c) /\ World.conn[c].st = "REQUEST_RESOLV" /\ World.conn[c].thread
      /\ World.conn[c].client = conn[c].client
      /\ Sound(World, c)
  BY <1>2, <1>3, WorldIs DEF Conns, Resolving
<1>5. /\ r \in ConnType /\ ~r.thread /\ r.refs >= World.conn[c].refs
      /\ r.live = World.conn[c].live /\ r.client = World.conn[c].client
      /\ r.origin = World.conn[c].origin /\ r.refs = World.conn[c].refs
      /\ r.st = World.conn[c].st /\ r.method = World.conn[c].method
      /\ r.auth = World.conn[c].auth /\ r.status = World.conn[c].status
      /\ r.replies = World.conn[c].replies
  <2> DEFINE x == World.conn[c]
  <2>1. x \in ConnType /\ x.refs \in Nat
    BY <1>3
  <2> HIDE DEF x
  <2>2. /\ r = [x EXCEPT !.thread = FALSE, !.addrs = n] /\ r \in ConnType
    BY <2>1 DEF x, ConnType
  <2>3. /\ ~r.thread /\ r.live = x.live /\ r.client = x.client /\ r.origin = x.origin
        /\ r.refs = x.refs /\ r.st = x.st /\ r.method = x.method /\ r.auth = x.auth
        /\ r.status = x.status /\ r.replies = x.replies
    BY <2>1, <2>2 DEF ConnType
  <2> QED
    BY <2>1, <2>2, <2>3 DEF x
<1>6. Commit(v)
  <2>1. [conn EXCEPT ![c].thread = FALSE, ![c].addrs = n] = [conn EXCEPT ![c] = r]
    BY <1>3, WorldIs DEF WorldType
  <2> QED
    BY <1>1, <1>2, <2>1 DEF Commit, World
<1> HIDE DEF r
<1>7. /\ Safe(v) /\ Frame(World, v, c) /\ Alive(v, c) /\ v.conn[c] = r
      /\ v.item = World.item /\ v.metrics = World.metrics /\ v.stopped = World.stopped
  BY <1>3, <1>4, <1>5, SetSafe
<1> HIDE DEF v
<1>8. Sound(v, c)
  BY <1>4, <1>5, <1>7 DEF Sound, Staged, OwnOrigin
<1>9. Counts(World, v, c)
  <2>1. c \notin Rel(v) /\ c \notin Pend(v)
    BY <1>4, <1>5, <1>7 DEF Rel, Pend
  <2> QED
    BY <1>7, <2>1 DEF Counts
<1>10. Serves(World, v, c)
  BY <1>5, <1>7, <1>8, <1>9 DEF Serves
<1>11. \A i \in 1..Len(jobs) : World.item[jobs[i]].owner # c
  <2> SUFFICES ASSUME NEW i \in 1..Len(jobs), World.item[jobs[i]].owner = c PROVE FALSE
    OBVIOUS
  <2>1. Waiting(World, jobs[i])
    BY <1>3 DEF Queued
  <2> QED
    BY <1>4, <2>1 DEF Waiting
<1>12. Queued(v, jobs)
  BY <1>3, <1>7, <1>11, FrameQueued
<1>13. Queued(v, <<conn[c].client>> \o jobs)
  <2> DEFINE f == conn[c].client
  <2>1. f \in Fd /\ v.item[f].owner = c /\ World.item[f].owner = c
    BY <1>4, <1>7 DEF Alive
  <2>2. Waiting(v, f)
    BY <1>4, <1>5, <1>7, <2>1 DEF Waiting
  <2>3. \A i \in 1..Len(jobs) : jobs[i] # f
    BY <1>11, <2>1
  <2> HIDE DEF f
  <2>4. Queued(v, <<f>> \o jobs)
    BY <1>12, <2>1, <2>2, <2>3, QueueMore
  <2> QED
    BY <2>4 DEF f
<1>14. LoopTypes' /\ Queued(v, jobs')
  BY <1>2, <1>12, <1>13 DEF ProxyInv, LoopTypes
<1> QED
  BY <1>2, <1>3, <1>6, <1>7, <1>10, <1>14, ServedNext

\* An allocation whose result is used unchecked, in the loop or in a thread.
LEMMA MallocNext == ASSUME ProxyInv, unchecked_malloc PROVE ProxyInv'
<1> DEFINE v == [World EXCEPT !.stopped = "abort"]
<1>1. Commit(v)
  BY DEF unchecked_malloc
<1>2. ASSUME NEW e \in todo, NEW c \in Conn, NEW op, NEW st, Serving(e, op, c, st) PROVE ProxyInv'
  BY <1>1, <1>2, IdleNext
<1>3. ASSUME NEW c \in Conn, conn[c].thread, Running, UNCHANGED <<phase, todo, jobs, accepts>>
      PROVE  ProxyInv'
  <2>1. /\ Safe(World) /\ Conns(World) /\ Queued(World, jobs) /\ World.stopped = "no"
        /\ Alive(World, c) /\ LoopTypes'
    BY <1>3, WorldIs DEF ProxyInv, Running, Live, Safe, Conns, Resolving, LoopTypes
  <2>2. /\ Serves(World, v, c) /\ v.stopped \in {"no", "abort"}
        /\ v.conn = World.conn /\ v.item = World.item
    BY <2>1, IdleServes
  <2> HIDE DEF v
  <2>3. Queued(v, jobs')
    BY <1>3, <2>1, <2>2 DEF Queued, Waiting
  <2> QED
    BY <1>1, <1>3, <2>1, <2>2, <2>3, ServedNext
<1> QED
  BY <1>2, <1>3 DEF unchecked_malloc

\* A notification reaches the connection that asked.
LEMMA NotifyNext == ASSUME ProxyInv, handle_block_notifications PROVE ProxyInv'
<1>1. Running /\ UNCHANGED <<todo, accepts>> /\ phase' \in {"select", "notify"}
  BY DEF handle_block_notifications
<1>2. /\ Safe(World) /\ Conns(World) /\ Queued(World, jobs) /\ World.stopped = "no"
      /\ World \in WorldType
  BY <1>1, WorldIs DEF ProxyInv, Running, Live, Safe, Basic
<1>3. LoopTypes'
  BY <1>1 DEF ProxyInv, LoopTypes
<1>4. CASE jobs = << >>
  <2>1. Commit(World) /\ jobs' = jobs
    BY <1>4 DEF handle_block_notifications
  <2>2. World' = World /\ stopped' = stopped
    BY <1>2, <2>1, CommitIs, WorldIs
  <2> QED
    BY <1>1, <1>3, <2>1, <2>2, LoopNext
<1>5. CASE jobs # << >>
  <2> DEFINE f == Head(jobs)
             c == World.item[f].owner
  <2>1. /\ f \in Fd /\ Waiting(World, f) /\ Queued(World, Tail(jobs))
        /\ \A i \in 1..Len(Tail(jobs)) : Tail(jobs)[i] # f
    BY <1>2, <1>5, QueueLess
  <2>2. /\ c \in Conn /\ f = World.conn[c].client /\ World.conn[c].st = "REQUEST_RESOLV"
        /\ ~World.conn[c].thread /\ Alive(World, c)
    BY <2>1 DEF Waiting, Alive
  <2>3. ITEM_USED(World, f) /\ conn[c].st = "REQUEST_RESOLV" /\ c = item[f].owner
    BY <2>1, <2>2, ConnAssumption, WorldIs DEF ITEM_USED, None
  <2>4. jobs' = Tail(jobs)
    BY <1>5 DEF handle_block_notifications
  <2>5. PICK r \in ConnectResults : Commit(request_resolv_done(World, c, f, r))
    BY <1>5, <2>3 DEF handle_block_notifications
  <2> HIDE DEF f, c
  <2> DEFINE v == request_resolv_done(World, c, f, r)
  <2>6. World.conn[c].origin = None /\ World.conn[c].st \in Late
    BY <1>2, <2>2 DEF Conns, Sound, Staged, Early, Late
  <2>7. v.stopped = World.stopped /\ (Failed(World, v, c) \/ Attempted(World, v, c))
    BY <1>2, <2>2, <2>6, ResolvDoneSafe
  <2>8. Commit(v)
    BY <2>5
  <2> HIDE DEF v
  <2>9. Serves(World, v, c)
    BY <1>2, <2>2, <2>6, <2>7, FailedServes, AttemptedServes
  <2>10. \A i \in 1..Len(Tail(jobs)) : World.item[Tail(jobs)[i]].owner # c
    BY <2>1, <2>2 DEF Queued, Waiting
  <2>11. Safe(v) /\ Frame(World, v, c)
    BY <2>9 DEF Serves
  <2>12. Queued(v, Tail(jobs))
    BY <1>2, <2>1, <2>2, <2>10, <2>11, FrameQueued
  <2> QED
    BY <1>1, <1>2, <1>3, <2>2, <2>4, <2>7, <2>8, <2>9, <2>12, ServedNext
<1> QED
  BY <1>4, <1>5

-----------------------------------------------------------------------------
(* selector_destroy: a recursive function of the number of items visited *)

\* g is what visiting the first n items makes of the world.
Visits(g, n) ==
    g = [f \in 0..n |-> IF f = 0 THEN World ELSE selector_unregister_fd(g[f - 1], f)]

\* There is one for every n.
LEMMA VisitsExist == ASSUME NEW n \in Nat PROVE \E g : Visits(g, n)
<1> DEFINE Sel(w, f) == selector_unregister_fd(w, f)
           S == {k \in Nat : ~\E g : Visits(g, k)}
<1>1. S = {}
  <2> SUFFICES ASSUME S # {} PROVE FALSE
    OBVIOUS
  <2>1. PICK m \in S : \A k \in S : m <= k
    BY LeastNat
  <2>2. CASE m = 0
    <3> DEFINE g == [f \in 0..0 |-> World]
    <3>1. \A f \in 0..0 : f = 0
      OBVIOUS
    <3>2. g = [f \in 0..0 |-> IF f = 0 THEN World ELSE Sel(g[f - 1], f)]
      BY <3>1
    <3> HIDE DEF g
    <3>3. Visits(g, 0)
      BY <3>2 DEF Visits
    <3> QED
      BY <2>2, <3>3
  <2>3. CASE m # 0
    <3>1. m - 1 \in Nat /\ m - 1 \notin S
      BY <2>1, <2>3
    <3>2. PICK g : Visits(g, m - 1)
      BY <3>1
    <3>3. g = [f \in 0..(m - 1) |-> IF f = 0 THEN World ELSE Sel(g[f - 1], f)]
      BY <3>2 DEF Visits
    <3> DEFINE h == [f \in 0..m |-> IF f = m THEN Sel(g[m - 1], m) ELSE g[f]]
    <3> HIDE DEF Sel
    <3>4. ASSUME NEW f \in 0..m
          PROVE  h[f] = IF f = 0 THEN World ELSE Sel(h[f - 1], f)
      <4>1. CASE f = m
        <5>1. h[f - 1] = g[m - 1] /\ f # 0
          BY <2>3, <3>1, <4>1
        <5> QED
          BY <4>1, <5>1
      <4>2. CASE f # m
        <5>1. f \in 0..(m - 1) /\ h[f] = g[f]
          BY <3>1, <4>2
        <5>2. g[f] = IF f = 0 THEN World ELSE Sel(g[f - 1], f)
          BY <3>3, <5>1
        <5>3. f # 0 => h[f - 1] = g[f - 1]
          BY <3>1, <5>1
        <5> QED
          BY <5>1, <5>2, <5>3
      <4> QED
        BY <4>1, <4>2
    <3>5. h = [f \in 0..m |-> h[f]]
      OBVIOUS
    <3> HIDE DEF h
    <3>6. h = [f \in 0..m |-> IF f = 0 THEN World ELSE Sel(h[f - 1], f)]
      BY <3>4, <3>5
    <3>7. Visits(h, m)
      BY <3>6 DEF Visits, Sel
    <3> QED
      BY <2>1, <3>7
  <2> QED
    BY <2>2, <2>3
<1> QED
  BY <1>1

\* What the function of the specification computes, step by step.
LEMMA UnregisteredIs ==
    /\ Unregistered[0] = World
    /\ \A f \in 1..MaxFd : Unregistered[f] = selector_unregister_fd(Unregistered[f - 1], f)
<1>1. \E g : Visits(g, MaxFd)
  BY VisitsExist, MaxFdAssumption
<1>2. Unregistered = CHOOSE g : g = [f \in 0..MaxFd |->
                          IF f = 0 THEN World ELSE selector_unregister_fd(g[f - 1], f)]
  BY DEF Unregistered
<1>3. Visits(Unregistered, MaxFd)
  BY <1>1, <1>2 DEF Visits
<1> DEFINE Sel(w, f) == selector_unregister_fd(w, f)
<1>4. Unregistered = [f \in 0..MaxFd |-> IF f = 0 THEN World ELSE Sel(Unregistered[f - 1], f)]
  BY <1>3 DEF Visits
<1> HIDE DEF Sel
<1>5. 0 \in 0..MaxFd /\ \A f \in 1..MaxFd : f \in 0..MaxFd /\ f # 0
  BY MaxFdAssumption
<1> QED
  BY <1>4, <1>5 DEF Sel

\* After n items: they are unused, the others untouched, and only connections
\* with a client further on are still being resolved.
Prefix(u, n) ==
    /\ Basic(u) /\ u.metrics = World.metrics /\ u.stopped = World.stopped
    /\ \A f \in Fd : u.item[f] = IF f <= n THEN Unused ELSE World.item[f]
    /\ \A c \in Conn : u.conn[c].thread =>
         u.conn[c] = World.conn[c] /\ n < World.conn[c].client

\* One more item.
LEMMA PrefixStep ==
    ASSUME ProxyInv, Running, NEW n \in Nat, NEW u, Prefix(u, n), n + 1 \in Fd
    PROVE  Prefix(selector_unregister_fd(u, n + 1), n + 1)
<1> DEFINE f == n + 1
           v == selector_unregister_fd(u, f)
<1>1. /\ Conns(World) /\ Basic(World) /\ World \in WorldType /\ Basic(u) /\ u \in WorldType
      /\ f \in Fd /\ \A g \in Fd : g \in Nat /\ (g <= f <=> g <= n \/ g = f) /\ ~(f <= n)
  BY WorldIs, MaxFdAssumption DEF ProxyInv, Running, Live, Prefix, Basic, Fd
\* What a connection that is being resolved looks like.
<1>2. ASSUME NEW c \in Conn, u.conn[c].thread
      PROVE  /\ u.conn[c] = World.conn[c] /\ World.conn[c].refs = 1
             /\ World.conn[c].client \in Fd /\ World.item[World.conn[c].client].owner = c
             /\ n < World.conn[c].client
  <2>1. u.conn[c] = World.conn[c] /\ n < World.conn[c].client
    BY <1>2 DEF Prefix
  <2>2. Alive(World, c) /\ Sound(World, c) /\ World.conn[c].st = "REQUEST_RESOLV"
    BY <1>1, <1>2, <2>1 DEF Conns, Resolving
  <2> QED
    BY <2>1, <2>2 DEF Alive, Sound, Staged, Early
<1>3. u.item[f] = World.item[f] /\ None \notin Conn
  BY <1>1, ConnAssumption DEF Prefix, None
<1>4. ASSUME NEW c \in Conn, u.conn[c].thread, World.item[f].owner # c
      PROVE  n + 1 < World.conn[c].client
  <2>1. World.conn[c].client # f
    BY <1>2, <1>4
  <2> QED
    BY <1>1, <1>2, <1>4, <2>1
<1> HIDE DEF f
<1>5. CASE u.item[f].owner = None
  <2>1. v = u
    BY <1>5 DEF selector_unregister_fd, ITEM_USED
  <2>2. u.item[f] = Unused
    BY <1>1, <1>5 DEF Basic, WorldType, ItemType, Unused
  <2>3. \A g \in Fd : v.item[g] = IF g <= f THEN Unused ELSE World.item[g]
    BY <1>1, <2>1, <2>2 DEF Prefix
  <2>4. ASSUME NEW c \in Conn, v.conn[c].thread
        PROVE  v.conn[c] = World.conn[c] /\ f < World.conn[c].client
    BY <1>2, <1>3, <1>4, <1>5, <2>1, <2>4 DEF f
  <2> HIDE DEF v
  <2> QED
    BY <2>1, <2>3, <2>4 DEF Prefix, v, f
<1>6. CASE u.item[f].owner # None
  <2> DEFINE d == u.item[f].owner
  <2>1. /\ Basic(v) /\ d \in Conn
        /\ v.metrics = u.metrics /\ v.stopped = u.stopped
        /\ v.item[f] = Unused /\ \A g \in Fd \ {f} : v.item[g] = u.item[g]
        /\ \A e \in Conn \ {d} : v.conn[e] = u.conn[e]
        /\ \/ u.conn[d].refs = 1 /\ v.conn[d] = Blank
           \/ u.conn[d].refs # 1 /\ SameButRefs(v.conn[d], u.conn[d])
    BY <1>1, <1>6, UnregisterBasic
  <2> HIDE DEF v
  <2>2. ~v.conn[d].thread
    <3>1. CASE v.conn[d] = Blank
      BY <3>1 DEF Blank
    <3>2. CASE u.conn[d].refs # 1 /\ SameButRefs(v.conn[d], u.conn[d])
      <4>1. v.conn[d].thread = u.conn[d].thread
        BY <3>2 DEF SameButRefs, Fields
      <4>2. u.conn[d].thread => u.conn[d].refs = 1
        BY <1>2, <2>1
      <4> QED
        BY <3>2, <4>1, <4>2, <2>1, <1>2
    <3> QED
      BY <2>1, <3>1, <3>2
  <2>3. \A g \in Fd : v.item[g] = IF g <= f THEN Unused ELSE World.item[g]
    BY <1>1, <2>1 DEF Prefix
  <2>4. ASSUME NEW c \in Conn, v.conn[c].thread
        PROVE  v.conn[c] = World.conn[c] /\ f < World.conn[c].client
    <3>1. c # d /\ v.conn[c] = u.conn[c] /\ u.conn[c].thread
      BY <2>1, <2>2, <2>4
    <3>2. World.item[f].owner # c
      BY <1>3, <3>1
    <3> QED
      BY <1>2, <1>4, <3>1, <3>2 DEF f
  <2> QED
    BY <2>1, <2>3, <2>4 DEF Prefix, v, f
<1> QED
  BY <1>5, <1>6

\* All of them.
LEMMA AllVisited ==
    ASSUME ProxyInv, Running
    PROVE  Prefix(Unregistered[MaxFd], MaxFd)
<1> DEFINE S == {k \in 0..MaxFd : ~Prefix(Unregistered[k], k)}
<1>1. S = {}
  <2> SUFFICES ASSUME S # {} PROVE FALSE
    OBVIOUS
  <2>1. S \subseteq Nat
    BY MaxFdAssumption
  <2>2. PICK m \in S : \A k \in S : m <= k
    BY <2>1, LeastNat
  <2>3. CASE m = 0
    <3>1. /\ Basic(World) /\ Conns(World) /\ \A f \in Fd : ~(f <= 0)
      BY WorldIs DEF ProxyInv, Running, Live, Fd
    <3>2. \A c \in Conn : World.conn[c].thread => 0 < World.conn[c].client
      BY <3>1 DEF Conns, Resolving, Alive, Fd
    <3>3. Prefix(World, 0)
      BY <3>1, <3>2 DEF Prefix
    <3> QED
      BY <2>2, <2>3, <3>3, UnregisteredIs
  <2>4. CASE m # 0
    <3>1. /\ m - 1 \in 0..MaxFd /\ m - 1 \notin S /\ m \in 1..MaxFd /\ (m - 1) + 1 = m
          /\ m - 1 \in Nat
      BY <2>1, <2>2, <2>4, MaxFdAssumption
    <3>2. Prefix(Unregistered[m - 1], m - 1) /\ m \in Fd
      BY <3>1 DEF Fd
    <3>3. Prefix(selector_unregister_fd(Unregistered[m - 1], m), m)
      BY <3>1, <3>2, PrefixStep
    <3> QED
      BY <2>2, <3>1, <3>3, UnregisteredIs
  <2> QED
    BY <2>3, <2>4
<1> QED
  BY <1>1, MaxFdAssumption

\* main, after the loop.
LEMMA ShutdownNext == ASSUME ProxyInv, shutdown PROVE ProxyInv'
<1> DEFINE u == Unregistered[MaxFd]
           v == [u EXCEPT !.stopped = "exit", !.pool = << >>]
<1>1. Running /\ Commit(v) /\ jobs' = << >> /\ UNCHANGED <<phase, todo, accepts>>
  BY DEF shutdown, ProxyInv, Running
<1>2. Prefix(u, MaxFd)
  BY <1>1, AllVisited
<1> HIDE DEF u
<1>3. /\ Basic(u) /\ u \in WorldType /\ u.metrics = World.metrics
      /\ \A f \in Fd : u.item[f] = Unused
      /\ \A c \in Conn : ~u.conn[c].thread
  <2>1. \A f \in Fd : f <= MaxFd
    BY MaxFdAssumption DEF Fd
  <2>2. \A f \in Fd : u.item[f] = Unused
    BY <1>2, <2>1 DEF Prefix
  <2>3. ASSUME NEW c \in Conn, u.conn[c].thread PROVE FALSE
    <3>1. World.conn[c].thread /\ MaxFd < World.conn[c].client
      BY <1>2, <2>3 DEF Prefix
    <3>2. World.conn[c].client \in Fd
      BY <1>1, <3>1 DEF ProxyInv, Running, Live, Conns, Resolving, Alive
    <3> QED
      BY <2>1, <3>1, <3>2, MaxFdAssumption DEF Fd
  <2> QED
    BY <1>2, <2>2, <2>3 DEF Prefix, Basic
<1>4. /\ v \in WorldType /\ v.conn = u.conn /\ v.item = u.item /\ v.sock = u.sock
      /\ v.metrics = u.metrics /\ v.stopped = "exit" /\ v.pool = << >>
  <2> DEFINE q == << >>
  <2>1. q \in Seq(Conn) /\ u \in WorldType
    BY <1>3
  <2> HIDE DEF q
  <2>2. [u EXCEPT !.stopped = "exit", !.pool = q] \in WorldType
    BY <2>1 DEF WorldType
  <2>3. v = [u EXCEPT !.stopped = "exit", !.pool = q]
    BY DEF q
  <2>4. /\ v.conn = u.conn /\ v.item = u.item /\ v.sock = u.sock
        /\ v.metrics = u.metrics /\ v.stopped = "exit" /\ v.pool = q
    BY <2>1, <2>3 DEF WorldType
  <2> HIDE DEF v
  <2> QED
    BY <2>2, <2>3, <2>4 DEF q
<1> HIDE DEF v
<1>5. Basic(v)
  <2>1. \A d : Owned(v, d) = Owned(u, d)
    BY <1>4 DEF Owned
  <2> QED
    BY <1>3, <1>4, <2>1 DEF Basic
<1>6. None \notin Conn /\ Unused.owner = None
  BY ConnAssumption DEF None, Unused
<1>7. Gone(v, << >>)
  BY <1>3, <1>4, <1>6 DEF Gone
<1>8. Counted(v)
  <2>1. \A c \in Conn : ~Alive(v, c)
    BY <1>3, <1>4, <1>6 DEF Alive
  <2>2. Rel(v) = {} /\ Pend(v) = {}
    BY <2>1 DEF Rel, Pend
  <2>3. Cardinality({}) = 0
    BY FS_EmptySet
  <2>4. /\ World.metrics.concurrent \in Int /\ World.metrics.historic \in Nat
        /\ World.metrics.attempts \in Nat /\ World.metrics.max \in Nat
    BY DEF ProxyInv, Basic, WorldType
  <2>5. Cardinality(Rel(World)) \in Nat /\ Cardinality(Pend(World)) \in Nat
    BY CountedFinite
  <2> QED
    BY <1>3, <1>4, <2>2, <2>3, <2>4, <2>5 DEF Counted, ProxyInv
<1>9. LoopTypes'
  BY <1>1 DEF LoopTypes, ProxyInv
<1>10. World' = v /\ stopped' = v.stopped
  BY <1>1, <1>4, CommitIs
<1> QED
  BY <1>1, <1>4, <1>5, <1>7, <1>8, <1>9, <1>10, InvPrime

-----------------------------------------------------------------------------
(* The invariant *)

\* Nothing is registered and nothing is counted.
LEMMA InitInv == ASSUME Init PROVE ProxyInv
<1>1. None \notin Conn /\ None \notin Fd
  BY ConnAssumption, MaxFdAssumption DEF None, Fd
<1>2. World \in WorldType
  <2>1. Blank \in ConnType
    BY MaxAddrsAssumption DEF Blank, ConnType, Stages
  <2>2. Unused \in ItemType
    BY DEF Unused, ItemType
  <2>3. << >> \in Seq(Conn) /\ 0 \in 0..max_pool
    BY MaxPoolAssumption
  <2>4. /\ conn \in [Conn -> ConnType] /\ item \in [Fd -> ItemType] /\ sock \in [Fd -> SockType]
        /\ metrics \in [attempts : Nat, historic : Nat, concurrent : Int, max : Nat]
    <3> HIDE DEF Blank, Unused
    <3> QED
      BY <2>1, <2>2 DEF Init, SockType
  <2> QED
    BY <2>3, <2>4 DEF Init, World, WorldType
<1>3. /\ \A c \in Conn : World.conn[c] = Blank
      /\ \A f \in Fd : World.item[f] = Unused
      /\ World.pool = << >> /\ World.stopped = "no" /\ jobs = << >>
      /\ World.metrics = [attempts |-> 0, historic |-> 0, concurrent |-> 0, max |-> 0]
  BY DEF Init, World
<1>4. /\ Blank.client = None /\ Blank.refs = 0 /\ ~Blank.thread
      /\ Unused.owner = None /\ Unused.int = {}
  BY DEF Blank, Unused
<1>5. /\ \A c \in Conn : ~Alive(World, c) /\ Owned(World, c) = {}
      /\ \A c \in Conn, f \in Fd : ~Uses(World, c, f)
  BY <1>1, <1>3, <1>4 DEF Alive, Uses, Owned
<1>6. Rel(World) = {} /\ Pend(World) = {}
  BY <1>5 DEF Rel, Pend
<1>7. Cardinality({}) = 0
  BY FS_EmptySet
<1>8. Basic(World)
  <2>1. \A c \in Conn : World.conn[c].refs >= Cardinality(Owned(World, c))
    <3> SUFFICES ASSUME NEW c \in Conn PROVE World.conn[c].refs >= Cardinality(Owned(World, c))
      OBVIOUS
    <3>1. World.conn[c].refs = 0
      BY <1>3, <1>4
    <3>2. Cardinality(Owned(World, c)) = 0
      BY <1>5, <1>7
    <3> QED
      BY <3>1, <3>2
  <2>2. \A i : i \notin 1..Len(World.pool)
    BY <1>3
  <2> QED
    BY <1>2, <1>3, <1>4, <2>1, <2>2 DEF Basic
<1>9. Counted(World)
  BY <1>3, <1>6, <1>7 DEF Counted
<1>10. Live(World, jobs)
  BY <1>3, <1>4, <1>5 DEF Live, Links, Conns, Queued
<1>11. LoopTypes
  BY MaxAcceptsAssumption DEF Init, LoopTypes
<1> QED
  BY <1>3, <1>8, <1>9, <1>10, <1>11, WorldIs DEF ProxyInv

\* A step that changes nothing.
LEMMA StutterNext == ASSUME ProxyInv, UNCHANGED vars PROVE ProxyInv'
<1>1. World' = World /\ stopped' = stopped /\ jobs' = jobs
  BY DEF vars, World
<1>2. LoopTypes'
  BY DEF vars, ProxyInv, LoopTypes
<1> QED
  BY <1>1, <1>2, WorldIs, InvPrime DEF ProxyInv

\* The invariant is kept by every step, one per action of the event loop, of
\* the threads and of the network.
LEMMA NextInv == ASSUME ProxyInv, [Next]_vars PROVE ProxyInv'
<1>1. CASE Loop
  BY <1>1, SelectNext, SkipNext, AbortNext, AcceptNext, HelloReadNext, HelloWriteNext,
     AuthReadNext, AuthWriteNext, RequestReadNext, NotifyNext, ConnectingNext,
     RequestWriteNext, CopyEventNext DEF Loop
<1>2. ASSUME NEW c \in Conn, request_resolv_blocking(c) PROVE ProxyInv'
  BY <1>2, ResolvNext
<1>3. ASSUME NEW f \in Fd, attempt_ends(f) PROVE ProxyInv'
  BY <1>3, AttemptEndsNext
<1>4. CASE shutdown
  BY <1>4, ShutdownNext
<1>5. CASE Terminated \/ UNCHANGED vars
  BY <1>5, StutterNext DEF Terminated
<1>6. CASE unchecked_malloc
  BY <1>6, MallocNext
<1> QED
  BY <1>1, <1>2, <1>3, <1>4, <1>5, <1>6 DEF Next

\* Every reachable state satisfies it.
LEMMA Reachable == Spec => []ProxyInv
<1>1. Init => ProxyInv
  BY InitInv
<1>2. ProxyInv /\ [Next]_vars => ProxyInv'
  BY NextInv
<1> QED
  BY <1>1, <1>2, PTL DEF Spec

-----------------------------------------------------------------------------
(* The properties *)

\* What the properties say in terms of the variables and the invariant in terms
\* of the world.
LEMMA Views ==
    ASSUME ProxyInv
    PROVE  /\ \A c \in Conn : Registered(conn[c].client, c) <=> Alive(World, c)
           /\ \A c : OwnedBy(c) = Owned(World, c)
           /\ Relaying = Rel(World)
           /\ World.stopped = "exit" => \A c \in Conn : ~Alive(World, c)
           /\ World.stopped # "exit" => Live(World, jobs)
           /\ None \notin Conn
<1>1. None \notin Conn
  BY ConnAssumption DEF None
<1>2. \A c \in Conn : Registered(conn[c].client, c) <=> Alive(World, c)
  BY WorldIs DEF Registered, Alive
<1>3. \A c : OwnedBy(c) = Owned(World, c)
  BY WorldIs DEF OwnedBy, Owned
<1>4. Relaying = Rel(World)
  BY <1>2, WorldIs DEF Relaying, Rel
<1>5. World.stopped = "exit" => \A c \in Conn : ~Alive(World, c)
  BY <1>1, WorldIs DEF ProxyInv, Gone, Alive
<1> QED
  BY <1>1, <1>2, <1>3, <1>4, <1>5, WorldIs DEF ProxyInv

\* Every variable has its type: the pool's size, the descriptors in the jobs,
\* the references and, because a connection that ends was counted, the gauge of
\* concurrent connections (socks5nio.h, selector.c and main.c declare them).
THEOREM TypeCorrect == Spec => []TypeOK
<1>1. ASSUME ProxyInv PROVE TypeOK
  <2>1. World \in WorldType /\ LoopTypes
    BY <1>1 DEF ProxyInv, Basic
  <2>2. /\ conn \in [Conn -> ConnType] /\ item \in [Fd -> ItemType] /\ sock \in [Fd -> SockType]
        /\ pool \in Seq(Conn) /\ pool_size \in 0..max_pool
        /\ metrics \in [attempts : Nat, historic : Nat, concurrent : Int, max : Nat]
        /\ stopped \in {"no", "abort", "io", "exit"}
    BY <2>1, WorldIs DEF WorldType
  <2>3. jobs \in Seq(Fd)
    <3>1. << >> \in Seq(Fd)
      OBVIOUS
    <3> QED
      BY <1>1, <3>1 DEF ProxyInv, Live, Gone, Queued
  <2>4. metrics \in [attempts : Nat, historic : Nat, concurrent : Nat, max : Nat]
    <3>1. Cardinality(Rel(World)) \in Nat /\ Cardinality(Rel(World)) <= metrics.concurrent
      BY <1>1, CountedFinite, WorldIs DEF ProxyInv, Counted
    <3>2. metrics.concurrent \in Int
      BY <2>2
    <3>3. metrics.concurrent \in Nat
      BY <3>1, <3>2
    <3> QED
      BY <2>2, <3>3
  <2> QED
    BY <2>1, <2>2, <2>3, <2>4 DEF TypeOK, LoopTypes, ConnType, ItemType, SockType
<1> QED
  BY <1>1, Reachable, PTL

\* No selector entry outlives its struct or, while armed, its descriptor: the
\* event loop never uses a struct that was released, nor fails with EBADF
\* (selector_unregister_fd, socksv5_close, socks5_destroy, handle_iteration).
THEOREM EntriesDoNotDangle == Spec => []NoDanglingEntry
<1>1. ASSUME ProxyInv PROVE NoDanglingEntry
  <2>1. Basic(World)
    BY <1>1 DEF ProxyInv
  <2>2. \A f \in Fd : item[f].owner \in Conn \cup {None}
    BY <2>1, WorldIs DEF Basic, WorldType, ItemType
  <2> QED
    BY <1>1, <2>1, <2>2, Views, WorldIs DEF NoDanglingEntry, Basic, Armed
<1> QED
  BY <1>1, Reachable, PTL

\* A struct enters the pool once and only after its last entry is gone
\* (socks5_new, socks5_destroy).
THEOREM PoolIsSound == Spec => []PoolSound
<1>1. ASSUME ProxyInv PROVE PoolSound
  <2>1. /\ pool \in Seq(Conn)
        /\ \A i, j \in 1..Len(pool) : pool[i] = pool[j] => i = j
        /\ \A i \in 1..Len(pool) : ~conn[pool[i]].live
        /\ \A f \in Fd : item[f].owner # None => conn[item[f].owner].live
    BY <1>1, WorldIs DEF ProxyInv, Basic, WorldType
  <2>2. Cardinality(Pooled) = Len(pool)
    <3> DEFINE n == Len(pool)
               b == [i \in 1..n |-> pool[i]]
    <3>1. n \in Nat
      BY <2>1
    <3>2. b \in Bijection(1..n, Pooled)
      <4>1. b \in [1..n -> Pooled]
        BY DEF Pooled
      <4>2. \A i, j \in 1..n : b[i] = b[j] => i = j
        BY <2>1
      <4>3. \A x \in Pooled : \E i \in 1..n : b[i] = x
        BY DEF Pooled
      <4> HIDE DEF b, n
      <4> QED
        BY <4>1, <4>2, <4>3 DEF Bijection, Injection, Surjection, IsInjective
    <3> HIDE DEF b, n
    <3>3. ExistsBijection(1..n, Pooled)
      BY <3>2 DEF ExistsBijection
    <3>4. Cardinality(Pooled) = n
      BY <3>1, <3>3, FS_CountingElements
    <3> QED
      BY <3>4 DEF n
  <2>3. ASSUME NEW c \in Pooled PROVE ~conn[c].live /\ OwnedBy(c) = {}
    <3>1. ~conn[c].live /\ c \in Conn
      BY <2>1, <2>3, ElementOfSeq DEF Pooled
    <3>2. c # None
      BY <1>1, <3>1, Views
    <3> QED
      BY <2>1, <3>1, <3>2 DEF OwnedBy
  <2> QED
    BY <2>2, <2>3 DEF PoolSound
<1> QED
  BY <1>1, Reachable, PTL

\* The struct a resolver's thread writes to is neither released nor reused
\* until its notification is handled, and the notification, which carries only
\* a descriptor, reaches the connection that asked (request_resolv_blocking,
\* selector_notify_block, handle_block_notifications).
THEOREM ResolverWritesToItsOwn == Spec => []ResolverKeepsStruct
<1>1. ASSUME ProxyInv PROVE ResolverKeepsStruct
  <2>1. CASE stopped = "exit"
    <3>1. jobs = << >> /\ \A c \in Conn : ~conn[c].thread
      BY <1>1, <2>1, WorldIs DEF ProxyInv, Gone
    <3>2. \A i : i \notin 1..Len(jobs)
      BY <3>1
    <3> QED
      BY <3>1, <3>2 DEF ResolverKeepsStruct
  <2>2. CASE stopped # "exit"
    <3>1. Conns(World) /\ Queued(World, jobs) /\ Basic(World) /\ None \notin Conn
      BY <1>1, <2>2, Views DEF ProxyInv, Live
    <3>2. ASSUME NEW c \in Conn, conn[c].thread
          PROVE  /\ conn[c].live /\ conn[c].st = "REQUEST_RESOLV"
                 /\ Registered(conn[c].client, c)
      <4>1. Alive(World, c) /\ conn[c].st = "REQUEST_RESOLV"
        BY <3>1, <3>2, WorldIs DEF Conns, Resolving
      <4>2. conn[c].live
        BY <3>1, <4>1, WorldIs DEF Basic, Alive
      <4> QED
        BY <1>1, <4>1, <4>2, Views
    <3>3. ASSUME NEW i \in 1..Len(jobs)
          PROVE  LET c == item[jobs[i]].owner
                 IN /\ c # None /\ conn[c].client = jobs[i]
                    /\ conn[c].st = "REQUEST_RESOLV" /\ ~conn[c].thread
                    /\ \A j \in 1..Len(jobs) : jobs[j] = jobs[i] => j = i
      BY <3>1, WorldIs DEF Queued, Waiting
    <3> QED
      BY <3>2, <3>3 DEF ResolverKeepsStruct
  <2> QED
    BY <2>1, <2>2
<1> QED
  BY <1>1, Reachable, PTL

\* What a connection's stage guarantees, in terms of the variables.
LEMMA StageFacts ==
    ASSUME ProxyInv, NEW c \in Conn, Registered(conn[c].client, c)
    PROVE  Staged(conn[c])
<1>1. Alive(World, c) /\ Conns(World)
  BY Views DEF Live
<1> QED
  BY <1>1, WorldIs DEF Conns, Sound

\* No order of events, partial writes and failures takes a client to the request
\* past the login its negotiated method asks for (hello_write, auth_write).
THEOREM LoginComesFirst == Spec => []AuthBeforeRequest
<1>1. ProxyInv => AuthBeforeRequest
  BY StageFacts DEF AuthBeforeRequest, Staged, Late
<1> QED
  BY <1>1, Reachable, PTL

\* Every path to REQUEST_WRITE marshals a reply first: errors before and after
\* the origin is known, addresses that ran out, success (request.c, connecting.c).
THEOREM ReplyIsQueued == Spec => []AnswerQueued
<1>1. ProxyInv => AnswerQueued
  BY StageFacts DEF AnswerQueued, Staged
<1> QED
  BY <1>1, Reachable, PTL

\* The gauge counts at least the connections being relayed, so it never wraps,
\* and the metrics keep their order (metrics.c, connecting.c, copy.c).
THEOREM MetricsKeepOrder == Spec => []MetricsOrdered
<1>1. ASSUME ProxyInv PROVE MetricsOrdered
  <2>1. Counted(World) /\ Relaying = Rel(World)
    BY <1>1, Views DEF ProxyInv
  <2>2. Cardinality(Pend(World)) \in Nat
    BY CountedFinite
  <2>3. metrics.historic \in Nat /\ metrics.attempts \in Nat
    BY <1>1, WorldIs DEF ProxyInv, Basic, WorldType
  <2> QED
    BY <2>1, <2>2, <2>3, WorldIs DEF MetricsOrdered, Counted
<1> QED
  BY <1>1, Reachable, PTL

-----------------------------------------------------------------------------
(* Names of at most two addresses, and connects that do not succeed at once *)

\* Within these limits no descriptor is closed while it is registered and no
\* reference is taken for an entry that is there already.
OneRetry == MaxAddrs <= 2 /\ "now" \notin ConnectResults

\* What may end the process: a login of another version, memory that runs out.
Faulty == BadVersion \/ OutOfMemory

\* The stages of the login.
Login == {"HELLO_READ", "HELLO_WRITE", "USERPASS_READ", "USERPASS_WRITE"}

\* c's origin has an entry of its own.
Own(w, c) == w.conn[c].origin # None /\ w.item[w.conn[c].origin].owner = c

ClientInt(w, c) == w.item[w.conn[c].client].int
OriginInt(w, c) == w.item[w.conn[c].origin].int

\* Both attempts of a connection are made on one socket.  Before the second
\* one the origin is silent and the client armed, so that the reply of the
\* failure is sent on; meanwhile a socket that failed at once has no entry yet.
Attempting(w, c) ==
    LET x == w.conn[c]
    IN /\ HasNext(w, c) => x.addrs = 1
       /\ Own(w, c) =>
            \/ ClientInt(w, c) = {} /\ OriginInt(w, c) = {W}
            \/ ClientInt(w, c) = {W} /\ OriginInt(w, c) = {} /\ x.status = "err"
       /\ Own(w, c) /\ x.status = "err" => ~HasNext(w, c)
       /\ ~Own(w, c) => ClientInt(w, c) = {W} /\ x.status = "err"
       /\ ~Own(w, c) /\ x.origin # None => w.sock[x.origin] = "new"

\* What is armed in each stage, and the entries counted.  Only if memory ran out
\* a client is armed to be told of it in REQUEST_READ, and COPY and the reply
\* before it lack an origin.
Shaped(w, c) ==
    LET x == w.conn[c]
    IN /\ x.refs = IF Own(w, c) THEN 2 ELSE 1
       /\ x.st \in Early => ~x.resolved
       /\ x.st \in Login => x.replies = 0
       /\ x.st \in {"HELLO_READ", "USERPASS_READ"} => ClientInt(w, c) = {R}
       /\ x.st = "REQUEST_READ" => IF x.replies = 0 THEN ClientInt(w, c) = {R}
                                   ELSE ClientInt(w, c) = {W} /\ OutOfMemory
       /\ x.st \in {"HELLO_WRITE", "USERPASS_WRITE", "REQUEST_WRITE"} => ClientInt(w, c) = {W}
       /\ x.st = "REQUEST_RESOLV" => ClientInt(w, c) = {}
       /\ x.st = "REQUEST_CONNECTING" => Attempting(w, c)
       /\ x.st = "REQUEST_WRITE" => IF Own(w, c) THEN OriginInt(w, c) = {} ELSE x.origin = None
       /\ x.st = "COPY" => Own(w, c) \/ x.origin = None
       /\ x.st = "REQUEST_WRITE" /\ x.status = "ok" => Own(w, c) \/ OutOfMemory
       /\ x.st = "COPY" =>
            \/ OutOfMemory
            \/ Own(w, c) /\ (ClientInt(w, c) # {} \/ OriginInt(w, c) # {})

\* Every entry is used by its owner, and every struct in use has its client's.
Tight(w) ==
    /\ \A f \in Fd : w.item[f].owner # None => Uses(w, w.item[f].owner, f)
    /\ \A c \in Conn : w.conn[c].live => Alive(w, c)
    /\ \A c \in Conn : Alive(w, c) => Shaped(w, c)
    /\ w.stopped = "abort" => Faulty

\* From w to v only c changes, and of the descriptors only f and g.
Only(w, v, c, f, g) ==
    /\ v \in WorldType /\ v.stopped = w.stopped
    /\ \A d \in Conn \ {c} : v.conn[d] = w.conn[d]
    /\ \A h \in Fd \ {f, g} : v.item[h] = w.item[h] /\ v.sock[h] = w.sock[h]

\* A call for c has left the others alone.
Leaves(w, v, c) ==
    /\ v \in WorldType /\ Tight(v)
    /\ \A d \in Conn \ {c} : v.conn[d] = w.conn[d] /\ (Alive(v, d) <=> Alive(w, d))

\* c's descriptors are nobody else's.
LEMMA Others ==
    ASSUME NEW w, NEW c \in Conn, Safe(w), NEW f \in Fd, Uses(w, c, f) \/ w.sock[f] = "free",
           NEW d \in Conn \ {c}
    PROVE  ~Uses(w, d, f)
BY DEF Safe, Links

\* A connection that nothing was done to keeps its shape.
LEMMA ShapedSame ==
    ASSUME NEW w, NEW v, NEW d \in Conn, v.conn[d] = w.conn[d], w.conn[d] \in ConnType,
           Alive(w, d),
           \A f \in Fd : Uses(w, d, f) => v.item[f] = w.item[f] /\ v.sock[f] = w.sock[f],
           Shaped(w, d)
    PROVE  Shaped(v, d)
<1> DEFINE x == w.conn[d]
<1>1. /\ x.client \in Fd /\ x.origin \in Fd \cup {None} /\ Uses(w, d, x.client)
      /\ x.origin # None => Uses(w, d, x.origin) /\ x.origin \in Fd
  BY DEF ConnType, Alive, Uses, None, Fd
<1>2. /\ v.item[x.client] = w.item[x.client]
      /\ x.origin # None => /\ v.item[x.origin] = w.item[x.origin]
                            /\ v.sock[x.origin] = w.sock[x.origin]
  BY <1>1
<1>3. (Own(v, d) <=> Own(w, d)) /\ ClientInt(v, d) = ClientInt(w, d)
  BY <1>2 DEF Own, ClientInt
<1>4. Own(w, d) => OriginInt(v, d) = OriginInt(w, d)
  BY <1>2 DEF Own, OriginInt
<1>5. HasNext(v, d) <=> HasNext(w, d)
  BY DEF HasNext
<1>6. x.st = "REQUEST_CONNECTING" => Attempting(v, d)
  BY <1>2, <1>3, <1>4, <1>5 DEF Shaped, Attempting
<1> QED
  BY <1>3, <1>4, <1>6 DEF Shaped

\* What a call for c has to leave.
LEMMA TightKept ==
    ASSUME NEW w, NEW v, NEW c \in Conn, Safe(w), Tight(w), NEW F \in SUBSET Fd,
           v \in WorldType, \A d \in Conn \ {c} : v.conn[d] = w.conn[d],
           \A f \in Fd \ F : v.item[f] = w.item[f] /\ v.sock[f] = w.sock[f],
           v.stopped = "abort" => Faulty,
           \A f \in F : /\ Uses(w, c, f) \/ w.sock[f] = "free"
                        /\ v.item[f].owner \in {c, None}
                        /\ v.item[f].owner = c => Uses(v, c, f),
           \A f \in Fd \ F : w.item[f].owner # c,
           v.conn[c].live => Alive(v, c),
           Alive(v, c) => Shaped(v, c)
    PROVE  Leaves(w, v, c)
<1>1. w \in WorldType /\ None \notin Conn
  BY ConnAssumption DEF Safe, Basic, None
<1>2. ASSUME NEW d \in Conn \ {c}
      PROVE  /\ \A f \in Fd : Uses(w, d, f) => v.item[f] = w.item[f] /\ v.sock[f] = w.sock[f]
             /\ Alive(w, d) <=> Alive(v, d)
  <2>1. \A f \in F : ~Uses(w, d, f)
    BY Others
  <2>2. \A f \in F : w.item[f].owner # d
    BY <1>1, <2>1 DEF Tight
  <2>3. \A f \in Fd : v.item[f].owner = d <=> w.item[f].owner = d
    BY <1>1, <2>2
  <2> QED
    BY <2>1, <2>3 DEF Alive
<1>3. ASSUME NEW f \in Fd, v.item[f].owner # None PROVE Uses(v, v.item[f].owner, f)
  <2>1. CASE f \in F
    BY <1>3, <2>1
  <2>2. CASE f \notin F
    <3> DEFINE d == w.item[f].owner
    <3>1. d = v.item[f].owner /\ d \in Conn \ {c} /\ Uses(w, d, f)
      BY <1>1, <1>3, <2>2 DEF Tight, WorldType, ItemType
    <3> HIDE DEF d
    <3> QED
      BY <1>2, <3>1 DEF Uses
  <2> QED
    BY <2>1, <2>2
<1>4. ASSUME NEW d \in Conn, v.conn[d].live PROVE Alive(v, d)
  BY <1>2, <1>4 DEF Tight
<1>5. ASSUME NEW d \in Conn, Alive(v, d) PROVE Shaped(v, d)
  <2>1. CASE d = c
    BY <1>5, <2>1
  <2>2. CASE d # c
    <3>1. Alive(w, d) /\ v.conn[d] = w.conn[d] /\ w.conn[d] \in ConnType
      BY <1>1, <1>2, <1>5, <2>2 DEF WorldType
    <3>2. Shaped(w, d)
      BY <3>1 DEF Tight
    <3> QED
      BY <1>2, <2>2, <3>1, <3>2, ShapedSame
  <2> QED
    BY <2>1, <2>2
<1> QED
  BY <1>2, <1>3, <1>4, <1>5 DEF Tight, Leaves

\* A struct is set.
LEMMA SetIs ==
    ASSUME NEW w \in WorldType, NEW c \in Conn, NEW r \in ConnType
    PROVE  LET v == [w EXCEPT !.conn[c] = r]
           IN /\ Only(w, v, c, None, None)
              /\ v.conn[c] = r /\ v.item = w.item /\ v.sock = w.sock
BY DEF Only, WorldType, None, Fd

\* One change after the other.
LEMMA OnlyTrans ==
    ASSUME NEW w, NEW u, NEW v, NEW c, NEW l, NEW o, NEW f, NEW g, NEW a, NEW b,
           Only(w, u, c, f, g), Only(u, v, c, a, b),
           f \in {l, o, None}, g \in {l, o, None}, a \in {l, o, None}, b \in {l, o, None}
    PROVE  Only(w, v, c, l, o)
<1>1. None \notin Fd
  BY DEF None, Fd
<1> QED
  BY <1>1 DEF Only

\* The interests of an item.
LEMMA InterestIs ==
    ASSUME NEW w \in WorldType, NEW c \in Conn, NEW f \in Fd \cup {None},
           NEW i \in SUBSET {R, W}, NEW v, v = selector_set_interest(w, f, i)
    PROVE  /\ Only(w, v, c, f, None) /\ v.conn = w.conn /\ v.sock = w.sock
           /\ \A g \in Fd \ {f} : v.item[g] = w.item[g]
           /\ f \in Fd => v.item[f].owner = w.item[f].owner
           /\ f \in Fd /\ w.item[f].owner # None => v.item[f].int = i
<1>1. CASE ITEM_USED(w, f)
  <2>1. v = [w EXCEPT !.item[f].int = i] /\ f \in Fd /\ w.item[f].owner # None
    BY <1>1 DEF selector_set_interest, ITEM_USED
  <2>2. w.item[f] \in ItemType /\ w.item \in [Fd -> ItemType]
    BY <2>1 DEF WorldType
  <2> DEFINE y == [owner |-> w.item[f].owner, int |-> i]
  <2>3. y \in ItemType /\ y = [w.item[f] EXCEPT !.int = i]
    BY <2>2 DEF ItemType
  <2>4. v.item = [w.item EXCEPT ![f].int = i]
    BY <2>1 DEF WorldType
  <2>5. /\ v.conn = w.conn /\ v.sock = w.sock /\ v.stopped = w.stopped
        /\ v.item[f] = y /\ \A g \in Fd \ {f} : v.item[g] = w.item[g]
    BY <2>1, <2>2, <2>3, <2>4 DEF WorldType
  <2>6. [w.item EXCEPT ![f].int = i] \in [Fd -> ItemType]
    BY <2>1, <2>2, <2>3
  <2>7. v \in WorldType
    BY <2>1, <2>6 DEF WorldType
  <2> QED
    BY <2>1, <2>5, <2>7 DEF Only
<1>2. CASE ~ITEM_USED(w, f)
  BY <1>2 DEF selector_set_interest, ITEM_USED, Only
<1> QED
  BY <1>1, <1>2

\* The fields the shape depends on, but the stage, the status and the references.
Kept(x, y) ==
    /\ y.live = x.live /\ y.client = x.client /\ y.origin = x.origin
    /\ y.addrs = x.addrs /\ y.resolved = x.resolved /\ y.thread = x.thread

\* All of them but the status.
KeptButStatus(x, y) == Kept(x, y) /\ y.st = x.st /\ y.refs = x.refs

\* The status.
LEMMA StatusIs ==
    ASSUME NEW w \in WorldType, NEW c \in Conn, NEW s \in {"ok", "err"},
           NEW v, v = Status(w, c, s)
    PROVE  /\ Only(w, v, c, None, None) /\ v.item = w.item /\ v.sock = w.sock
           /\ KeptButStatus(w.conn[c], v.conn[c]) /\ v.conn[c].status = s
<1> DEFINE r == [w.conn[c] EXCEPT !.status = s]
<1>1. w.conn[c] \in ConnType
  BY DEF WorldType
<1>2. r \in ConnType /\ KeptButStatus(w.conn[c], r) /\ r.status = s
  BY <1>1 DEF ConnType, KeptButStatus, Kept
<1>3. v = [w EXCEPT !.conn[c] = r]
  BY DEF Status
<1> HIDE DEF r
<1>4. /\ Only(w, v, c, None, None)
      /\ v.conn[c] = r /\ v.item = w.item /\ v.sock = w.sock
  BY <1>2, <1>3, SetIs
<1> QED
  BY <1>2, <1>4

\* The stage.
LEMMA StageIs ==
    ASSUME NEW w \in WorldType, NEW c \in Conn, NEW s \in Stages,
           NEW v, v = Stage(w, c, s)
    PROVE  /\ Only(w, v, c, None, None) /\ v.item = w.item /\ v.sock = w.sock
           /\ Kept(w.conn[c], v.conn[c]) /\ v.conn[c].refs = w.conn[c].refs
           /\ v.conn[c].st = s /\ v.conn[c].status = w.conn[c].status
           /\ v.conn[c].replies = w.conn[c].replies
<1> DEFINE r == [w.conn[c] EXCEPT !.st = s]
<1>1. w.conn[c] \in ConnType
  BY DEF WorldType
<1>2. /\ r \in ConnType /\ Kept(w.conn[c], r) /\ r.refs = w.conn[c].refs
      /\ r.st = s /\ r.status = w.conn[c].status /\ r.replies = w.conn[c].replies
  BY <1>1 DEF ConnType, Kept
<1>3. v = [w EXCEPT !.conn[c] = r]
  BY DEF Stage
<1> HIDE DEF r
<1>4. /\ Only(w, v, c, None, None)
      /\ v.conn[c] = r /\ v.item = w.item /\ v.sock = w.sock
  BY <1>2, <1>3, SetIs
<1> QED
  BY <1>2, <1>4

\* A reference.
LEMMA ReferIs ==
    ASSUME NEW w \in WorldType, NEW c \in Conn, NEW v, v = refer(w, c)
    PROVE  /\ Only(w, v, c, None, None) /\ v.item = w.item /\ v.sock = w.sock
           /\ Kept(w.conn[c], v.conn[c]) /\ v.conn[c].refs = w.conn[c].refs + 1
           /\ v.conn[c].st = w.conn[c].st /\ v.conn[c].status = w.conn[c].status
<1> DEFINE r == [w.conn[c] EXCEPT !.refs = @ + 1]
<1>1. w.conn[c] \in ConnType /\ w.conn[c].refs \in Nat
  BY DEF WorldType, ConnType
<1>2. /\ r \in ConnType /\ Kept(w.conn[c], r) /\ r.refs = w.conn[c].refs + 1
      /\ r.st = w.conn[c].st /\ r.status = w.conn[c].status
  BY <1>1 DEF ConnType, Kept
<1>3. v = [w EXCEPT !.conn[c] = r]
  BY DEF refer
<1> HIDE DEF r
<1>4. /\ Only(w, v, c, None, None)
      /\ v.conn[c] = r /\ v.item = w.item /\ v.sock = w.sock
  BY <1>2, <1>3, SetIs
<1> QED
  BY <1>2, <1>4

\* A reply.
LEMMA ReplyIs ==
    ASSUME NEW w \in WorldType, NEW c \in Conn,
           NEW v, v = [w EXCEPT !.conn[c].replies = @ + 1]
    PROVE  /\ Only(w, v, c, None, None) /\ v.item = w.item /\ v.sock = w.sock
           /\ KeptButStatus(w.conn[c], v.conn[c]) /\ v.conn[c].status = w.conn[c].status
           /\ v.conn[c].replies # 0
<1> DEFINE r == [w.conn[c] EXCEPT !.replies = @ + 1]
<1>1. w.conn[c] \in ConnType /\ w.conn[c].replies \in Nat
  BY DEF WorldType, ConnType
<1>2. r \in ConnType /\ KeptButStatus(w.conn[c], r) /\ r.status = w.conn[c].status
      /\ r.replies # 0
  BY <1>1 DEF ConnType, KeptButStatus, Kept
<1>3. v = [w EXCEPT !.conn[c] = r]
  BY <1>1
<1> DEFINE u == [w EXCEPT !.conn[c] = r]
<1> HIDE DEF r
<1>4. /\ Only(w, u, c, None, None)
      /\ u.conn[c] = r /\ u.item = w.item /\ u.sock = w.sock
  BY ONLY <1>2, SetIs
<1> HIDE DEF u
<1> QED
  BY <1>2, <1>3, <1>4 DEF u

\* A reply to the client, which is armed to send it.
LEMMA HandlerIs ==
    ASSUME NEW w \in WorldType, NEW c \in Conn, Alive(w, c), NEW v, v = error_handler(w, c)
    PROVE  /\ Only(w, v, c, w.conn[c].client, None) /\ v.sock = w.sock
           /\ KeptButStatus(w.conn[c], v.conn[c]) /\ v.conn[c].status = w.conn[c].status
           /\ v.item[w.conn[c].client].owner = c /\ v.item[w.conn[c].client].int = {W}
           /\ v.conn[c].replies # 0
<1> DEFINE a == [w EXCEPT !.conn[c].replies = @ + 1]
           l == w.conn[c].client
<1>1. l \in Fd /\ w.item[l].owner = c /\ None \notin Conn /\ {W} \in SUBSET {R, W}
      /\ v = selector_set_interest(a, l, {W})
  BY ConnAssumption DEF WorldType, None, Alive, error_handler
<1>2. /\ Only(w, a, c, None, None) /\ a.item = w.item /\ a.sock = w.sock
      /\ KeptButStatus(w.conn[c], a.conn[c]) /\ a.conn[c].status = w.conn[c].status
      /\ a.conn[c].replies # 0
  BY ReplyIs
<1> HIDE DEF a, l
<1>3. a \in WorldType
  BY <1>2 DEF Only
<1>4. /\ Only(a, v, c, l, None) /\ v.conn = a.conn /\ v.sock = a.sock
      /\ v.item[l].owner = a.item[l].owner
      /\ a.item[l].owner # None => v.item[l].int = {W}
  BY <1>1, <1>3, InterestIs
<1>5. Only(w, v, c, l, None)
  BY <1>2, <1>4 DEF Only
<1> QED
  BY <1>1, <1>2, <1>4, <1>5 DEF l

\* c's client is armed to send a reply; its origin, which need not have an
\* entry, is silent.
Told(w, v, c) ==
    LET l == w.conn[c].client
        o == w.conn[c].origin
    IN /\ Only(w, v, c, l, o) /\ v.sock = w.sock /\ KeptButStatus(w.conn[c], v.conn[c])
       /\ v.item[l].owner = c /\ v.item[l].int = {W}
       /\ o # None => /\ v.item[o].owner = w.item[o].owner
                      /\ w.item[o].owner # None => v.item[o].int = {}

\* The origin, which need not have an entry, is silenced as well.
LEMMA ToldIs ==
    ASSUME NEW w \in WorldType, NEW c \in Conn, Alive(w, c),
           w.conn[c].client # w.conn[c].origin,
           NEW v, v = error_handler_to_client(w, c)
    PROVE  Told(w, v, c) /\ v.conn[c].status = w.conn[c].status
<1> DEFINE t == error_handler(w, c)
           l == w.conn[c].client
           o == w.conn[c].origin
<1>1. l \in Fd /\ o \in Fd \cup {None} /\ {} \in SUBSET {R, W} /\ l # o
  BY DEF WorldType, ConnType, Alive
<1>2. v = selector_set_interest(t, o, {})
  BY DEF error_handler_to_client, error_handler
<1>3. /\ Only(w, t, c, l, None) /\ t.sock = w.sock
      /\ KeptButStatus(w.conn[c], t.conn[c]) /\ t.conn[c].status = w.conn[c].status
      /\ t.item[l].owner = c /\ t.item[l].int = {W}
  BY HandlerIs
<1> HIDE DEF t, l, o
<1>4. t \in WorldType
  BY <1>3 DEF Only
<1>5. /\ Only(t, v, c, o, None) /\ v.conn = t.conn /\ v.sock = t.sock
      /\ \A g \in Fd \ {o} : v.item[g] = t.item[g]
      /\ o \in Fd => v.item[o].owner = t.item[o].owner
      /\ o \in Fd /\ t.item[o].owner # None => v.item[o].int = {}
  BY <1>1, <1>2, <1>4, InterestIs
<1>6. Only(w, v, c, l, o)
  BY <1>3, <1>5 DEF Only, None, Fd
<1>7. o # None => o \in Fd /\ t.item[o] = w.item[o]
  BY <1>1, <1>3 DEF Only
<1> QED
  BY <1>1, <1>3, <1>5, <1>6, <1>7 DEF KeptButStatus, Kept, Told, l, o

\* A failure told to the client.
LEMMA FailIs ==
    ASSUME NEW w \in WorldType, NEW c \in Conn, Alive(w, c),
           w.conn[c].client # w.conn[c].origin,
           NEW v, v = error_handler_to_client(Status(w, c, "err"), c)
    PROVE  Told(w, v, c) /\ v.conn[c].status = "err"
<1> DEFINE u == Status(w, c, "err")
<1>1. /\ Only(w, u, c, None, None) /\ u.item = w.item /\ u.sock = w.sock
      /\ KeptButStatus(w.conn[c], u.conn[c]) /\ u.conn[c].status = "err"
  BY StatusIs
<1>2. v = error_handler_to_client(u, c)
  OBVIOUS
<1> HIDE DEF u
<1>3. /\ u.conn[c].client = w.conn[c].client /\ u.conn[c].origin = w.conn[c].origin
      /\ u \in WorldType
  BY <1>1 DEF KeptButStatus, Kept, Only
<1>4. Alive(u, c)
  BY <1>1, <1>3 DEF Alive
<1>5. u.conn[c].client # u.conn[c].origin
  BY <1>3
<1>6. Told(u, v, c) /\ v.conn[c].status = u.conn[c].status
  BY ONLY <1>2, <1>3, <1>4, <1>5, c \in Conn, ToldIs
<1>7. /\ Only(u, v, c, w.conn[c].client, w.conn[c].origin) /\ v.sock = u.sock
      /\ KeptButStatus(u.conn[c], v.conn[c])
  BY <1>3, <1>6 DEF Told
<1>8. Only(w, v, c, w.conn[c].client, w.conn[c].origin)
  BY ONLY <1>1, <1>7, OnlyTrans
<1>9. KeptButStatus(w.conn[c], v.conn[c])
  BY <1>1, <1>7 DEF KeptButStatus, Kept
<1> QED
  BY <1>1, <1>3, <1>6, <1>7, <1>8, <1>9 DEF Told

\* An attempt is counted.
LEMMA AttemptCounted ==
    ASSUME NEW w \in WorldType, NEW c \in Conn,
           NEW v, v = [w EXCEPT !.metrics.attempts = @ + 1]
    PROVE  /\ Only(w, v, c, None, None)
           /\ v.conn = w.conn /\ v.item = w.item /\ v.sock = w.sock
<1> DEFINE m == [w.metrics EXCEPT !.attempts = @ + 1]
<1>1. w.metrics \in [attempts : Nat, historic : Nat, concurrent : Int, max : Nat]
  BY DEF WorldType
<1>2. m \in [attempts : Nat, historic : Nat, concurrent : Int, max : Nat]
  BY <1>1
<1>3. v = [w EXCEPT !.metrics = m]
  OBVIOUS
<1> HIDE DEF m
<1> QED
  BY <1>2, <1>3 DEF WorldType, Only

\* What connect() leaves of the socket.
LEMMA AfterConnectIs ==
    ASSUME NEW w \in WorldType, NEW c \in Conn, NEW f \in Fd, NEW r,
           NEW v, v = AfterConnect(w, f, r)
    PROVE  /\ Only(w, v, c, f, None) /\ v.conn = w.conn /\ v.item = w.item
           /\ r = "fail" /\ w.sock[f] \in {"new", "dead"} => v.sock[f] = "new"
<1> DEFINE s == IF r = "inprogress" THEN "connecting"
                ELSE IF r = "now" THEN "up"
                ELSE IF w.sock[f] \in {"error", "dead"} THEN "new" ELSE w.sock[f]
<1>0. f # None
  BY DEF None, Fd
<1>1. f # None /\ w.sock[f] \in SockType /\ w.sock \in [Fd -> SockType]
  BY <1>0 DEF WorldType
<1>2. s \in SockType
  BY <1>1 DEF SockType
<1>3. v = [w EXCEPT !.sock[f] = s]
  BY <1>1 DEF AfterConnect
<1>4. r = "fail" /\ w.sock[f] \in {"new", "dead"} => s = "new"
  BY <1>1
<1> HIDE DEF s
<1>5. /\ v.sock = [w.sock EXCEPT ![f] = s] /\ v.conn = w.conn /\ v.item = w.item
      /\ v.stopped = w.stopped
  BY <1>3 DEF WorldType
<1>6. v \in WorldType
  <2>1. [w.sock EXCEPT ![f] = s] \in [Fd -> SockType]
    BY <1>1, <1>2
  <2> QED
    BY ONLY w \in WorldType, <1>3, <2>1 DEF WorldType
<1> QED
  BY <1>1, <1>4, <1>5, <1>6 DEF Only

\* An item is taken.
LEMMA RegisterIs ==
    ASSUME NEW w \in WorldType, NEW c \in Conn, NEW f \in Fd, NEW i \in SUBSET {R, W},
           NEW v, v = selector_register(w, f, c, i)
    PROVE  /\ Only(w, v, c, f, None) /\ v.conn = w.conn /\ v.sock = w.sock
           /\ v.item[f].owner = c /\ v.item[f].int = i
<1> DEFINE y == [owner |-> c, int |-> i]
<1>1. y \in ItemType /\ y.owner = c /\ y.int = i
  BY DEF ItemType
<1>2. v = [w EXCEPT !.item[f] = y]
  BY DEF selector_register
<1> HIDE DEF y
<1>3. /\ v.item = [w.item EXCEPT ![f] = y] /\ v.conn = w.conn /\ v.sock = w.sock
      /\ v.stopped = w.stopped /\ w.item \in [Fd -> ItemType]
  BY <1>2 DEF WorldType
<1>4. [w.item EXCEPT ![f] = y] \in [Fd -> ItemType]
  BY <1>1, <1>3
<1>5. v \in WorldType
  BY ONLY <1>2, <1>4 DEF WorldType
<1>6. v.item[f] = y /\ \A g \in Fd \ {f} : v.item[g] = w.item[g]
  BY <1>3
<1>7. v.item[f].owner = c /\ v.item[f].int = i
  BY <1>1, <1>6
<1> QED
  BY <1>3, <1>5, <1>6, <1>7 DEF Only

\* What an attempt from the world w, for the client l and the socket o, comes
\* to: the client is told of a failure, or the origin gets its entry.
Outcome(w, v, c, l, o) ==
    /\ Kept(w.conn[c], v.conn[c]) /\ v.conn[c].st = w.conn[c].st /\ v.item[l].owner = c
    /\ \/ /\ v.conn[c].status = "err" /\ v.conn[c].refs = w.conn[c].refs
          /\ v.item[l].int = {W}
          /\ o # None => /\ v.item[o].owner = w.item[o].owner
                         /\ v.item[o].owner # None => v.item[o].int = {}
                         /\ v.sock[o] = "new"
       \/ /\ v.conn[c].status = w.conn[c].status
          /\ v.conn[c].refs = w.conn[c].refs + 1
          /\ o # None /\ w.item[o].owner = None /\ v.item[l].int = {}
          /\ v.item[o].owner = c /\ v.item[o].int = {W}

\* connection(), on a new socket without an entry or on the one that failed
\* before.
LEMMA ConnectionIs ==
    ASSUME OneRetry, NEW w \in WorldType, NEW c \in Conn, Alive(w, c),
           NEW l, l = w.conn[c].client, NEW o, o = w.conn[c].origin, l # o,
           NEW k \in Fd, k \in {l, o}, w.item[k].owner = c, NEW r \in ConnectResults,
           o # None => \/ w.sock[o] = "new" /\ w.item[o].owner = None
                       \/ w.sock[o] = "dead" /\ w.item[o].owner = c,
           NEW v, v = connection(w, c, k, r)
    PROVE  Only(w, v, c, l, o) /\ Outcome(w, v, c, l, o)
<1> DEFINE a == [w EXCEPT !.metrics.attempts = @ + 1]
           res == ConnectResult(w, o, r)
           b == AfterConnect(a, o, res)
           q == selector_set_interest(b, k, {})
           g == selector_register(q, o, c, {W})
<1>1. /\ l \in Fd /\ o \in Fd \cup {None} /\ None \notin Conn /\ None \notin Fd
      /\ w.item[l].owner = c /\ {} \in SUBSET {R, W} /\ {W} \in SUBSET {R, W}
  BY ConnAssumption DEF WorldType, ConnType, Alive, None, Fd
<1>2. ConnectResults \subseteq {"inprogress", "fail"}
  BY ConnectAssumption DEF OneRetry
<1>3. /\ res \in {"inprogress", "fail"}
      /\ res = "inprogress" => o # None /\ w.sock[o] = "new" /\ w.item[o].owner = None
  BY <1>1, <1>2 DEF ConnectResult
<1>4. v = IF res = "fail" THEN error_handler_to_client(Status(b, c, "err"), c)
          ELSE IF ITEM_USED(q, o)
               THEN [close(error_handler_to_client(Status(q, c, "err"), c), o)
                       EXCEPT !.conn[c].origin = None]
               ELSE refer(g, c)
  BY <1>3 DEF connection
<1> HIDE DEF res
<1>5. Only(w, a, c, None, None) /\ a.conn = w.conn /\ a.item = w.item /\ a.sock = w.sock
  BY AttemptCounted
<1> HIDE DEF a
<1>6. a \in WorldType
  BY <1>5 DEF Only
<1>7. /\ Only(w, b, c, o, None) /\ b.conn = w.conn /\ b.item = w.item
      /\ o # None /\ res = "fail" => b.sock[o] = "new"
  <2>1. CASE o = None
    <3>1. b = a
      BY <2>1 DEF AfterConnect
    <3> QED
      BY <1>5, <2>1, <3>1 DEF Only
  <2>2. CASE o # None
    <3>1. /\ Only(a, b, c, o, None) /\ b.conn = a.conn /\ b.item = a.item
          /\ res = "fail" /\ a.sock[o] \in {"new", "dead"} => b.sock[o] = "new"
      BY <1>1, <1>6, <2>2, AfterConnectIs
    <3> QED
      BY <1>1, <1>5, <2>2, <3>1 DEF Only
  <2> QED
    BY <2>1, <2>2
<1> HIDE DEF b
<1>8. b \in WorldType /\ Alive(b, c) /\ b.conn[c].client = l /\ b.conn[c].origin = o
  BY <1>7 DEF Only, Alive
<1>9. CASE res = "fail"
  <2>1. v = error_handler_to_client(Status(b, c, "err"), c)
    BY <1>4, <1>9
  <2>2. b.conn[c].client # b.conn[c].origin
    BY <1>8
  <2>3. /\ Only(b, v, c, b.conn[c].client, b.conn[c].origin) /\ v.sock = b.sock
        /\ KeptButStatus(b.conn[c], v.conn[c]) /\ v.conn[c].status = "err"
        /\ v.item[b.conn[c].client].owner = c /\ v.item[b.conn[c].client].int = {W}
        /\ b.conn[c].origin # None =>
             /\ v.item[b.conn[c].origin].owner = b.item[b.conn[c].origin].owner
             /\ b.item[b.conn[c].origin].owner # None => v.item[b.conn[c].origin].int = {}
    <3>1. b \in WorldType /\ c \in Conn /\ Alive(b, c)
      BY <1>8
    <3>2. Told(b, v, c) /\ v.conn[c].status = "err"
      BY ONLY <2>1, <2>2, <3>1, FailIs
    <3> QED
      BY <3>2 DEF Told
  <2>4. Only(w, v, c, l, o)
    BY <1>7, <1>8, <2>3 DEF Only, None, Fd
  <2> QED
    BY <1>7, <1>8, <1>9, <2>3, <2>4 DEF KeptButStatus, Outcome
<1>10. CASE res = "inprogress"
  <2>1. /\ Only(b, q, c, k, None) /\ q.conn = b.conn /\ q.sock = b.sock
        /\ \A h \in Fd \ {k} : q.item[h] = b.item[h]
        /\ q.item[k].owner = b.item[k].owner
        /\ b.item[k].owner # None => q.item[k].int = {}
    BY <1>1, <1>8, InterestIs
  <2>2. k = l /\ o \in Fd
    BY <1>1, <1>3, <1>10
  <2>3. q \in WorldType /\ q.item[o].owner = None
    <3>1. o # k /\ b.item[o].owner = None
      BY <1>1, <1>3, <1>7, <1>10, <2>2
    <3> QED
      BY <2>1, <2>2, <3>1 DEF Only
  <2>4. v = refer(g, c)
    BY <1>4, <1>10, <2>3 DEF ITEM_USED
  <2>5. q.item[l].owner = c /\ q.item[l].int = {}
    BY <1>1, <1>7, <2>1, <2>2
  <2> HIDE DEF q
  <2>6. /\ Only(q, g, c, o, None) /\ g.conn = q.conn /\ g.sock = q.sock
        /\ g.item[o].owner = c /\ g.item[o].int = {W}
    BY <1>1, <2>2, <2>3, RegisterIs
  <2> HIDE DEF g
  <2>7. g \in WorldType /\ g.item[l] = q.item[l]
    BY <1>1, <2>6 DEF Only
  <2>8. /\ Only(g, v, c, None, None) /\ v.item = g.item /\ v.sock = g.sock
        /\ Kept(g.conn[c], v.conn[c]) /\ v.conn[c].refs = g.conn[c].refs + 1
        /\ v.conn[c].st = g.conn[c].st /\ v.conn[c].status = g.conn[c].status
    BY <2>4, <2>7, ReferIs
  <2>9. Only(w, v, c, l, o)
    <3>1. ASSUME NEW h \in Fd \ {l, o} PROVE v.item[h] = w.item[h] /\ v.sock[h] = w.sock[h]
      <4>1. b.item[h] = w.item[h] /\ b.sock[h] = w.sock[h]
        BY <1>1, <1>7 DEF Only
      <4>2. q.item[h] = b.item[h] /\ q.sock[h] = b.sock[h]
        BY <2>1, <2>2
      <4>3. g.item[h] = q.item[h] /\ g.sock[h] = q.sock[h]
        BY <1>1, <2>6 DEF Only
      <4> QED
        BY <2>8, <4>1, <4>2, <4>3
    <3> QED
      BY <1>7, <2>1, <2>6, <2>8, <3>1 DEF Only
  <2>10. /\ Kept(w.conn[c], v.conn[c]) /\ v.conn[c].refs = w.conn[c].refs + 1
         /\ v.conn[c].st = w.conn[c].st /\ v.conn[c].status = w.conn[c].status
    BY <1>7, <2>1, <2>6, <2>8
  <2>11. /\ v.item[l].owner = c /\ v.item[l].int = {}
         /\ v.item[o].owner = c /\ v.item[o].int = {W}
    BY <2>5, <2>6, <2>7, <2>8
  <2> QED
    BY <1>3, <1>10, <2>9, <2>10, <2>11 DEF Outcome
<1> QED
  BY <1>3, <1>9, <1>10

\* What a handler that goes on leaves: o is the origin before the call, or a
\* free descriptor.
LEMMA StepTight ==
    ASSUME NEW w, NEW v, NEW c \in Conn, Safe(w), Tight(w), Alive(w, c),
           NEW l, l = w.conn[c].client, NEW o \in Fd \cup {None}, Only(w, v, c, l, o),
           w.conn[c].origin \in {o, None}, o = w.conn[c].origin \/ w.sock[o] = "free",
           v.conn[c].client = l, v.item[l].owner = c,
           o # None => v.item[o].owner \in {c, None},
           o # None /\ v.item[o].owner = c => v.conn[c].origin = o,
           Shaped(v, c)
    PROVE  Leaves(w, v, c)
<1> DEFINE F == {l, o} \cap Fd
<1>1. F \in SUBSET Fd /\ l \in Fd /\ None \notin Fd /\ w.item[l].owner = c
  BY DEF Alive, None, Fd
<1>2. /\ v \in WorldType /\ \A d \in Conn \ {c} : v.conn[d] = w.conn[d]
      /\ \A f \in Fd \ F : v.item[f] = w.item[f] /\ v.sock[f] = w.sock[f]
      /\ v.stopped = "abort" => Faulty
  BY DEF Only, Tight
<1>3. Alive(v, c)
  BY <1>1 DEF Alive
<1>4. ASSUME NEW f \in F
      PROVE  /\ Uses(w, c, f) \/ w.sock[f] = "free"
             /\ v.item[f].owner \in {c, None}
             /\ v.item[f].owner = c => Uses(v, c, f)
  BY <1>1, <1>3 DEF Uses
<1>5. ASSUME NEW f \in Fd \ F PROVE w.item[f].owner # c
  <2>1. None \notin Conn
    BY ConnAssumption DEF None
  <2>2. ~Uses(w, c, f)
    BY <1>1 DEF Uses
  <2> QED
    BY <2>1, <2>2 DEF Tight
<1> HIDE DEF F
<1> QED
  BY <1>1, <1>2, <1>3, <1>4, <1>5, TightKept

\* What one that ends the connection leaves.
LEMMA GoneTight ==
    ASSUME NEW w, NEW v, NEW c \in Conn, Safe(w), Tight(w), Alive(w, c),
           NEW l, l = w.conn[c].client, NEW o, o = w.conn[c].origin, Only(w, v, c, l, o),
           v.conn[c] = Blank, v.item[l].owner = None, o # None => v.item[o].owner = None
    PROVE  Leaves(w, v, c) /\ ~Alive(v, c)
<1> DEFINE F == {l, o} \cap Fd
<1>1. F \in SUBSET Fd /\ l \in Fd /\ None \notin Fd /\ None \notin Conn
  BY ConnAssumption DEF Alive, None, Fd
<1>2. /\ v \in WorldType /\ \A d \in Conn \ {c} : v.conn[d] = w.conn[d]
      /\ \A f \in Fd \ F : v.item[f] = w.item[f] /\ v.sock[f] = w.sock[f]
      /\ v.stopped = "abort" => Faulty
  BY DEF Only, Tight
<1>3. ~Alive(v, c) /\ ~v.conn[c].live
  BY <1>1 DEF Alive, Blank
<1>4. ASSUME NEW f \in F
      PROVE  Uses(w, c, f) /\ v.item[f].owner = None
  BY <1>1 DEF Uses
<1>5. ASSUME NEW f \in Fd \ F PROVE w.item[f].owner # c
  <2>2. ~Uses(w, c, f)
    BY <1>1 DEF Uses
  <2> QED
    BY <1>1, <2>2 DEF Tight
<1> HIDE DEF F
<1> QED
  BY <1>1, <1>2, <1>3, <1>4, <1>5, TightKept

\* It fits the stage, unless an address is left after a failure that the
\* client is not told of.
LEMMA OutcomeShaped ==
    ASSUME NEW w, NEW v, NEW c \in Conn, NEW l, l = w.conn[c].client,
           NEW o, o = w.conn[c].origin, o # None => w.item[o].owner \in {c, None},
           w.conn[c].st = "REQUEST_CONNECTING", w.conn[c].refs = IF Own(w, c) THEN 2 ELSE 1,
           HasNext(w, c) => w.conn[c].addrs = 1 /\ ~Own(w, c) /\ w.conn[c].status = "ok",
           Outcome(w, v, c, l, o)
    PROVE  Shaped(v, c)
<1>1. /\ v.conn[c].client = l /\ v.conn[c].origin = o /\ v.conn[c].st = "REQUEST_CONNECTING"
      /\ HasNext(v, c) <=> HasNext(w, c)
      /\ HasNext(v, c) => v.conn[c].addrs = 1
  BY DEF Outcome, Kept, HasNext
<1>2. None \notin Conn
  BY ConnAssumption DEF None
<1>3. Own(w, c) <=> o # None /\ w.item[o].owner = c
  BY DEF Own
<1>4. CASE /\ v.conn[c].status = "err" /\ v.conn[c].refs = w.conn[c].refs
           /\ v.item[l].int = {W}
           /\ o # None => /\ v.item[o].owner = w.item[o].owner
                          /\ v.item[o].owner # None => v.item[o].int = {}
                          /\ v.sock[o] = "new"
  <2>1. Own(v, c) <=> Own(w, c)
    BY <1>1, <1>3, <1>4 DEF Own
  <2>2. /\ ClientInt(v, c) = {W}
        /\ Own(v, c) => OriginInt(v, c) = {}
        /\ ~Own(v, c) /\ o # None => v.sock[o] = "new"
    BY <1>1, <1>2, <1>4 DEF ClientInt, OriginInt, Own
  <2>3. Own(v, c) => ~HasNext(v, c)
    BY <1>1, <2>1
  <2>4. Attempting(v, c)
    BY <1>1, <1>4, <2>2, <2>3 DEF Attempting
  <2> QED
    BY <1>1, <1>4, <2>1, <2>4 DEF Shaped, Early, Login
<1>5. CASE /\ v.conn[c].status = w.conn[c].status
           /\ v.conn[c].refs = w.conn[c].refs + 1
           /\ o # None /\ w.item[o].owner = None /\ v.item[l].int = {}
           /\ v.item[o].owner = c /\ v.item[o].int = {W}
  <2>1. Own(v, c) /\ ~Own(w, c) /\ ClientInt(v, c) = {} /\ OriginInt(v, c) = {W}
    BY <1>1, <1>2, <1>3, <1>5 DEF Own, ClientInt, OriginInt
  <2>2. v.conn[c].refs = 2 /\ (v.conn[c].status = "err" => ~HasNext(v, c))
    BY <1>1, <1>5, <2>1
  <2>3. Attempting(v, c)
    BY <1>1, <2>1, <2>2 DEF Attempting
  <2> QED
    BY <1>1, <2>1, <2>2, <2>3 DEF Shaped, Early, Login
<1> QED
  BY <1>4, <1>5 DEF Outcome

\* The next address is taken.
LEMMA NextIs ==
    ASSUME NEW w \in WorldType, NEW c \in Conn, HasNext(w, c), NEW v, v = NextAddr(w, c)
    PROVE  /\ Only(w, v, c, None, None) /\ v.item = w.item /\ v.sock = w.sock
           /\ v.conn[c].live = w.conn[c].live /\ v.conn[c].st = w.conn[c].st
           /\ v.conn[c].client = w.conn[c].client /\ v.conn[c].origin = w.conn[c].origin
           /\ v.conn[c].status = w.conn[c].status /\ v.conn[c].refs = w.conn[c].refs
           /\ v.conn[c].thread = w.conn[c].thread
           /\ v.conn[c].addrs = w.conn[c].addrs - 1
<1> DEFINE x == w.conn[c]
           r == [x EXCEPT !.addrs = @ - 1]
<1>1. x \in ConnType /\ x.addrs \in 0..MaxAddrs /\ x.addrs > 0
  BY DEF WorldType, ConnType, HasNext
<1>2. r \in ConnType
  BY <1>1, MaxAddrsAssumption DEF ConnType
<1>3. /\ r.live = x.live /\ r.st = x.st /\ r.client = x.client /\ r.origin = x.origin
      /\ r.status = x.status /\ r.refs = x.refs /\ r.thread = x.thread
      /\ r.addrs = x.addrs - 1
  BY <1>1 DEF ConnType
<1>4. v = [w EXCEPT !.conn[c] = r]
  BY DEF NextAddr
<1> HIDE DEF r
<1>5. /\ Only(w, v, c, None, None)
      /\ v.conn[c] = r /\ v.item = w.item /\ v.sock = w.sock
  BY <1>2, <1>4, SetIs
<1> QED
  BY <1>3, <1>5

\* The first attempt, in terms of the descriptor it takes.
LEMMA InitIs ==
    ASSUME OneRetry, NEW u \in WorldType, NEW c \in Conn, Alive(u, c),
           \A f \in FreeFds(u) : u.item[f].owner = None,
           u.sock[u.conn[c].client] # "free",
           u.conn[c].origin = None, u.conn[c].refs = 1,
           HasNext(u, c) => u.conn[c].addrs = 1, u.conn[c].st = "REQUEST_CONNECTING",
           NEW l, l = u.conn[c].client, NEW r \in ConnectResults,
           NEW v, v = connecting_init(u, c, l, r)
    PROVE  \E o \in Fd \cup {None} :
              /\ Only(u, v, c, l, o)
              /\ o = None \/ u.sock[o] = "free"
              /\ v.conn[c].client = l /\ v.conn[c].origin = o /\ v.item[l].owner = c
              /\ v.conn[c].st = "REQUEST_CONNECTING"
              /\ o # None => v.item[o].owner \in {c, None}
              /\ Shaped(v, c)
<1>1. l \in Fd /\ None \notin Conn /\ None \notin Fd /\ u.item[l].owner = c
  BY ConnAssumption DEF Alive, None, Fd
<1>2. CASE FreeFds(u) = {}
  <2>1. v = error_handler_to_client(Status(u, c, "err"), c)
    BY <1>2 DEF connecting_init
  <2>2. u.conn[c].client # u.conn[c].origin
    BY <1>1
  <2>3. /\ Only(u, v, c, l, None) /\ KeptButStatus(u.conn[c], v.conn[c])
        /\ v.conn[c].status = "err" /\ v.item[l].owner = c /\ v.item[l].int = {W}
    <3>1. u \in WorldType /\ c \in Conn /\ Alive(u, c)
      OBVIOUS
    <3>2. Told(u, v, c) /\ v.conn[c].status = "err"
      BY ONLY <2>1, <2>2, <3>1, FailIs
    <3> QED
      BY <3>2 DEF Told
  <2>4. v.conn[c].origin = None /\ v.conn[c].client = l /\ v.conn[c].st = "REQUEST_CONNECTING"
        /\ v.conn[c].refs = 1 /\ (HasNext(v, c) => v.conn[c].addrs = 1)
    BY <2>3 DEF KeptButStatus, Kept, HasNext
  <2>5. Shaped(v, c)
    BY <2>3, <2>4 DEF Shaped, Attempting, Own, ClientInt, OriginInt, Early, Login
  <2> QED
    BY <2>3, <2>4, <2>5
<1>3. CASE FreeFds(u) # {}
  <2> DEFINE o == Lowest(FreeFds(u))
             x == [u.conn[c] EXCEPT !.origin = o, !.status = "ok"]
             a == [u EXCEPT !.sock[o] = "new", !.conn[c].origin = o, !.conn[c].status = "ok"]
  <2>1. o \in Fd /\ u.sock[o] = "free" /\ u.item[o].owner = None /\ o # l
    BY <1>3, LowestFree DEF FreeFds
  <2>2. v = connection(a, c, l, r)
    BY <1>3 DEF connecting_init
  <2> HIDE DEF o
  <2>3. u.conn[c] \in ConnType /\ u.conn \in [Conn -> ConnType] /\ u.sock \in [Fd -> SockType]
    BY DEF WorldType
  <2>4. /\ x \in ConnType /\ x.client = l /\ x.origin = o /\ x.status = "ok" /\ x.refs = 1
        /\ x.st = "REQUEST_CONNECTING" /\ x.addrs = u.conn[c].addrs
        /\ x.resolved = u.conn[c].resolved
    BY <2>1, <2>3 DEF ConnType
  <2>5. a = [u EXCEPT !.sock = [u.sock EXCEPT ![o] = "new"],
                      !.conn = [u.conn EXCEPT ![c] = x]]
    BY <2>3 DEF WorldType
  <2> HIDE DEF x, a
  <2>6. /\ [u.sock EXCEPT ![o] = "new"] \in [Fd -> SockType]
        /\ [u.conn EXCEPT ![c] = x] \in [Conn -> ConnType]
    BY <2>1, <2>3, <2>4 DEF SockType
  <2>7. a \in WorldType
    BY <2>5, <2>6 DEF WorldType
  <2>8. /\ a.sock = [u.sock EXCEPT ![o] = "new"] /\ a.conn = [u.conn EXCEPT ![c] = x]
        /\ a.item = u.item /\ a.stopped = u.stopped
    BY <2>5 DEF WorldType
  <2>9. /\ a.conn[c] = x /\ \A d \in Conn \ {c} : a.conn[d] = u.conn[d]
        /\ a.sock[o] = "new" /\ \A f \in Fd \ {o} : a.sock[f] = u.sock[f]
    BY <2>1, <2>3, <2>8
  <2>10. Alive(a, c)
    BY <1>1, <2>4, <2>8, <2>9 DEF Alive
  <2>11. /\ OneRetry /\ l = a.conn[c].client /\ o = a.conn[c].origin /\ l # o
         /\ l \in Fd /\ l \in {l, o} /\ a.item[l].owner = c /\ o # None
         /\ a.sock[o] = "new" /\ a.item[o].owner = None
    BY <1>1, <2>1, <2>4, <2>8, <2>9
  <2>12. Only(a, v, c, l, o) /\ Outcome(a, v, c, l, o)
    BY ONLY <2>2, <2>7, <2>10, <2>11, ConnectionIs
  <2>13. Only(u, v, c, l, o)
    <3>1. ASSUME NEW h \in Fd \ {l, o} PROVE v.item[h] = u.item[h] /\ v.sock[h] = u.sock[h]
      <4>1. v.item[h] = a.item[h] /\ v.sock[h] = a.sock[h]
        BY <2>12 DEF Only
      <4> QED
        BY <2>8, <2>9, <4>1
    <3> QED
      BY <2>8, <2>9, <2>12, <3>1 DEF Only
  <2>14. /\ v.conn[c].origin = o /\ v.conn[c].client = l /\ v.item[l].owner = c
         /\ v.conn[c].st = "REQUEST_CONNECTING" /\ v.item[o].owner \in {c, None}
    BY <2>4, <2>9, <2>11, <2>12 DEF Outcome, Kept
  <2>15. ~Own(a, c) /\ (HasNext(a, c) => a.conn[c].addrs = 1)
    BY <1>1, <2>4, <2>9, <2>11 DEF Own, HasNext
  <2>16. Shaped(v, c)
    BY <2>4, <2>9, <2>11, <2>12, <2>15, OutcomeShaped
  <2> QED
    BY <2>1, <2>13, <2>14, <2>16
<1> QED
  BY <1>2, <1>3

\* A success is counted and told.
LEMMA ConnectedIs ==
    ASSUME NEW w \in WorldType, NEW c \in Conn, Alive(w, c),
           NEW k \in Fd, k # w.conn[c].client, w.item[k].owner = c, NEW v, v = connected(w, c, k)
    PROVE  /\ Only(w, v, c, w.conn[c].client, k) /\ Kept(w.conn[c], v.conn[c])
           /\ v.conn[c].refs = w.conn[c].refs /\ v.conn[c].status = w.conn[c].status
           /\ v.conn[c].st = "REQUEST_WRITE"
           /\ v.item[w.conn[c].client].owner = c /\ v.item[w.conn[c].client].int = {W}
           /\ v.item[k].owner = c /\ v.item[k].int = {}
<1> DEFINE l == w.conn[c].client
           m == w.metrics
           n == m.concurrent + 1
           y == [attempts |-> m.attempts, historic |-> m.historic + 1, concurrent |-> n,
                 max |-> IF n > m.max THEN n ELSE m.max]
           r == [w.conn[c] EXCEPT !.replies = @ + 1]
           a == [[w EXCEPT !.metrics = y] EXCEPT !.conn[c] = r]
           b == selector_set_interest(a, l, {W})
           g == selector_set_interest(b, k, {})
<1>1. /\ m \in [attempts : Nat, historic : Nat, concurrent : Int, max : Nat]
      /\ w.conn[c] \in ConnType /\ w.conn[c].replies \in Nat
      /\ w.conn \in [Conn -> ConnType]
  BY DEF WorldType, ConnType
<1>2. y \in [attempts : Nat, historic : Nat, concurrent : Int, max : Nat]
  BY <1>1
<1>3. /\ r \in ConnType /\ Kept(w.conn[c], r) /\ r.refs = w.conn[c].refs
      /\ r.status = w.conn[c].status
  BY <1>1 DEF ConnType, Kept
<1>5. v = Stage(g, c, "REQUEST_WRITE")
  <2>1. a = [w EXCEPT !.metrics.historic = @ + 1, !.metrics.concurrent = n,
                      !.metrics.max = IF n > @ THEN n ELSE @, !.conn[c].replies = @ + 1]
    BY ONLY <1>1 DEF WorldType
  <2> QED
    BY <2>1 DEF connected
<1> HIDE DEF y, r
<1>4. /\ a.conn = [w.conn EXCEPT ![c] = r] /\ a.item = w.item /\ a.sock = w.sock
      /\ a.stopped = w.stopped /\ a = [w EXCEPT !.conn = a.conn, !.metrics = y]
  BY <1>1 DEF WorldType
<1> HIDE DEF a
<1>6. a.conn \in [Conn -> ConnType]
  BY <1>1, <1>3, <1>4
<1>7. a \in WorldType
  BY <1>2, <1>4, <1>6 DEF WorldType
<1>8. /\ l \in Fd /\ None \notin Conn /\ None \notin Fd /\ w.item[l].owner = c
      /\ {W} \in SUBSET {R, W} /\ {} \in SUBSET {R, W}
  BY ConnAssumption DEF Alive, None, Fd
<1>9. /\ Only(a, b, c, l, None) /\ b.conn = a.conn /\ b.sock = a.sock
      /\ \A h \in Fd \ {l} : b.item[h] = a.item[h]
      /\ b.item[l].owner = a.item[l].owner
      /\ a.item[l].owner # None => b.item[l].int = {W}
  BY <1>7, <1>8, InterestIs
<1> HIDE DEF b
<1>10. b \in WorldType
  BY <1>9 DEF Only
<1>11. /\ Only(b, g, c, k, None) /\ g.conn = b.conn /\ g.sock = b.sock
       /\ \A h \in Fd \ {k} : g.item[h] = b.item[h]
       /\ g.item[k].owner = b.item[k].owner
       /\ b.item[k].owner # None => g.item[k].int = {}
  BY <1>8, <1>10, InterestIs
<1> HIDE DEF g
<1>12. g \in WorldType /\ "REQUEST_WRITE" \in Stages
  BY <1>11 DEF Only, Stages
<1>13. /\ Only(g, v, c, None, None) /\ v.item = g.item /\ v.sock = g.sock
       /\ Kept(g.conn[c], v.conn[c]) /\ v.conn[c].refs = g.conn[c].refs
       /\ v.conn[c].st = "REQUEST_WRITE" /\ v.conn[c].status = g.conn[c].status
  BY <1>5, <1>12, StageIs
<1>14. g.conn[c] = r /\ \A d \in Conn \ {c} : g.conn[d] = w.conn[d]
  BY <1>1, <1>4, <1>9, <1>11
<1>15. Only(w, v, c, l, k)
  <2>1. ASSUME NEW h \in Fd \ {l, k} PROVE v.item[h] = w.item[h] /\ v.sock[h] = w.sock[h]
    BY <1>4, <1>9, <1>11, <1>13
  <2> QED
    <3>1. v \in WorldType /\ v.stopped = w.stopped
      BY <1>4, <1>9, <1>11, <1>13 DEF Only
    <3>2. \A d \in Conn \ {c} : v.conn[d] = w.conn[d]
      BY <1>13, <1>14 DEF Only
    <3> QED
      BY ONLY <2>1, <3>1, <3>2 DEF Only
<1>16. Kept(w.conn[c], v.conn[c])
  BY <1>3, <1>13, <1>14 DEF Kept
<1>17. /\ v.item[l].owner = c /\ v.item[l].int = {W}
       /\ v.item[k].owner = c /\ v.item[k].int = {}
  <2>1. b.item[l].owner = c /\ b.item[l].int = {W} /\ b.item[k].owner = w.item[k].owner
    BY <1>4, <1>8, <1>9
  <2>2. g.item[k].owner = c /\ g.item[k].int = {}
    BY <1>8, <1>11, <2>1
  <2>3. g.item[l] = b.item[l]
    BY <1>8, <1>11
  <2> QED
    BY <1>13, <2>1, <2>2, <2>3
<1> QED
  BY <1>3, <1>13, <1>14, <1>15, <1>16, <1>17

\* selector_unregister_fd of an entry of c's, close().
LEMMA UnregisterIs ==
    ASSUME NEW w \in WorldType, NEW c \in Conn, NEW f \in Fd, w.item[f].owner = c,
           w.conn[c].refs # 0, NEW v, v = selector_unregister_fd(w, f)
    PROVE  /\ Only(w, v, c, f, None) /\ v.sock = w.sock /\ v.item[f] = Unused
           /\ \/ w.conn[c].refs = 1 /\ v.conn[c] = Blank
              \/ /\ w.conn[c].refs # 1 /\ v.conn[c].refs = w.conn[c].refs - 1
                 /\ SameButRefs(v.conn[c], w.conn[c])
<1> DEFINE d == socks5_destroy(w, c)
<1>1. None \notin Conn /\ Unused \in ItemType
  BY ConnAssumption DEF None, Unused, ItemType
<1>2. v = [d EXCEPT !.item[f] = Unused]
  BY <1>1 DEF selector_unregister_fd, ITEM_USED
<1>3. /\ d \in WorldType /\ d.item = w.item /\ d.sock = w.sock /\ d.stopped = w.stopped
      /\ \A e \in Conn \ {c} : d.conn[e] = w.conn[e]
      /\ \/ w.conn[c].refs = 1 /\ d.conn[c] = Blank
         \/ /\ w.conn[c].refs # 1 /\ d.conn[c].refs = w.conn[c].refs - 1
            /\ SameButRefs(d.conn[c], w.conn[c])
  BY DestroyType
<1> HIDE DEF d
<1>4. /\ v.conn = d.conn /\ v.sock = d.sock /\ v.stopped = d.stopped
      /\ v.item = [d.item EXCEPT ![f] = Unused] /\ d.item \in [Fd -> ItemType]
  BY <1>2, <1>3 DEF WorldType
<1>5. [d.item EXCEPT ![f] = Unused] \in [Fd -> ItemType]
  BY <1>1, <1>4
<1>6. v \in WorldType
  BY ONLY <1>2, <1>3, <1>5 DEF WorldType
<1>7. v.item[f] = Unused /\ \A h \in Fd \ {f} : v.item[h] = w.item[h]
  BY <1>3, <1>4
<1> QED
  BY <1>3, <1>4, <1>6, <1>7 DEF Only

\* A descriptor is closed; its item stays.
LEMMA CloseIs ==
    ASSUME NEW w \in WorldType, NEW c \in Conn, NEW f \in Fd, NEW v, v = close(w, f)
    PROVE  Only(w, v, c, f, None) /\ v.conn = w.conn /\ v.item = w.item
<1>1. f # None
  BY DEF None, Fd
<1>2. v = [w EXCEPT !.sock[f] = "free"]
  BY <1>1 DEF close
<1>3. /\ v.sock = [w.sock EXCEPT ![f] = "free"] /\ v.conn = w.conn /\ v.item = w.item
      /\ v.stopped = w.stopped /\ w.sock \in [Fd -> SockType]
  BY <1>2 DEF WorldType
<1>4. [w.sock EXCEPT ![f] = "free"] \in [Fd -> SockType]
  BY <1>3 DEF SockType
<1>5. v \in WorldType
  BY ONLY <1>2, <1>4 DEF WorldType
<1> QED
  BY <1>3, <1>5 DEF Only

\* The origin is forgotten.
LEMMA ForgetIs ==
    ASSUME NEW w \in WorldType, NEW c \in Conn
    PROVE  LET v == [w EXCEPT !.conn[c].origin = None]
           IN /\ Only(w, v, c, None, None) /\ v.item = w.item /\ v.sock = w.sock
              /\ v.conn[c].client = w.conn[c].client /\ v.conn[c].origin = None
              /\ v.conn[c].refs = w.conn[c].refs /\ v.conn[c].status = w.conn[c].status
<1> DEFINE x == w.conn[c]
           r == [x EXCEPT !.origin = None]
           v == [w EXCEPT !.conn[c] = r]
<1>1. x \in ConnType
  BY DEF WorldType
<1>2. /\ r \in ConnType /\ r.client = x.client /\ r.origin = None /\ r.refs = x.refs
      /\ r.status = x.status
  BY <1>1 DEF ConnType
<1>3. v = [w EXCEPT !.conn[c].origin = None]
  OBVIOUS
<1> HIDE DEF r
<1>4. /\ Only(w, v, c, None, None)
      /\ v.conn[c] = r /\ v.item = w.item /\ v.sock = w.sock
  BY ONLY <1>2, SetIs
<1> HIDE DEF v
<1> QED
  BY <1>2, <1>3, <1>4

\* An entry of c's is given back and its descriptor closed, unless there is none.
LEMMA DropIs ==
    ASSUME NEW w \in WorldType, NEW c \in Conn, NEW f \in Fd \cup {None}, w.conn[c].refs # 0,
           f # None => w.item[f].owner \in {c, None}, NEW v, v = close(selector_unregister_fd(w, f), f)
    PROVE  /\ Only(w, v, c, f, None)
           /\ f # None => v.item[f].owner = None
           /\ IF f # None /\ w.item[f].owner = c
              THEN \/ w.conn[c].refs = 1 /\ v.conn[c] = Blank
                   \/ /\ w.conn[c].refs # 1 /\ v.conn[c].refs = w.conn[c].refs - 1
                      /\ SameButRefs(v.conn[c], w.conn[c])
              ELSE v.conn[c] = w.conn[c]
<1> DEFINE u == selector_unregister_fd(w, f)
<1>1. None \notin Conn /\ None \notin Fd
  BY ConnAssumption DEF None, Fd
<1>2. CASE f = None
  BY <1>1, <1>2 DEF selector_unregister_fd, ITEM_USED, close, Only
<1>3. CASE f # None /\ w.item[f].owner = None
  <2>1. u = w
    BY <1>3 DEF selector_unregister_fd, ITEM_USED
  <2>2. Only(w, v, c, f, None) /\ v.conn = w.conn /\ v.item = w.item
    BY <1>3, <2>1, CloseIs
  <2> QED
    BY <1>1, <1>3, <2>2
<1>4. CASE f # None /\ w.item[f].owner = c
  <2>1. /\ Only(w, u, c, f, None) /\ u.sock = w.sock /\ u.item[f] = Unused
        /\ \/ w.conn[c].refs = 1 /\ u.conn[c] = Blank
           \/ /\ w.conn[c].refs # 1 /\ u.conn[c].refs = w.conn[c].refs - 1
              /\ SameButRefs(u.conn[c], w.conn[c])
    BY <1>4, UnregisterIs
  <2> HIDE DEF u
  <2>2. u \in WorldType /\ v = close(u, f)
    BY <2>1 DEF Only, u
  <2>3. Only(u, v, c, f, None) /\ v.conn = u.conn /\ v.item = u.item
    BY <1>4, <2>2, CloseIs
  <2>4. Only(w, v, c, f, None)
    BY <2>1, <2>3 DEF Only
  <2> QED
    BY <1>4, <2>1, <2>3, <2>4 DEF Unused
<1> QED
  BY <1>2, <1>3, <1>4

\* No address is left.
LEMMA GiveUpIs ==
    ASSUME NEW w \in WorldType, NEW c \in Conn, Alive(w, c), NEW l, l = w.conn[c].client,
           NEW o, o = w.conn[c].origin, l # o, o # None => w.item[o].owner \in {c, None},
           w.conn[c].refs = IF Own(w, c) THEN 2 ELSE 1, NEW v, v = give_up(w, c)
    PROVE  /\ Only(w, v, c, l, o) /\ v.conn[c].client = l /\ v.conn[c].origin = None
           /\ v.conn[c].refs = 1 /\ v.conn[c].status = w.conn[c].status
           /\ v.conn[c].st = "REQUEST_WRITE"
           /\ v.item[l].owner = c /\ v.item[l].int = {W}
           /\ o # None => v.item[o].owner = None
<1> DEFINE p == close(selector_unregister_fd(w, o), o)
           q == [p EXCEPT !.conn[c].origin = None]
           t == error_handler_to_client(q, c)
<1>1. /\ l \in Fd /\ o \in Fd \cup {None} /\ None \notin Conn /\ None \notin Fd
      /\ w.item[l].owner = c /\ w.conn[c].refs # 0
  BY ConnAssumption DEF WorldType, ConnType, Alive, None, Fd
<1>2. v = Stage(t, c, "REQUEST_WRITE")
  BY DEF give_up
<1>3. /\ Only(w, p, c, o, None)
      /\ o # None => p.item[o].owner = None
      /\ IF o # None /\ w.item[o].owner = c
         THEN \/ w.conn[c].refs = 1 /\ p.conn[c] = Blank
              \/ /\ w.conn[c].refs # 1 /\ p.conn[c].refs = w.conn[c].refs - 1
                 /\ SameButRefs(p.conn[c], w.conn[c])
         ELSE p.conn[c] = w.conn[c]
  BY <1>1, DropIs
<1> HIDE DEF p
<1>4. /\ p \in WorldType /\ p.conn[c].refs = 1 /\ p.conn[c].client = l
      /\ p.conn[c].status = w.conn[c].status /\ p.item[l] = w.item[l]
  BY <1>1, <1>3 DEF Own, Only, SameButRefs, Fields
<1>5. /\ Only(p, q, c, None, None) /\ q.item = p.item /\ q.sock = p.sock
      /\ q.conn[c].client = p.conn[c].client /\ q.conn[c].origin = None
      /\ q.conn[c].refs = p.conn[c].refs /\ q.conn[c].status = p.conn[c].status
  BY <1>4, ForgetIs
<1> HIDE DEF q
<1>6. /\ q \in WorldType /\ Alive(q, c) /\ q.conn[c].client = l
      /\ q.conn[c].client # q.conn[c].origin
  BY <1>1, <1>4, <1>5 DEF Only, Alive
<1>7. /\ Only(q, t, c, q.conn[c].client, q.conn[c].origin) /\ t.sock = q.sock
      /\ KeptButStatus(q.conn[c], t.conn[c]) /\ t.conn[c].status = q.conn[c].status
      /\ t.item[q.conn[c].client].owner = c /\ t.item[q.conn[c].client].int = {W}
  <2>1. Told(q, t, c) /\ t.conn[c].status = q.conn[c].status
    BY ONLY <1>6, ToldIs
  <2> QED
    BY <2>1 DEF Told
<1> HIDE DEF t
<1>8. t \in WorldType /\ "REQUEST_WRITE" \in Stages
  BY <1>7 DEF Only, Stages
<1>9. /\ Only(t, v, c, None, None) /\ v.item = t.item /\ v.sock = t.sock
      /\ Kept(t.conn[c], v.conn[c]) /\ v.conn[c].refs = t.conn[c].refs
      /\ v.conn[c].st = "REQUEST_WRITE" /\ v.conn[c].status = t.conn[c].status
  BY <1>2, <1>8, StageIs
<1>10. Only(w, v, c, l, o)
  <2>1. ASSUME NEW h \in Fd \ {l, o} PROVE v.item[h] = w.item[h] /\ v.sock[h] = w.sock[h]
    <3>1. p.item[h] = w.item[h] /\ p.sock[h] = w.sock[h]
      BY <1>1, <1>3 DEF Only
    <3>2. t.item[h] = q.item[h] /\ t.sock[h] = q.sock[h]
      BY <1>1, <1>5, <1>6, <1>7 DEF Only
    <3> QED
      BY <1>5, <1>9, <3>1, <3>2
  <2> QED
    BY <1>3, <1>5, <1>7, <1>9, <2>1 DEF Only
<1>11. o # None => v.item[o].owner = None
  <2>1. o # None => t.item[o] = q.item[o]
    BY <1>1, <1>5, <1>6, <1>7 DEF Only
  <2> QED
    BY <1>3, <1>5, <1>9, <2>1
<1>12. /\ v.conn[c].client = l /\ v.conn[c].origin = None /\ v.conn[c].refs = 1
       /\ v.conn[c].status = w.conn[c].status
  BY <1>4, <1>5, <1>6, <1>7, <1>9 DEF KeptButStatus, Kept
<1> QED
  BY <1>6, <1>7, <1>9, <1>10, <1>11, <1>12

\* What a connection is while it is safe and in shape.
LEMMA AliveFacts ==
    ASSUME NEW w, NEW c \in Conn, Safe(w), Tight(w), Alive(w, c)
    PROVE  /\ w \in WorldType /\ w.conn[c] \in ConnType /\ Shaped(w, c)
           /\ w.conn[c].client \in Fd /\ w.item[w.conn[c].client].owner = c
           /\ w.conn[c].origin \in Fd \cup {None} /\ w.conn[c].client # w.conn[c].origin
           /\ w.conn[c].origin # None => w.item[w.conn[c].origin].owner \in {c, None}
           /\ w.sock[w.conn[c].client] # "free"
           /\ None \notin Conn /\ None \notin Fd
<1>1. None \notin Conn /\ None \notin Fd
  BY ConnAssumption DEF None, Fd
<1>2. /\ w \in WorldType /\ w.conn[c] \in ConnType /\ Shaped(w, c)
      /\ w.conn[c].client \in Fd /\ w.item[w.conn[c].client].owner = c
      /\ w.conn[c].client # w.conn[c].origin
  BY DEF Safe, Basic, Links, Tight, WorldType, Alive
<1>3. w.conn[c].origin \in Fd \cup {None}
  BY <1>2 DEF ConnType
<1>4. Uses(w, c, w.conn[c].client) /\ (w.conn[c].origin # None => Uses(w, c, w.conn[c].origin))
  BY DEF Uses
<1>5. w.sock[w.conn[c].client] # "free"
  BY <1>2, <1>4 DEF Safe, Links
<1>6. ASSUME w.conn[c].origin # None, w.item[w.conn[c].origin].owner # None
      PROVE  w.item[w.conn[c].origin].owner = c
  <2> DEFINE f == w.conn[c].origin
             d == w.item[f].owner
  <2>1. f \in Fd /\ d \in Conn /\ Uses(w, d, f) /\ Uses(w, c, f)
    BY <1>1, <1>2, <1>3, <1>4, <1>6 DEF Tight, WorldType, ItemType
  <2> HIDE DEF f, d
  <2>2. d = c
    BY <2>1 DEF Safe, Links
  <2> QED
    BY <2>2 DEF f, d
<1> QED
  BY <1>1, <1>2, <1>3, <1>5, <1>6

\* Another attempt with the last address: u is w after that was decided.
LEMMA RetryTight ==
    ASSUME OneRetry, NEW w, NEW u, NEW c \in Conn, Safe(w), Tight(w), Alive(w, c),
           NEW l, l = w.conn[c].client, NEW o, o = w.conn[c].origin,
           Only(w, u, c, o, None), u.item = w.item, u.conn[c].client = l, u.conn[c].origin = o,
           u.conn[c].st = "REQUEST_CONNECTING", u.conn[c].refs = w.conn[c].refs,
           ~HasNext(u, c),
           o # None => \/ u.sock[o] = "new" /\ w.item[o].owner = None
                       \/ u.sock[o] = "dead" /\ w.item[o].owner = c,
           NEW k \in Fd, k \in {l, o}, w.item[k].owner = c, NEW r \in ConnectResults,
           NEW v, v = connection(u, c, k, r)
    PROVE  Leaves(w, v, c) /\ v.conn[c].st = "REQUEST_CONNECTING"
<1>1. /\ l \in Fd /\ o \in Fd \cup {None} /\ w.item[l].owner = c /\ l # o
      /\ None \notin Conn /\ None \notin Fd /\ Shaped(w, c)
      /\ o # None => w.item[o].owner \in {c, None}
  BY AliveFacts
<1>2. u \in WorldType /\ Alive(u, c)
  BY <1>1 DEF Only, Alive
<1>3. /\ OneRetry /\ l = u.conn[c].client /\ o = u.conn[c].origin /\ l # o
      /\ k \in {l, o} /\ u.item[k].owner = c
      /\ o # None => \/ u.sock[o] = "new" /\ u.item[o].owner = None
                     \/ u.sock[o] = "dead" /\ u.item[o].owner = c
      /\ v = connection(u, c, k, r)
  BY <1>1
<1>4. Only(u, v, c, l, o) /\ Outcome(u, v, c, l, o)
  BY ONLY <1>2, <1>3, ConnectionIs
<1>5. Only(w, v, c, l, o)
  <2>1. ASSUME NEW h \in Fd \ {l, o} PROVE v.item[h] = w.item[h] /\ v.sock[h] = w.sock[h]
    BY <1>1, <1>4 DEF Only
  <2> QED
    BY <1>4, <2>1 DEF Only
<1>6. /\ v.conn[c].client = l /\ v.conn[c].origin = o /\ v.conn[c].st = "REQUEST_CONNECTING"
      /\ v.item[l].owner = c
  BY <1>4 DEF Outcome, Kept
<1>7. o # None => v.item[o].owner \in {c, None}
  BY <1>1, <1>4 DEF Outcome
<1>8. u.conn[c].refs = IF Own(u, c) THEN 2 ELSE 1
  BY <1>1 DEF Shaped, Own
<1>9. Shaped(v, c)
  BY <1>1, <1>3, <1>4, <1>8, OutcomeShaped
<1> QED
  BY <1>1, <1>5, <1>6, <1>7, <1>9, StepTight

\* The end of an attempt, with its reply: c keeps its client.
LEMMA RepliedTight ==
    ASSUME NEW w, NEW v, NEW c \in Conn, Safe(w), Tight(w), Alive(w, c),
           NEW l, l = w.conn[c].client, NEW o, o = w.conn[c].origin, Only(w, v, c, l, o),
           v.conn[c].client = l, v.conn[c].st = "REQUEST_WRITE",
           v.item[l].owner = c, v.item[l].int = {W},
           \/ /\ v.conn[c].origin = None /\ v.conn[c].refs = 1
              /\ o # None => v.item[o].owner = None
              /\ v.conn[c].status = "err" \/ OutOfMemory
           \/ /\ v.conn[c].origin = o /\ v.conn[c].refs = 2 /\ o # None
              /\ v.item[o].owner = c /\ v.item[o].int = {}
    PROVE  Leaves(w, v, c)
<1>1. /\ l \in Fd /\ o \in Fd \cup {None} /\ w.item[l].owner = c /\ l # o
      /\ None \notin Conn /\ None \notin Fd
  <2>1. c \in Conn /\ Safe(w) /\ Tight(w) /\ Alive(w, c)
    OBVIOUS
  <2>2. /\ w.conn[c].client \in Fd /\ w.item[w.conn[c].client].owner = c
        /\ w.conn[c].origin \in Fd \cup {None} /\ w.conn[c].client # w.conn[c].origin
        /\ None \notin Conn /\ None \notin Fd
    BY ONLY <2>1, AliveFacts
  <2>3. l = w.conn[c].client /\ o = w.conn[c].origin
    OBVIOUS
  <2> QED
    BY ONLY <2>2, <2>3
<1>2. v.conn[c].st = "REQUEST_WRITE" /\ "REQUEST_WRITE" \notin Early /\ ClientInt(v, c) = {W}
  BY DEF Early, ClientInt
<1>3. Shaped(v, c)
  <2>1. CASE v.conn[c].origin = None
    <3>1. ~Own(v, c) /\ v.conn[c].refs = 1 /\ (v.conn[c].status = "err" \/ OutOfMemory)
      BY <2>1 DEF Own
    <3> QED
      BY ONLY <1>2, <2>1, <3>1 DEF Shaped, Login
  <2>2. CASE v.conn[c].origin # None
    <3>1. Own(v, c) /\ v.conn[c].refs = 2 /\ OriginInt(v, c) = {}
      BY <2>2 DEF Own, OriginInt
    <3> QED
      BY ONLY <1>2, <3>1 DEF Shaped, Login
  <2> QED
    BY <2>1, <2>2
<1> QED
  BY <1>1, <1>3, StepTight

\* connecting_write.
LEMMA ConnectingTight ==
    ASSUME OneRetry, NEW w, NEW c \in Conn, Safe(w), Tight(w), Alive(w, c),
           w.conn[c].st = "REQUEST_CONNECTING", NEW k \in Fd, Uses(w, c, k),
           w.item[k].owner = c, W \in w.item[k].int, NEW r \in ConnectResults,
           NEW v, v = connecting_write(w, c, k, r)
    PROVE  Leaves(w, v, c) /\ v.conn[c].st # "REQUEST_RESOLV"
<1> DEFINE l == w.conn[c].client
           o == w.conn[c].origin
<1>1. /\ w \in WorldType /\ w.conn[c] \in ConnType /\ l \in Fd /\ o \in Fd \cup {None}
      /\ w.item[l].owner = c /\ l # o /\ None \notin Conn /\ None \notin Fd
      /\ Shaped(w, c) /\ Attempting(w, c)
      /\ o # None => w.item[o].owner \in {c, None}
  BY AliveFacts DEF Shaped
<1>2. k \in {l, o} /\ w.conn[c].refs = IF Own(w, c) THEN 2 ELSE 1
  BY <1>1 DEF Uses, Shaped
<1>3. Own(w, c) <=> o # None /\ w.item[o].owner = c
  BY DEF Own
<1>4. CASE w.conn[c].status # "ok" /\ HasNext(w, c)
  <2> DEFINE u == NextAddr(w, c)
  <2>1. v = connection(u, c, k, r)
    BY <1>4 DEF connecting_write
  <2>2. /\ Only(w, u, c, None, None) /\ u.item = w.item /\ u.sock = w.sock
        /\ u.conn[c].st = w.conn[c].st
        /\ u.conn[c].client = l /\ u.conn[c].origin = o
        /\ u.conn[c].refs = w.conn[c].refs
        /\ u.conn[c].addrs = w.conn[c].addrs - 1
    BY <1>1, <1>4, NextIs
  <2> HIDE DEF u
  <2>3. ~Own(w, c)
    BY <1>1, <1>4 DEF Attempting, ConnType
  <2>4. o # None => w.sock[o] = "new" /\ w.item[o].owner = None
    BY <1>1, <1>3, <2>3 DEF Attempting
  <2>5. ~HasNext(u, c)
    BY <1>1, <1>4, <2>2 DEF Attempting, HasNext
  <2>6. Only(w, u, c, o, None)
    BY <2>2 DEF Only
  <2> HIDE DEF l, o
  <2> QED
    BY <1>2, <2>1, <2>2, <2>4, <2>5, <2>6, RetryTight DEF l, o
<1>5. CASE w.conn[c].status # "ok" /\ ~HasNext(w, c)
  <2>1. v = give_up(w, c)
    BY <1>5 DEF connecting_write
  <2> HIDE DEF l, o
  <2>2. l = w.conn[c].client /\ o = w.conn[c].origin
    BY DEF l, o
  <2>3. /\ Only(w, v, c, l, o) /\ v.conn[c].client = l /\ v.conn[c].origin = None
        /\ v.conn[c].refs = 1 /\ v.conn[c].status = w.conn[c].status
        /\ v.conn[c].st = "REQUEST_WRITE"
        /\ v.item[l].owner = c /\ v.item[l].int = {W}
        /\ o # None => v.item[o].owner = None
    BY <1>1, <1>2, <2>1, <2>2, GiveUpIs
  <2>4. w.conn[c].status = "err"
    BY <1>1, <1>5 DEF ConnType
  <2> QED
    BY <2>2, <2>3, <2>4, RepliedTight
<1>6. ASSUME w.conn[c].status = "ok"
      PROVE  Own(w, c) /\ k = o /\ w.conn[c].refs = 2
  BY <1>1, <1>2, <1>3, <1>6 DEF Attempting, ClientInt, OriginInt
<1>7. CASE w.conn[c].status = "ok" /\ w.sock[k] # "error"
  <2>1. v = connected(w, c, k)
    BY <1>7 DEF connecting_write
  <2> HIDE DEF l, o
  <2>2. /\ l = w.conn[c].client /\ o = w.conn[c].origin /\ k # l /\ k = o
    BY <1>1, <1>6, <1>7 DEF l, o
  <2>9. w \in WorldType /\ Alive(w, c) /\ w.item[k].owner = c /\ k # w.conn[c].client
    BY <1>1, <2>2
  <2>5. /\ Only(w, v, c, w.conn[c].client, k) /\ Kept(w.conn[c], v.conn[c])
        /\ v.conn[c].refs = w.conn[c].refs /\ v.conn[c].st = "REQUEST_WRITE"
        /\ v.item[w.conn[c].client].owner = c /\ v.item[w.conn[c].client].int = {W}
        /\ v.item[k].owner = c /\ v.item[k].int = {}
    BY ONLY <2>1, <2>9, ConnectedIs
  <2>3. /\ Only(w, v, c, l, k) /\ Kept(w.conn[c], v.conn[c])
        /\ v.conn[c].refs = w.conn[c].refs
        /\ v.conn[c].st = "REQUEST_WRITE"
        /\ v.item[l].owner = c /\ v.item[l].int = {W}
        /\ v.item[k].owner = c /\ v.item[k].int = {}
    BY <2>2, <2>5
  <2>4. v.conn[c].client = l /\ v.conn[c].origin = o /\ v.conn[c].refs = 2
    BY <1>6, <1>7, <2>2, <2>3 DEF Kept
  <2> QED
    BY <1>1, <2>2, <2>3, <2>4, RepliedTight
<1>8. CASE w.conn[c].status = "ok" /\ w.sock[k] = "error"
  <2> DEFINE a == [w EXCEPT !.sock[k] = "dead"]
             b == Status(a, c, "err")
             u == NextAddr(b, c)
  <2>1. v = IF HasNext(b, c) THEN connection(u, c, k, r)
            ELSE Stage(error_handler_to_client(b, c), c, "REQUEST_WRITE")
    BY <1>8 DEF connecting_write
  <2>2. /\ a \in WorldType /\ a.conn = w.conn /\ a.item = w.item /\ a.stopped = w.stopped
        /\ a.sock[k] = "dead" /\ \A h \in Fd \ {k} : a.sock[h] = w.sock[h]
    <3>1. w.sock \in [Fd -> SockType]
      BY <1>1 DEF WorldType
    <3>2. [w.sock EXCEPT ![k] = "dead"] \in [Fd -> SockType]
      BY <3>1 DEF SockType
    <3>3. a \in WorldType
      BY ONLY <1>1, <3>2 DEF WorldType
    <3> QED
      BY <1>1, <3>1, <3>3 DEF WorldType
  <2> HIDE DEF a
  <2>3. /\ Only(a, b, c, None, None) /\ b.item = a.item /\ b.sock = a.sock
        /\ KeptButStatus(a.conn[c], b.conn[c]) /\ b.conn[c].status = "err"
    BY <2>2, StatusIs
  <2> HIDE DEF b
  <2>4. b \in WorldType /\ Only(w, b, c, o, None)
    BY <1>1, <1>6, <1>8, <2>2, <2>3 DEF Only
  <2>5. /\ b.conn[c].client = l /\ b.conn[c].origin = o /\ b.item = w.item
        /\ b.conn[c].st = "REQUEST_CONNECTING" /\ b.conn[c].refs = w.conn[c].refs
        /\ HasNext(b, c) <=> HasNext(w, c)
        /\ b.conn[c].addrs = w.conn[c].addrs /\ b.sock[k] = "dead"
    BY <2>2, <2>3 DEF KeptButStatus, Kept, HasNext
  <2>6. k = o /\ Own(w, c) /\ w.conn[c].refs = 2
    BY <1>6, <1>8
  <2>7. CASE HasNext(b, c)
    <3>1. /\ Only(b, u, c, None, None) /\ u.item = b.item /\ u.sock = b.sock
          /\ u.conn[c].st = b.conn[c].st
          /\ u.conn[c].client = b.conn[c].client /\ u.conn[c].origin = b.conn[c].origin
          /\ u.conn[c].refs = b.conn[c].refs
          /\ u.conn[c].addrs = b.conn[c].addrs - 1
      BY <2>4, <2>7, NextIs
    <3> HIDE DEF u
    <3>2. Only(w, u, c, o, None) /\ v = connection(u, c, k, r)
      BY <2>1, <2>4, <2>7, <3>1 DEF Only
    <3>3. ~HasNext(u, c)
      BY <1>1, <2>5, <2>7, <3>1 DEF Attempting, HasNext
    <3> HIDE DEF l, o
    <3>4. /\ l = w.conn[c].client /\ o = w.conn[c].origin /\ k \in {l, o}
          /\ u.conn[c].client = l /\ u.conn[c].origin = o /\ u.item = w.item
          /\ u.conn[c].st = "REQUEST_CONNECTING" /\ u.conn[c].refs = w.conn[c].refs
          /\ u.sock[o] = "dead" /\ w.item[o].owner = c
      BY <1>3, <2>5, <2>6, <3>1 DEF l, o
    <3> QED
      BY <3>2, <3>3, <3>4, RetryTight
  <2>8. CASE ~HasNext(b, c)
    <3> DEFINE t == error_handler_to_client(b, c)
    <3>1. v = Stage(t, c, "REQUEST_WRITE")
      BY <2>1, <2>8
    <3> HIDE DEF l, o
    <3>2. /\ l = w.conn[c].client /\ o = w.conn[c].origin /\ Alive(b, c) /\ b.item[o].owner = c
          /\ b.conn[c].client # b.conn[c].origin /\ o # None
      BY <1>1, <1>3, <2>5, <2>6 DEF l, o, Alive
    <3>3. /\ Only(b, t, c, b.conn[c].client, b.conn[c].origin) /\ t.sock = b.sock
          /\ KeptButStatus(b.conn[c], t.conn[c]) /\ t.conn[c].status = b.conn[c].status
          /\ t.item[b.conn[c].client].owner = c /\ t.item[b.conn[c].client].int = {W}
          /\ b.conn[c].origin # None =>
               /\ t.item[b.conn[c].origin].owner = b.item[b.conn[c].origin].owner
               /\ b.item[b.conn[c].origin].owner # None => t.item[b.conn[c].origin].int = {}
      <4>1. Told(b, t, c) /\ t.conn[c].status = b.conn[c].status
        BY ONLY <2>4, <3>2, ToldIs
      <4> QED
        BY <4>1 DEF Told
    <3> HIDE DEF t
    <3>4. t \in WorldType /\ "REQUEST_WRITE" \in Stages
      BY <3>3 DEF Only, Stages
    <3>5. /\ Only(t, v, c, None, None) /\ v.item = t.item /\ v.sock = t.sock
          /\ Kept(t.conn[c], v.conn[c]) /\ v.conn[c].refs = t.conn[c].refs
          /\ v.conn[c].st = "REQUEST_WRITE" /\ v.conn[c].status = t.conn[c].status
      BY <3>1, <3>4, StageIs
    <3>6. Only(w, v, c, l, o)
      <4>1. ASSUME NEW h \in Fd \ {l, o} PROVE v.item[h] = w.item[h] /\ v.sock[h] = w.sock[h]
        BY <1>1, <2>4, <2>5, <3>3, <3>5 DEF Only
      <4> QED
        BY <2>4, <3>3, <3>5, <4>1 DEF Only
    <3>8. v.conn[c].client = l /\ v.conn[c].origin = o /\ v.conn[c].refs = 2
      BY <2>5, <2>6, <3>3, <3>5 DEF KeptButStatus, Kept
    <3>7. /\ v.item[l].owner = c /\ v.item[l].int = {W}
          /\ v.item[o].owner = c /\ v.item[o].int = {}
      BY <1>1, <2>5, <3>2, <3>3, <3>5
    <3> QED
      BY <3>2, <3>5, <3>6, <3>7, <3>8, RepliedTight
  <2> QED
    BY <2>7, <2>8
<1> QED
  BY <1>4, <1>5, <1>7, <1>8

\* The teardown finds an entry for each descriptor of c, so it does not abort,
\* and the last reference is given back with the last entry.
LEMMA DoneTight ==
    ASSUME NEW w, NEW c \in Conn, Safe(w), Tight(w), Alive(w, c), w.stopped # "abort",
           Own(w, c) \/ w.conn[c].origin = None,
           NEW u, Only(w, u, c, w.conn[c].client, None), u.conn[c].client = w.conn[c].client,
           u.conn[c].origin = w.conn[c].origin, u.conn[c].refs = w.conn[c].refs,
           u.item[w.conn[c].client].owner = c,
           NEW s \in Stages, NEW v, v = socksv5_done(Stage(u, c, s), c)
    PROVE  Leaves(w, v, c) /\ ~Alive(v, c)
<1> DEFINE l == w.conn[c].client
           o == w.conn[c].origin
           a == Stage(u, c, s)
           p == close(selector_unregister_fd(a, l), l)
           q == close(selector_unregister_fd(p, o), o)
<1>1. /\ l \in Fd /\ o \in Fd \cup {None} /\ w.item[l].owner = c /\ l # o
      /\ None \notin Conn /\ None \notin Fd /\ Shaped(w, c)
  BY AliveFacts
<1>2. /\ w.conn[c].refs = IF o = None THEN 1 ELSE 2
      /\ o # None => w.item[o].owner = c
  BY <1>1 DEF Shaped, Own
<1>3. /\ Only(u, a, c, None, None) /\ a.item = u.item /\ a.sock = u.sock
      /\ Kept(u.conn[c], a.conn[c]) /\ a.conn[c].refs = u.conn[c].refs
  <2>1. u \in WorldType
    BY DEF Only
  <2> QED
    BY <2>1, StageIs
<1>4. v = done_fd(done_fd(a, l), o)
  BY <1>3 DEF socksv5_done, Kept
<1> HIDE DEF a
<1>5. /\ a \in WorldType /\ a.stopped = w.stopped /\ a.item[l].owner = c
      /\ a.conn[c].refs = w.conn[c].refs /\ a.conn[c].refs # 0
      /\ o # None => a.item[o].owner = c
  BY <1>1, <1>2, <1>3 DEF Only
<1>6. done_fd(a, l) = p
  BY <1>1, <1>5 DEF done_fd, ITEM_USED
<1>7. /\ Only(a, p, c, l, None) /\ p.item[l].owner = None
      /\ \/ a.conn[c].refs = 1 /\ p.conn[c] = Blank
         \/ /\ a.conn[c].refs # 1 /\ p.conn[c].refs = a.conn[c].refs - 1
            /\ SameButRefs(p.conn[c], a.conn[c])
  BY <1>1, <1>5, DropIs
<1> HIDE DEF p
<1>8. Only(w, p, c, l, None)
  BY <1>3, <1>7 DEF Only, None, Fd
<1>9. CASE o = None
  <2>1. v = p
    BY <1>4, <1>6, <1>9 DEF done_fd
  <2>2. v.conn[c] = Blank
    BY <1>2, <1>5, <1>7, <1>9, <2>1
  <2>3. Only(w, v, c, l, o)
    BY <1>8, <1>9, <2>1
  <2> QED
    BY <1>7, <1>9, <2>1, <2>2, <2>3, GoneTight
<1>10. CASE o # None
  <2>1. /\ p \in WorldType /\ p.stopped # "abort" /\ p.item[o].owner = c
        /\ p.conn[c].refs = 1 /\ o \in Fd
    BY <1>1, <1>2, <1>5, <1>7, <1>10 DEF Only
  <2>2. v = q
    BY <1>1, <1>4, <1>6, <1>10, <2>1 DEF done_fd, ITEM_USED
  <2>3. Only(p, q, c, o, None) /\ q.item[o].owner = None /\ q.conn[c] = Blank
    BY <1>10, <2>1, DropIs
  <2>4. Only(w, v, c, l, o)
    <3>1. Only(p, v, c, o, None)
      BY <2>2, <2>3
    <3> QED
      BY ONLY <1>8, <3>1, OnlyTrans
  <2>5. v.item[l].owner = None
    <3>1. Only(p, v, c, o, None) /\ l \in Fd \ {o, None}
      BY <1>1, <2>2, <2>3
    <3>2. v.item[l] = p.item[l]
      BY ONLY <3>1 DEF Only
    <3> QED
      BY ONLY <1>7, <3>2
  <2> QED
    BY <2>2, <2>3, <2>4, <2>5, GoneTight
<1> QED
  BY <1>9, <1>10

\* What COPY arms.
LEMMA CopyInterestsIs ==
    ASSUME NEW w \in WorldType, NEW c \in Conn, Alive(w, c), NEW l, l = w.conn[c].client,
           NEW o, o = w.conn[c].origin, l # o, o # None => w.item[o].owner = c,
           NEW i \in SUBSET {R, W}, NEW j \in SUBSET {R, W}, NEW v, v = copy_interests(w, c, i, j)
    PROVE  /\ Only(w, v, c, l, o) /\ v.conn = w.conn
           /\ v.item[l].owner = c /\ v.item[l].int = i
           /\ o # None => v.item[o].owner = c /\ v.item[o].int = j
<1> DEFINE a == IF o = None THEN w ELSE selector_set_interest(w, o, j)
<1>1. /\ l \in Fd /\ o \in Fd \cup {None} /\ w.item[l].owner = c
      /\ None \notin Conn /\ None \notin Fd
  BY ConnAssumption DEF WorldType, ConnType, Alive, None, Fd
<1>2. /\ Only(w, a, c, o, None) /\ a.conn = w.conn
      /\ \A h \in Fd \ {o} : a.item[h] = w.item[h]
      /\ o # None => a.item[o].owner = c /\ a.item[o].int = j
  <2>1. CASE o = None
    BY <2>1 DEF Only
  <2>2. CASE o # None
    <3>1. a = selector_set_interest(w, o, j) /\ o \in Fd
      BY <1>1, <2>2
    <3> HIDE DEF a
    <3>2. /\ Only(w, a, c, o, None) /\ a.conn = w.conn /\ a.sock = w.sock
          /\ \A g \in Fd \ {o} : a.item[g] = w.item[g]
          /\ o \in Fd => a.item[o].owner = w.item[o].owner
          /\ o \in Fd /\ w.item[o].owner # None => a.item[o].int = j
      BY <1>1, <3>1, InterestIs
    <3> QED
      BY <1>1, <2>2, <3>1, <3>2
  <2> QED
    BY <2>1, <2>2
<1>3. v = selector_set_interest(a, l, i)
  BY <1>1, <1>2 DEF copy_interests, ITEM_USED
<1> HIDE DEF a
<1>4. a \in WorldType /\ a.item[l].owner = c
  BY <1>1, <1>2 DEF Only
<1>5. /\ Only(a, v, c, l, None) /\ v.conn = a.conn /\ v.sock = a.sock
      /\ \A g \in Fd \ {l} : v.item[g] = a.item[g]
      /\ v.item[l].owner = a.item[l].owner
      /\ a.item[l].owner # None => v.item[l].int = i
  BY <1>1, <1>3, <1>4, InterestIs
<1>6. Only(w, v, c, l, o)
  BY <1>1, <1>2, <1>5 DEF Only
<1> QED
  BY <1>1, <1>2, <1>4, <1>5, <1>6

\* c is in COPY after its handler: with an origin something is armed, without
\* one memory ran out.
LEMMA CopyTight ==
    ASSUME NEW w, NEW v, NEW c \in Conn, Safe(w), Tight(w), Alive(w, c),
           NEW l, l = w.conn[c].client, NEW o, o = w.conn[c].origin, Only(w, v, c, l, o),
           v.conn[c].client = l, v.conn[c].origin = o, v.conn[c].st = "COPY",
           v.item[l].owner = c, o # None => v.item[o].owner = c,
           \/ o = None /\ OutOfMemory /\ v.conn[c].refs = 1
           \/ o # None /\ v.conn[c].refs = 2 /\ (v.item[l].int # {} \/ v.item[o].int # {})
    PROVE  Leaves(w, v, c)
<1>1. /\ l \in Fd /\ o \in Fd \cup {None} /\ w.item[l].owner = c /\ l # o
      /\ None \notin Conn /\ None \notin Fd
  <2>1. c \in Conn /\ Safe(w) /\ Tight(w) /\ Alive(w, c)
    OBVIOUS
  <2>2. /\ w.conn[c].client \in Fd /\ w.item[w.conn[c].client].owner = c
        /\ w.conn[c].origin \in Fd \cup {None} /\ w.conn[c].client # w.conn[c].origin
        /\ None \notin Conn /\ None \notin Fd
    BY ONLY <2>1, AliveFacts
  <2>3. l = w.conn[c].client /\ o = w.conn[c].origin
    OBVIOUS
  <2> QED
    BY ONLY <2>2, <2>3
<1>2. Shaped(v, c)
  BY <1>1 DEF Shaped, Early, Login, Own, ClientInt, OriginInt
<1> QED
  BY <1>1, <1>2, StepTight

\* The open directions p are armed as a says, each at one end at least.
Arms(p, a) == \A d \in p : a[d] \in (SUBSET {R, W}) \ {{}}

\* Relay: a direction that is open has one of its ends armed.
LEMMA RelayTight ==
    ASSUME NEW w, NEW u, NEW c \in Conn, Safe(w), Tight(w), Alive(w, c), Own(w, c),
           Only(w, u, c, None, None), u.item = w.item, u.conn[c].client = w.conn[c].client,
           u.conn[c].origin = w.conn[c].origin, u.conn[c].refs = w.conn[c].refs,
           u.conn[c].st = "COPY",
           NEW p \in (SUBSET {"up", "down"}) \ {{}}, NEW a,
           Arms(p, a), NEW v, v = Relay(u, c, p, a)
    PROVE  Leaves(w, v, c) /\ v.conn[c].st = "COPY"
<1> DEFINE l == w.conn[c].client
           o == w.conn[c].origin
           r == [u.conn[c] EXCEPT !.open = p]
           b == [u EXCEPT !.conn[c] = r]
           i == {op \in {R, W} : LET d == IF op = R THEN "up" ELSE "down"
                                 IN d \in p /\ op \in a[d]}
           j == {op \in {R, W} : LET d == IF op = R THEN "down" ELSE "up"
                                 IN d \in p /\ op \in a[d]}
<1>1. /\ l \in Fd /\ o \in Fd \cup {None} /\ w.item[l].owner = c /\ l # o
      /\ None \notin Conn /\ None \notin Fd /\ Shaped(w, c)
  BY AliveFacts
<1>2. o # None /\ w.item[o].owner = c /\ w.conn[c].refs = 2
  BY <1>1 DEF Own, Shaped
<1>3. u \in WorldType /\ u.conn[c] \in ConnType
  BY DEF Only, WorldType
<1>4. /\ r \in ConnType /\ r.client = l /\ r.origin = o /\ r.refs = 2 /\ r.st = "COPY"
  BY <1>2, <1>3 DEF ConnType
<1>5. v = copy_interests(b, c, i, j)
  BY DEF Relay
<1>6. i \in SUBSET {R, W} /\ j \in SUBSET {R, W} /\ (i # {} \/ j # {})
  <2>1. PICK d \in p : a[d] \in (SUBSET {R, W}) \ {{}}
    BY DEF Arms
  <2>2. PICK op \in {R, W} : op \in a[d]
    BY <2>1
  <2>3. d \in {"up", "down"}
    BY <2>1
  <2>4. op \in i \/ op \in j
    BY <2>1, <2>2, <2>3 DEF R, W
  <2> QED
    BY <2>4
<1> HIDE DEF r, i, j, l, o
<1>7. /\ Only(u, b, c, None, None)
      /\ b.conn[c] = r /\ b.item = u.item /\ b.sock = u.sock
  BY ONLY <1>3, <1>4, SetIs
<1> HIDE DEF b
<1>8. /\ b \in WorldType /\ Alive(b, c) /\ l = b.conn[c].client /\ o = b.conn[c].origin
      /\ o # None => b.item[o].owner = c
  BY <1>1, <1>2, <1>4, <1>7 DEF Only, Alive
<1>9. /\ Only(b, v, c, l, o) /\ v.conn = b.conn
      /\ v.item[l].owner = c /\ v.item[l].int = i
      /\ o # None => v.item[o].owner = c /\ v.item[o].int = j
  BY <1>1, <1>5, <1>6, <1>8, CopyInterestsIs
<1>10. Only(w, v, c, l, o)
  <2>1. ASSUME NEW h \in Fd \ {l, o} PROVE v.item[h] = w.item[h] /\ v.sock[h] = w.sock[h]
    BY <1>1, <1>7, <1>9 DEF Only
  <2> QED
    BY <1>7, <1>9, <2>1 DEF Only
<1>11. /\ v.conn[c].refs = 2 /\ v.conn[c].client = l /\ v.conn[c].origin = o
       /\ v.conn[c].st = "COPY"
  BY <1>4, <1>7, <1>9
<1>12. l = w.conn[c].client /\ o = w.conn[c].origin
  BY DEF l, o
<1>13. /\ v.item[l].owner = c /\ v.item[o].owner = c
       /\ v.item[l].int # {} \/ v.item[o].int # {}
  BY <1>2, <1>6, <1>9
<1> QED
  BY <1>2, <1>10, <1>11, <1>12, <1>13, CopyTight

\* A name asked for is being resolved or its notification waits, unless memory
\* ran out.
Awaited(w, q) ==
    \A c \in Conn : Resolving(w, c) =>
        \/ OutOfMemory \/ w.conn[c].thread
        \/ \E i \in 1..Len(q) : q[i] = w.conn[c].client

TightInv == Tight(World) /\ Awaited(World, jobs)

\* It after a step, in terms of the world that leads to.
LEMMA TightPrime ==
    ASSUME NEW v, World' = v, Tight(v), Awaited(v, jobs')
    PROVE  TightInv'
<1>1. Tight(World)' <=> Tight(World')
  BY DEF Tight, Uses, Alive, Shaped, Attempting, HasNext, Own, ClientInt, OriginInt
<1>2. Awaited(World, jobs)' <=> Awaited(World', jobs')
  BY DEF Awaited, Resolving, Alive
<1> QED
  BY <1>1, <1>2 DEF TightInv

\* A step for c; the notifications of the others stay.
LEMMA LeftTight ==
    ASSUME TightInv, NEW c \in Conn, NEW v, Commit(v), Leaves(World, v, c),
           Resolving(v, c) => \/ OutOfMemory \/ v.conn[c].thread
                              \/ \E i \in 1..Len(jobs') : jobs'[i] = v.conn[c].client,
           \A d \in Conn \ {c} : Resolving(World, d) =>
              ((\E i \in 1..Len(jobs) : jobs[i] = World.conn[d].client)
                 => (\E i \in 1..Len(jobs') : jobs'[i] = World.conn[d].client))
    PROVE  TightInv'
<1>1. v \in WorldType /\ Tight(v)
  BY DEF Leaves
<1>2. World' = v
  BY <1>1, CommitIs
<1>3. ASSUME NEW d \in Conn, Resolving(v, d)
      PROVE  \/ OutOfMemory \/ v.conn[d].thread
             \/ \E i \in 1..Len(jobs') : jobs'[i] = v.conn[d].client
  <2>1. CASE d = c
    BY <1>3, <2>1
  <2>2. CASE d # c
    <3>1. v.conn[d] = World.conn[d] /\ Alive(World, d)
      BY <1>3, <2>2 DEF Leaves, Resolving
    <3>2. Resolving(World, d)
      BY <1>3, <3>1 DEF Resolving
    <3> QED
      BY <2>2, <3>1, <3>2 DEF TightInv, Awaited
  <2> QED
    BY <2>1, <2>2
<1> QED
  BY <1>1, <1>2, <1>3, TightPrime DEF Awaited

\* A handler of an event of c's.
LEMMA HandlerTight ==
    ASSUME ProxyInv, TightInv, NEW e \in todo, NEW c \in Conn, NEW op, NEW st,
           Serving(e, op, c, st), NEW v, Commit(v), Leaves(World, v, c),
           v.conn[c].st = "REQUEST_RESOLV" /\ Alive(v, c) => OutOfMemory \/ v.conn[c].thread
    PROVE  TightInv'
<1>1. jobs' = jobs
  BY ServingFacts
<1> QED
  BY <1>1, LeftTight DEF Resolving

\* Nothing that the invariant is about changes.
LEMMA SameTight ==
    ASSUME TightInv, World' = World, jobs' = jobs
    PROVE  TightInv'
BY TightPrime DEF TightInv

\* The sockets alone may change, of an attempt in progress.
LEMMA SocksTight ==
    ASSUME NEW w, NEW v, Tight(w), v.conn = w.conn, v.item = w.item,
           \A f \in Fd : w.sock[f] = "new" => v.sock[f] = "new",
           v.stopped = "abort" => Faulty, w \in WorldType
    PROVE  Tight(v) /\ \A d \in Conn : Resolving(v, d) <=> Resolving(w, d)
<1>1. ASSUME NEW d \in Conn
      PROVE  /\ Alive(v, d) <=> Alive(w, d)
             /\ Own(v, d) <=> Own(w, d)
             /\ ClientInt(v, d) = ClientInt(w, d)
             /\ OriginInt(v, d) = OriginInt(w, d)
             /\ HasNext(v, d) <=> HasNext(w, d)
             /\ \A f : Uses(v, d, f) <=> Uses(w, d, f)
  BY DEF Alive, Uses, Own, ClientInt, OriginInt, HasNext
<1>2. ASSUME NEW d \in Conn, Shaped(w, d) PROVE Shaped(v, d)
  <2>1. w.conn[d].origin \in Fd \cup {None}
    BY DEF WorldType, ConnType
  <2>2. Attempting(w, d) => Attempting(v, d)
    BY <1>1, <2>1 DEF Attempting
  <2> QED
    BY <1>1, <1>2, <2>2 DEF Shaped
<1>3. \A f \in Fd : w.item[f].owner \in Conn \cup {None}
  BY DEF WorldType, ItemType
<1>4. Tight(v)
  BY <1>1, <1>2, <1>3 DEF Tight
<1> QED
  BY <1>1, <1>4 DEF Resolving

\* A handler that only waits for more.
LEMMA IdleTight ==
    ASSUME ProxyInv, TightInv, NEW e \in todo, NEW c \in Conn, NEW op, NEW st,
           Serving(e, op, c, st), Commit(World)
    PROVE  TightInv'
<1>1. World \in WorldType /\ jobs' = jobs
  BY ServingFacts DEF Safe, Basic
<1>2. World' = World
  BY <1>1, CommitIs
<1> QED
  BY <1>1, <1>2, SameTight

\* From w to b the login went on to stage s; c keeps its client.
Begun(w, b, c, s) ==
    /\ Only(w, b, c, w.conn[c].client, None) /\ b.conn[c].client = w.conn[c].client
    /\ b.conn[c].origin = None /\ b.conn[c].refs = 1 /\ ~b.conn[c].resolved
    /\ b.conn[c].st = s /\ b.item[w.conn[c].client].owner = c

\* The login goes on.
LEMMA AdvanceLeaves ==
    ASSUME NEW w, NEW c \in Conn, Safe(w), Tight(w), Alive(w, c), Sound(w, c),
           w.conn[c].st \in Early, NEW k \in Fd, Uses(w, c, k), NEW i \in SUBSET {R, W}, NEW s \in Early,
           s \in {"HELLO_READ", "USERPASS_READ", "REQUEST_READ"} => i = {R},
           s \in {"HELLO_WRITE", "USERPASS_WRITE"} => i = {W},
           s = "REQUEST_RESOLV" => i = {}, w.conn[c].st \in Login \/ s = "REQUEST_RESOLV",
           NEW r \in ConnType, r.client = w.conn[c].client, r.origin = w.conn[c].origin,
           r.refs = w.conn[c].refs, r.resolved = w.conn[c].resolved,
           r.replies = w.conn[c].replies,
           NEW v, v = Stage(selector_set_interest([w EXCEPT !.conn[c] = r], k, i), c, s)
    PROVE  Leaves(w, v, c) /\ v.conn[c].st = s /\ v.conn[c].thread = r.thread
           /\ Begun(w, v, c, s)
<1> DEFINE l == w.conn[c].client
           a == [w EXCEPT !.conn[c] = r]
           b == selector_set_interest(a, k, i)
<1>1. /\ w \in WorldType /\ l \in Fd /\ w.item[l].owner = c /\ None \notin Conn
      /\ None \notin Fd /\ Shaped(w, c)
  BY AliveFacts
<1>2. w.conn[c].origin = None /\ w.conn[c].refs = 1 /\ ~w.conn[c].resolved
  BY <1>1 DEF Sound, Staged, Shaped
<1>3. k = l
  BY <1>2, <1>1 DEF Uses
<1>4. /\ Only(w, a, c, None, None)
      /\ a.conn[c] = r /\ a.item = w.item /\ a.sock = w.sock
  BY ONLY <1>1, SetIs
<1>5. v = Stage(b, c, s)
  OBVIOUS
<1> HIDE DEF a
<1>6. a \in WorldType /\ a.item[l].owner = c
  BY <1>1, <1>4 DEF Only
<1>7. /\ Only(a, b, c, l, None) /\ b.conn = a.conn /\ b.sock = a.sock
      /\ b.item[l].owner = a.item[l].owner /\ (a.item[l].owner # None => b.item[l].int = i)
  BY <1>1, <1>3, <1>6, InterestIs
<1> HIDE DEF b
<1>8. b \in WorldType /\ s \in Stages
  BY <1>7 DEF Only, Early, Stages
<1>9. /\ Only(b, v, c, None, None) /\ v.item = b.item /\ v.sock = b.sock
      /\ Kept(b.conn[c], v.conn[c]) /\ v.conn[c].refs = b.conn[c].refs
      /\ v.conn[c].st = s /\ v.conn[c].replies = b.conn[c].replies
  BY <1>5, <1>8, StageIs
<1>10. Only(w, v, c, l, None)
  BY <1>4, <1>7, <1>9 DEF Only
<1>11. /\ v.conn[c].client = l /\ v.conn[c].origin = None /\ v.conn[c].refs = 1
       /\ ~v.conn[c].resolved /\ v.conn[c].thread = r.thread
       /\ v.item[l].owner = c /\ v.item[l].int = i
  BY <1>1, <1>2, <1>4, <1>6, <1>7, <1>9 DEF Kept
<1>12. Shaped(v, c)
  <2>1. s # "REQUEST_RESOLV" => v.conn[c].replies = 0
    BY <1>1, <1>4, <1>7, <1>9 DEF Shaped
  <2> QED
    BY <1>9, <1>11, <2>1 DEF Shaped, Early, Login, Own, ClientInt
<1> HIDE DEF l
<1>13. l = w.conn[c].client /\ w.conn[c].origin \in {None, None} /\ None \in Fd \cup {None}
  BY <1>2 DEF l
<1>14. Leaves(w, v, c)
  BY <1>2, <1>10, <1>11, <1>12, <1>13, StepTight
<1>15. Begun(w, v, c, s)
  BY <1>9, <1>10, <1>11, <1>13 DEF Begun
<1> QED
  BY <1>9, <1>11, <1>14, <1>15

\* In an action: c's fields become r, then the stage s.
LEMMA AdvanceTight ==
    ASSUME ProxyInv, TightInv, NEW e \in todo, NEW c \in Conn, NEW op, NEW st \in Early,
           Serving(e, op, c, st), NEW i \in SUBSET {R, W}, NEW s \in Early,
           s \in {"HELLO_READ", "USERPASS_READ", "REQUEST_READ"} => i = {R},
           s \in {"HELLO_WRITE", "USERPASS_WRITE"} => i = {W},
           s = "REQUEST_RESOLV" => i = {}, st \in Login \/ s = "REQUEST_RESOLV",
           NEW r \in ConnType,
           \A g \in {"client", "origin", "refs", "resolved", "replies"} : r[g] = World.conn[c][g],
           s = "REQUEST_RESOLV" => r.thread \/ OutOfMemory,
           NEW u, u = [World EXCEPT !.conn[c] = r], Advance(u, c, e[1], i, s)
    PROVE  TightInv'
<1> DEFINE v == Stage(selector_set_interest([World EXCEPT !.conn[c] = r], e[1], i), c, s)
<1>1. Commit(v)
  BY DEF Advance
<1>2. /\ Safe(World) /\ Tight(World) /\ Alive(World, c) /\ Sound(World, c)
      /\ World.conn[c].st \in Early /\ Uses(World, c, e[1]) /\ e[1] \in Fd
      /\ World.conn[c].st \in Login \/ s = "REQUEST_RESOLV"
  BY ServingFacts DEF TightInv
<1>3. /\ r.client = World.conn[c].client /\ r.origin = World.conn[c].origin
      /\ r.refs = World.conn[c].refs /\ r.resolved = World.conn[c].resolved
      /\ r.replies = World.conn[c].replies
  OBVIOUS
<1>4. Leaves(World, v, c) /\ v.conn[c].st = s /\ v.conn[c].thread = r.thread
  BY <1>2, <1>3, AdvanceLeaves
<1> HIDE DEF v
<1> QED
  BY <1>1, <1>4, HandlerTight

\* With no field changed.
LEMMA GoOnTight ==
    ASSUME ProxyInv, TightInv, NEW e \in todo, NEW c \in Conn, NEW op, NEW st \in Early,
           Serving(e, op, c, st), NEW i \in SUBSET {R, W}, NEW s \in Early,
           s \in {"HELLO_READ", "USERPASS_READ", "REQUEST_READ"} => i = {R},
           s \in {"HELLO_WRITE", "USERPASS_WRITE"} => i = {W},
           s = "REQUEST_RESOLV" => i = {} /\ OutOfMemory,
           st \in Login \/ s = "REQUEST_RESOLV",
           Advance(World, c, e[1], i, s)
    PROVE  TightInv'
<1> DEFINE r == World.conn[c]
<1>1. r \in ConnType /\ World \in WorldType
  BY ServingFacts DEF Safe, Basic
<1>2. World = [World EXCEPT !.conn[c] = r]
  BY <1>1 DEF WorldType
<1>3. \A g \in {"client", "origin", "refs", "resolved", "replies"} : r[g] = World.conn[c][g]
  OBVIOUS
<1> HIDE DEF r
<1> QED
  BY <1>1, <1>2, <1>3, AdvanceTight

\* The connection is torn down; whatever was called before kept its entry.
LEMMA FinishTight ==
    ASSUME ProxyInv, TightInv, NEW e \in todo, NEW c \in Conn, NEW op,
           NEW st \in Early \cup {"REQUEST_WRITE", "COPY"}, Serving(e, op, c, st),
           NEW u, Only(World, u, c, World.conn[c].client, None),
           u.conn[c].client = World.conn[c].client, u.conn[c].origin = World.conn[c].origin,
           u.conn[c].refs = World.conn[c].refs, u.item[World.conn[c].client].owner = c,
           NEW s \in Stages, Finish(u, c, s)
    PROVE  TightInv'
<1> DEFINE v == socksv5_done(Stage(u, c, s), c)
<1>1. Commit(v)
  BY DEF Finish
<1>2. /\ Safe(World) /\ Tight(World) /\ Alive(World, c) /\ Sound(World, c)
      /\ World.conn[c].st = st /\ World.stopped # "abort"
  BY ServingFacts DEF TightInv
<1>3. Own(World, c) \/ World.conn[c].origin = None
  BY <1>2 DEF Tight, Shaped, Sound, Staged
<1>4. Leaves(World, v, c) /\ ~Alive(v, c)
  BY <1>2, <1>3, DoneTight
<1> HIDE DEF v
<1> QED
  BY <1>1, <1>4, HandlerTight

\* A handler that fails: the connection ends.
LEMMA FailTight ==
    ASSUME ProxyInv, TightInv, NEW e \in todo, NEW c \in Conn, NEW op,
           NEW st \in Early \cup {"REQUEST_WRITE", "COPY"}, Serving(e, op, c, st),
           NEW s \in Stages, Finish(World, c, s)
    PROVE  TightInv'
<1>1. World \in WorldType /\ Alive(World, c)
  BY ServingFacts DEF Safe, Basic
<1>2. Only(World, World, c, World.conn[c].client, None) /\ World.item[World.conn[c].client].owner = c
  BY <1>1 DEF Only, Alive
<1> QED
  BY <1>2, FinishTight

\* The process ends at once: only what may end it does.
LEMMA AbortTight ==
    ASSUME TightInv, World \in WorldType, Faulty, jobs' = jobs,
           Commit([World EXCEPT !.stopped = "abort"])
    PROVE  TightInv'
<1> DEFINE v == [World EXCEPT !.stopped = "abort"]
<1>1. v \in WorldType /\ v.conn = World.conn /\ v.item = World.item /\ v.sock = World.sock
  BY DEF WorldType
<1> HIDE DEF v
<1>2. World' = v
  BY <1>1, CommitIs DEF v
<1>3. Tight(v) /\ \A d \in Conn : Resolving(v, d) <=> Resolving(World, d)
  BY <1>1, SocksTight DEF TightInv
<1>4. Awaited(v, jobs')
  BY <1>1, <1>3 DEF TightInv, Awaited
<1> QED
  BY <1>2, <1>3, <1>4, TightPrime

\* request_init queues an error: the client is armed to be told.
LEMMA UnsentTight ==
    ASSUME OutOfMemory, NEW w, NEW c \in Conn, Safe(w), Tight(w), Alive(w, c),
           w.conn[c].origin = None, NEW b, Begun(w, b, c, "REQUEST_READ"),
           NEW v, v = error_handler(b, c)
    PROVE  Leaves(w, v, c) /\ Begun(w, v, c, "REQUEST_READ")
<1> DEFINE l == w.conn[c].client
<1>1. l \in Fd /\ w.item[l].owner = c /\ None \notin Conn /\ None \notin Fd
  BY AliveFacts
<1>2. /\ Only(w, b, c, l, None) /\ b \in WorldType /\ b.conn[c].client = l
      /\ b.conn[c].origin = None /\ b.conn[c].refs = 1 /\ ~b.conn[c].resolved
      /\ b.conn[c].st = "REQUEST_READ" /\ Alive(b, c)
  BY <1>1 DEF Begun, Only, Alive
<1>3. /\ Only(b, v, c, b.conn[c].client, None) /\ KeptButStatus(b.conn[c], v.conn[c])
      /\ v.item[b.conn[c].client].owner = c /\ v.item[b.conn[c].client].int = {W}
      /\ v.conn[c].replies # 0
  BY <1>2, HandlerIs
<1> HIDE DEF l
<1>4. Only(w, v, c, l, None)
  BY <1>2, <1>3 DEF Only
<1>5. /\ v.conn[c].client = l /\ v.conn[c].origin = None /\ v.conn[c].refs = 1
      /\ ~v.conn[c].resolved /\ v.conn[c].st = "REQUEST_READ"
      /\ v.item[l].owner = c /\ v.item[l].int = {W}
  BY <1>2, <1>3 DEF KeptButStatus, Kept
<1>6. Shaped(v, c)
  BY <1>3, <1>5 DEF Shaped, Early, Login, Own, ClientInt
<1>7. l = w.conn[c].client /\ w.conn[c].origin \in {None, None} /\ None \in Fd \cup {None}
  BY DEF l
<1>8. Leaves(w, v, c)
  BY <1>4, <1>5, <1>6, <1>7, StepTight
<1> QED
  BY <1>4, <1>5, <1>7, <1>8 DEF Begun

\* The request is asked for.
LEMMA BeginTight ==
    ASSUME ProxyInv, TightInv, NEW e \in todo, NEW c \in Conn, NEW op,
           NEW st \in Early \cap Login, Serving(e, op, c, st), begin_request(c, e[1])
    PROVE  TightInv'
<1> DEFINE r == World.conn[c]
           b == Stage(selector_set_interest(World, e[1], {R}), c, "REQUEST_READ")
           x == error_handler(b, c)
<1>1. PICK v \in request_init(b, c) : Commit(v)
  BY DEF begin_request
<1>2. /\ Safe(World) /\ Tight(World) /\ Alive(World, c) /\ Sound(World, c)
      /\ World.conn[c].st \in Early /\ World.conn[c].st \in Login
      /\ Uses(World, c, e[1]) /\ e[1] \in Fd /\ r \in ConnType /\ World \in WorldType
  BY ServingFacts DEF TightInv, Safe, Basic
<1>3. /\ World.conn[c].origin = None /\ World = [World EXCEPT !.conn[c] = r]
      /\ {R} \in SUBSET {R, W} /\ "REQUEST_READ" \in Early
  BY <1>2 DEF WorldType, Sound, Staged, Early
<1>4. /\ r.client = World.conn[c].client /\ r.origin = World.conn[c].origin
      /\ r.refs = World.conn[c].refs /\ r.resolved = World.conn[c].resolved
      /\ r.replies = World.conn[c].replies
  OBVIOUS
<1> HIDE DEF r
<1>5. b = Stage(selector_set_interest([World EXCEPT !.conn[c] = r], e[1], {R}), c, "REQUEST_READ")
  BY <1>3
<1> HIDE DEF b, x
<1>6. Leaves(World, b, c) /\ Begun(World, b, c, "REQUEST_READ")
  BY <1>2, <1>3, <1>4, <1>5, AdvanceLeaves
<1>7. ASSUME OutOfMemory PROVE Leaves(World, x, c) /\ Begun(World, x, c, "REQUEST_READ")
  BY <1>2, <1>3, <1>6, <1>7, UnsentTight DEF x
<1>8. Leaves(World, v, c) /\ v.conn[c].st = "REQUEST_READ"
  <2>1. CASE v = b
    BY <1>6, <2>1 DEF Begun
  <2>2. CASE OutOfMemory /\ v = x
    BY <1>7, <2>2 DEF Begun
  <2>3. CASE OutOfMemory /\ v = error_handler(x, c)
    <3>1. Leaves(World, v, c) /\ Begun(World, v, c, "REQUEST_READ")
      BY <1>2, <1>3, <1>7, <2>3, UnsentTight
    <3> QED
      BY <3>1 DEF Begun
  <2>4. CASE OutOfMemory /\ v = [b EXCEPT !.stopped = "abort"]
    <3>1. b \in WorldType /\ Tight(b)
      BY <1>6 DEF Leaves
    <3>2. v \in WorldType /\ v.conn = b.conn /\ v.item = b.item /\ v.sock = b.sock
      BY <2>4, <3>1 DEF WorldType
    <3>3. Tight(v)
      BY <2>4, <3>1, <3>2, SocksTight DEF Faulty
    <3> QED
      BY <1>6, <3>2, <3>3 DEF Leaves, Begun, Alive
  <2> QED
    BY <1>1, <2>1, <2>2, <2>3, <2>4 DEF request_init, x
<1> QED
  BY <1>1, <1>8, HandlerTight

\* hello_read.
LEMMA HelloReadTight == ASSUME ProxyInv, TightInv, hello_read PROVE TightInv'
<1>1. PICK e \in todo, c \in Conn :
        /\ Serving(e, R, c, "HELLO_READ")
        /\ \/ Commit(World)
           \/ \E m \in Methods :
                Advance([World EXCEPT !.conn[c].method = m], c, e[1], {W}, "HELLO_WRITE")
           \/ Finish(World, c, "ERROR")
  BY DEF hello_read
<1>2. ASSUME NEW m \in Methods,
             Advance([World EXCEPT !.conn[c].method = m], c, e[1], {W}, "HELLO_WRITE")
      PROVE  TightInv'
  <2> DEFINE r == [World.conn[c] EXCEPT !.method = m]
             u == [World EXCEPT !.conn[c].method = m]
  <2>1. World.conn[c] \in ConnType /\ World \in WorldType
    BY <1>1, ServingFacts DEF Safe, Basic
  <2>2. /\ r \in ConnType
        /\ \A g \in {"client", "origin", "refs", "resolved", "replies"} : r[g] = World.conn[c][g]
    BY <2>1 DEF ConnType
  <2>3. u = [World EXCEPT !.conn[c] = r] /\ Advance(u, c, e[1], {W}, "HELLO_WRITE")
    BY <1>2, <2>1 DEF WorldType
  <2>4. {W} \in SUBSET {R, W} /\ "HELLO_WRITE" \in Early /\ "HELLO_READ" \in Early \cap Login
    BY DEF Early, Login
  <2> HIDE DEF r, u
  <2> QED
    BY <1>1, <2>2, <2>3, <2>4, AdvanceTight
<1> QED
  BY <1>1, <1>2, IdleTight, FailTight DEF Stages, Early

\* hello_write.
LEMMA HelloWriteTight == ASSUME ProxyInv, TightInv, hello_write PROVE TightInv'
<1>1. PICK e \in todo, c \in Conn :
        /\ Serving(e, W, c, "HELLO_WRITE")
        /\ \/ Commit(World)
           \/ CASE conn[c].method = "refused" -> Finish(World, c, "DONE")
                [] conn[c].method = "none" -> begin_request(c, e[1])
                [] conn[c].method = "user" -> Advance(World, c, e[1], {R}, "USERPASS_READ")
           \/ Finish(World, c, "ERROR")
  BY DEF hello_write
<1>2. conn[c].method \in Methods
  BY <1>1, ServingFacts, WorldIs DEF Sound, Staged
<1>3. /\ {R} \in SUBSET {R, W} /\ {"HELLO_WRITE", "USERPASS_READ"} \subseteq Early
      /\ "HELLO_WRITE" \in Login
  BY DEF Early, Login
<1>4. CASE begin_request(c, e[1])
  BY <1>1, <1>3, <1>4, BeginTight
<1>5. CASE Advance(World, c, e[1], {R}, "USERPASS_READ")
  BY <1>1, <1>3, <1>5, GoOnTight
<1>6. CASE Finish(World, c, "ERROR") \/ Finish(World, c, "DONE")
  BY <1>1, <1>3, <1>6, FailTight DEF Stages
<1>7. CASE Commit(World)
  BY <1>1, <1>7, IdleTight
<1> QED
  BY <1>1, <1>2, <1>4, <1>5, <1>6, <1>7 DEF Methods

\* auth_read: it ends the process only on a bad version.
LEMMA AuthReadTight == ASSUME ProxyInv, TightInv, auth_read PROVE TightInv'
<1>1. PICK e \in todo, c \in Conn :
        /\ Serving(e, R, c, "USERPASS_READ")
        /\ \/ Commit(World)
           \/ \E a \in Verdicts :
                Advance([World EXCEPT !.conn[c].auth = a], c, e[1], {W}, "USERPASS_WRITE")
           \/ Finish(World, c, "ERROR")
           \/ BadVersion /\ Commit([World EXCEPT !.stopped = "abort"])
  BY DEF auth_read
<1>2. ASSUME NEW a \in Verdicts,
             Advance([World EXCEPT !.conn[c].auth = a], c, e[1], {W}, "USERPASS_WRITE")
      PROVE  TightInv'
  <2> DEFINE r == [World.conn[c] EXCEPT !.auth = a]
             u == [World EXCEPT !.conn[c].auth = a]
  <2>1. World.conn[c] \in ConnType /\ World \in WorldType
    BY <1>1, ServingFacts DEF Safe, Basic
  <2>2. /\ r \in ConnType
        /\ \A g \in {"client", "origin", "refs", "resolved", "replies"} : r[g] = World.conn[c][g]
    BY <2>1 DEF ConnType
  <2>3. u = [World EXCEPT !.conn[c] = r] /\ Advance(u, c, e[1], {W}, "USERPASS_WRITE")
    BY <1>2, <2>1 DEF WorldType
  <2>4. {W} \in SUBSET {R, W} /\ "USERPASS_WRITE" \in Early
        /\ "USERPASS_READ" \in Early \cap Login
    BY DEF Early, Login
  <2> HIDE DEF r, u
  <2> QED
    BY <1>1, <2>2, <2>3, <2>4, AdvanceTight
<1>3. CASE BadVersion /\ Commit([World EXCEPT !.stopped = "abort"])
  BY <1>1, <1>3, ServingFacts, AbortTight DEF Safe, Basic, Faulty
<1> QED
  BY <1>1, <1>2, <1>3, IdleTight, FailTight DEF Stages, Early

\* auth_write.
LEMMA AuthWriteTight == ASSUME ProxyInv, TightInv, auth_write PROVE TightInv'
<1>1. PICK e \in todo, c \in Conn :
        /\ Serving(e, W, c, "USERPASS_WRITE")
        /\ \/ Commit(World)
           \/ IF conn[c].auth = "granted" THEN begin_request(c, e[1])
              ELSE Finish(World, c, "DONE")
           \/ Finish(World, c, "ERROR")
  BY DEF auth_write
<1>2. "USERPASS_WRITE" \in Early \cap Login
  BY DEF Early, Login
<1>3. CASE begin_request(c, e[1])
  BY <1>1, <1>2, <1>3, BeginTight
<1>4. CASE Finish(World, c, "ERROR") \/ Finish(World, c, "DONE")
  BY <1>1, <1>2, <1>4, FailTight DEF Stages
<1> QED
  BY <1>1, <1>3, <1>4, IdleTight

\* A free descriptor has no entry.
LEMMA FreeUnused ==
    ASSUME NEW w, Safe(w), Tight(w), NEW f \in FreeFds(w)
    PROVE  f \in Fd /\ w.sock[f] = "free" /\ w.item[f].owner = None
<1>1. f \in Fd /\ w.sock[f] = "free"
  BY DEF FreeFds
<1>2. w.item[f].owner \in Conn \cup {None}
  BY <1>1 DEF Safe, Basic, WorldType, ItemType
<1>3. w.item[f].owner # None => Uses(w, w.item[f].owner, f)
  BY <1>1 DEF Tight
<1> QED
  BY <1>1, <1>2, <1>3 DEF Safe, Links

\* The first attempt: u is w after the stage was entered.
LEMMA InitTight ==
    ASSUME OneRetry, NEW w, NEW u, NEW c \in Conn, Safe(w), Tight(w), Alive(w, c),
           w.conn[c].origin = None, w.conn[c].refs = 1,
           Only(w, u, c, None, None), u.item = w.item, u.sock = w.sock,
           u.conn[c].client = w.conn[c].client, u.conn[c].origin = None, u.conn[c].refs = 1,
           HasNext(u, c) => u.conn[c].addrs = 1, u.conn[c].st = "REQUEST_CONNECTING",
           NEW l, l = w.conn[c].client, NEW r \in ConnectResults,
           NEW v, v = connecting_init(u, c, l, r)
    PROVE  Leaves(w, v, c) /\ v.conn[c].st = "REQUEST_CONNECTING"
<1>1. /\ l \in Fd /\ w.item[l].owner = c /\ w.sock[l] # "free"
      /\ None \notin Conn /\ None \notin Fd
  BY AliveFacts
<1>2. FreeFds(u) = FreeFds(w)
  BY DEF FreeFds
<1>3. \A f \in FreeFds(u) : u.item[f].owner = None
  BY <1>2, FreeUnused
<1>4. u \in WorldType /\ Alive(u, c) /\ u.sock[u.conn[c].client] # "free" /\ l = u.conn[c].client
  BY <1>1 DEF Only, Alive
<1>5. PICK o \in Fd \cup {None} :
        /\ Only(u, v, c, l, o)
        /\ o = None \/ u.sock[o] = "free"
        /\ v.conn[c].client = l /\ v.conn[c].origin = o /\ v.item[l].owner = c
        /\ v.conn[c].st = "REQUEST_CONNECTING"
        /\ o # None => v.item[o].owner \in {c, None}
        /\ Shaped(v, c)
  BY <1>3, <1>4, InitIs
<1>6. Only(w, v, c, l, o)
  BY <1>5 DEF Only
<1>7. o = w.conn[c].origin \/ w.sock[o] = "free"
  BY <1>5
<1>8. Leaves(w, v, c)
  BY <1>1, <1>5, <1>6, <1>7, StepTight
<1> QED
  BY <1>5, <1>8

\* An error is replied before there is an origin.
LEMMA RefusedTight ==
    ASSUME NEW w, NEW u, NEW c \in Conn, Safe(w), Tight(w), Alive(w, c),
           w.conn[c].origin = None,
           Only(w, u, c, None, None), u.item = w.item, u.sock = w.sock,
           u.conn[c].client = w.conn[c].client, u.conn[c].origin = None, u.conn[c].refs = 1,
           u.conn[c].status = "err" \/ OutOfMemory,
           NEW v, v = Stage(error_handler(u, c), c, "REQUEST_WRITE")
    PROVE  Leaves(w, v, c) /\ v.conn[c].st = "REQUEST_WRITE"
<1> DEFINE l == w.conn[c].client
           t == error_handler(u, c)
<1>1. l \in Fd /\ w.item[l].owner = c /\ None \notin Conn /\ None \notin Fd
  BY AliveFacts
<1>2. u \in WorldType /\ Alive(u, c)
  BY <1>1 DEF Only, Alive
<1>3. /\ Only(u, t, c, u.conn[c].client, None) /\ t.sock = u.sock
      /\ KeptButStatus(u.conn[c], t.conn[c]) /\ t.conn[c].status = u.conn[c].status
      /\ t.item[u.conn[c].client].owner = c /\ t.item[u.conn[c].client].int = {W}
  <2>1. u \in WorldType /\ c \in Conn /\ Alive(u, c)
    BY <1>2
  <2> QED
    BY ONLY <2>1, HandlerIs
<1>4. v = Stage(t, c, "REQUEST_WRITE")
  OBVIOUS
<1> HIDE DEF t
<1>5. t \in WorldType /\ "REQUEST_WRITE" \in Stages
  BY <1>3 DEF Only, Stages
<1>6. /\ Only(t, v, c, None, None) /\ v.item = t.item /\ v.sock = t.sock
      /\ Kept(t.conn[c], v.conn[c]) /\ v.conn[c].refs = t.conn[c].refs
      /\ v.conn[c].st = "REQUEST_WRITE" /\ v.conn[c].status = t.conn[c].status
  BY <1>4, <1>5, StageIs
<1>7. Only(w, v, c, l, None)
  BY <1>3, <1>6 DEF Only
<1>8. /\ v.conn[c].client = l /\ v.conn[c].origin = None /\ v.conn[c].refs = 1
      /\ v.conn[c].status = "err" \/ OutOfMemory
      /\ v.item[l].owner = c /\ v.item[l].int = {W}
  BY <1>3, <1>6 DEF KeptButStatus, Kept
<1> HIDE DEF l
<1>9. l = w.conn[c].client /\ None = w.conn[c].origin
  BY DEF l
<1> QED
  BY <1>6, <1>7, <1>8, <1>9, RepliedTight

\* request_read.
LEMMA RequestReadTight == ASSUME OneRetry, ProxyInv, TightInv, request_read PROVE TightInv'
<1>1. PICK e \in todo, c \in Conn :
        /\ Serving(e, R, c, "REQUEST_READ")
        /\ IF conn[c].replies > 0
           THEN \E w \in {Stage(World, c, "REQUEST_WRITE"), [World EXCEPT !.stopped = "abort"]} :
                  Commit(w)
           ELSE \/ Commit(World)
                \/ request_process(c, e[1])
                \/ Finish(World, c, "ERROR")
  BY DEF request_read
<1>2. /\ Safe(World) /\ Tight(World) /\ Alive(World, c) /\ Sound(World, c)
      /\ World.conn[c].st = "REQUEST_READ" /\ World.conn[c] \in ConnType
      /\ e[1] \in Fd /\ Uses(World, c, e[1])
  BY <1>1, ServingFacts DEF TightInv
<1>3. /\ World \in WorldType /\ World.conn[c].origin = None /\ World.conn[c].refs = 1
      /\ ~World.conn[c].resolved
  BY <1>2, AliveFacts DEF Sound, Staged, Shaped, Early
<1>4. e[1] = World.conn[c].client
  BY <1>2, <1>3 DEF Uses, None, Fd
<1>5. {} \in SUBSET {R, W} /\ {"REQUEST_READ", "REQUEST_RESOLV"} \subseteq Early
  BY DEF Early
<1>6. ASSUME NEW r \in ConnectResults,
             Commit(connecting_init(Stage(World, c, "REQUEST_CONNECTING"), c, e[1], r))
      PROVE  TightInv'
  <2> DEFINE u == Stage(World, c, "REQUEST_CONNECTING")
             v == connecting_init(u, c, e[1], r)
  <2>1. /\ Only(World, u, c, None, None) /\ u.item = World.item /\ u.sock = World.sock
        /\ Kept(World.conn[c], u.conn[c]) /\ u.conn[c].refs = World.conn[c].refs
        /\ u.conn[c].st = "REQUEST_CONNECTING"
    BY <1>3, StageIs DEF Stages
  <2>2. Commit(v)
    BY <1>6
  <2> HIDE DEF u
  <2>3. /\ u.conn[c].client = World.conn[c].client /\ u.conn[c].origin = None
        /\ u.conn[c].refs = 1 /\ ~HasNext(u, c)
    BY <1>3, <2>1 DEF Kept, HasNext
  <2>4. Leaves(World, v, c) /\ v.conn[c].st = "REQUEST_CONNECTING"
    BY <1>2, <1>3, <1>4, <2>1, <2>3, InitTight
  <2> HIDE DEF v
  <2> QED
    BY <1>1, <2>2, <2>4, HandlerTight
<1>7. CASE Advance([World EXCEPT !.conn[c].thread = TRUE], c, e[1], {}, "REQUEST_RESOLV")
  <2> DEFINE r == [World.conn[c] EXCEPT !.thread = TRUE]
             u == [World EXCEPT !.conn[c].thread = TRUE]
  <2>1. /\ r \in ConnType /\ r.thread
        /\ \A g \in {"client", "origin", "refs", "resolved", "replies"} : r[g] = World.conn[c][g]
    BY <1>2 DEF ConnType
  <2>2. u = [World EXCEPT !.conn[c] = r] /\ Advance(u, c, e[1], {}, "REQUEST_RESOLV")
    BY <1>3, <1>7 DEF WorldType
  <2> HIDE DEF r, u
  <2> QED
    BY <1>1, <1>5, <2>1, <2>2, AdvanceTight
<1>8. CASE OutOfMemory /\ Commit(Stage(error_handler(World, c), c, "REQUEST_WRITE"))
  <2> DEFINE v == Stage(error_handler(World, c), c, "REQUEST_WRITE")
  <2>1. Only(World, World, c, None, None)
    BY <1>3 DEF Only
  <2>2. Leaves(World, v, c) /\ v.conn[c].st = "REQUEST_WRITE"
    BY <1>2, <1>3, <1>8, <2>1, RefusedTight
  <2>3. Commit(v)
    BY <1>8
  <2> HIDE DEF v
  <2> QED
    BY <1>1, <2>2, <2>3, HandlerTight
<1>9. CASE OutOfMemory /\ Advance(World, c, e[1], {}, "REQUEST_RESOLV")
  BY <1>1, <1>5, <1>9, GoOnTight
<1>10. CASE Finish(World, c, "ERROR")
  BY <1>1, <1>5, <1>10, FailTight DEF Stages
<1>11. CASE Commit(World)
  BY <1>1, <1>11, IdleTight
<1>12. World.conn[c].replies = 0
  <2>1. R \in ClientInt(World, c)
    BY <1>1, <1>4, WorldIs DEF Serving, ClientInt
  <2> QED
    BY <1>2, <2>1, AliveFacts DEF Shaped, R, W
<1> QED
  BY <1>1, <1>6, <1>7, <1>8, <1>9, <1>10, <1>11, <1>12, WorldIs DEF request_process

\* connecting_write.
LEMMA ConnectTight == ASSUME OneRetry, ProxyInv, TightInv, connecting PROVE TightInv'
<1>1. PICK e \in todo, c \in Conn, r \in ConnectResults :
        /\ Serving(e, W, c, "REQUEST_CONNECTING")
        /\ Commit(connecting_write(World, c, e[1], r))
  BY DEF connecting
<1> DEFINE v == connecting_write(World, c, e[1], r)
<1>2. /\ Safe(World) /\ Tight(World) /\ Alive(World, c)
      /\ World.conn[c].st = "REQUEST_CONNECTING"
      /\ e[1] \in Fd /\ Uses(World, c, e[1]) /\ World.item[e[1]].owner = c
  BY <1>1, ServingFacts DEF TightInv
<1>3. W \in World.item[e[1]].int
  BY <1>1, WorldIs DEF Serving
<1>4. Leaves(World, v, c) /\ v.conn[c].st # "REQUEST_RESOLV"
  BY <1>2, <1>3, ConnectingTight
<1>5. Commit(v)
  BY <1>1
<1> HIDE DEF v
<1> QED
  BY <1>1, <1>4, <1>5, HandlerTight

\* What COPY is entered with, or goes on with while it lacks an origin.
LEMMA CopyInitTight ==
    ASSUME NEW w, NEW u, NEW c \in Conn, Safe(w), Tight(w), Alive(w, c),
           Only(w, u, c, None, None), u.item = w.item, u.conn[c].client = w.conn[c].client,
           u.conn[c].origin = w.conn[c].origin, u.conn[c].refs = w.conn[c].refs,
           u.conn[c].st = "COPY", Own(w, c) \/ (w.conn[c].origin = None /\ OutOfMemory),
           NEW v \in copy_init(u, c)
    PROVE  Leaves(w, v, c) /\ v.conn[c].st = "COPY"
<1> DEFINE l == w.conn[c].client
<1>1. l \in Fd /\ w.item[l].owner = c /\ None \notin Conn /\ None \notin Fd /\ Shaped(w, c)
  BY AliveFacts
<1>2. CASE w.conn[c].origin = None
  <2>1. PICK i \in {{}, {R}} : v = copy_interests(u, c, i, {})
    BY <1>2 DEF copy_init
  <2> HIDE DEF l
  <2>2. /\ u \in WorldType /\ Alive(u, c) /\ l = u.conn[c].client /\ None = u.conn[c].origin
        /\ l # None /\ i \in SUBSET {R, W} /\ {} \in SUBSET {R, W}
    BY <1>1, <1>2 DEF l, Only, Alive
  <2>8. None # None => u.item[None].owner = c
    OBVIOUS
  <2>3. /\ Only(u, v, c, l, None) /\ v.conn = u.conn
        /\ v.item[l].owner = c /\ v.item[l].int = i
    BY ONLY <2>1, <2>2, <2>8, CopyInterestsIs
  <2>4. Only(w, v, c, l, None)
    BY <2>3 DEF Only
  <2>5. /\ v.conn[c].client = l /\ v.conn[c].origin = None /\ v.conn[c].st = "COPY"
        /\ v.conn[c].refs = 1 /\ OutOfMemory
    <3>1. ~Own(w, c)
      BY <1>2 DEF Own
    <3>2. w.conn[c].refs = 1
      BY <1>1, <3>1 DEF Shaped
    <3> QED
      BY <1>2, <2>2, <2>3, <3>1, <3>2
  <2>6. l = w.conn[c].client /\ None = w.conn[c].origin
    BY <1>2 DEF l
  <2>7. Leaves(w, v, c)
    BY <2>3, <2>4, <2>5, <2>6, CopyTight
  <2> QED
    BY <2>5, <2>7
<1>3. CASE w.conn[c].origin # None
  <2>1. PICK x \in CopyArms : v = Relay(u, c, {"up", "down"}, [up |-> x, down |-> {R}])
    BY <1>3 DEF copy_init
  <2> DEFINE a == [up |-> x, down |-> {R}]
             p == {"up", "down"}
  <2>2. p \in (SUBSET {"up", "down"}) \ {{}}
    OBVIOUS
  <2>3. Arms(p, a)
    <3>1. x \in (SUBSET {R, W}) \ {{}}
      BY CopyAssumption DEF R, W
    <3>2. a["up"] = x /\ a["down"] = {R}
      OBVIOUS
    <3> QED
      BY <3>1, <3>2 DEF Arms
  <2>4. v = Relay(u, c, p, a)
    BY <2>1
  <2>5. Own(w, c)
    BY <1>3
  <2>6. /\ Safe(w) /\ Tight(w) /\ Alive(w, c) /\ Only(w, u, c, None, None)
        /\ u.item = w.item /\ u.conn[c].client = w.conn[c].client
        /\ u.conn[c].origin = w.conn[c].origin /\ u.conn[c].refs = w.conn[c].refs
        /\ u.conn[c].st = "COPY"
    OBVIOUS
  <2> HIDE DEF a, p
  <2> QED
    BY ONLY <2>2, <2>3, <2>4, <2>5, <2>6, RelayTight
<1> QED
  BY <1>2, <1>3

\* request_write.
LEMMA RequestWriteTight == ASSUME ProxyInv, TightInv, request_write PROVE TightInv'
<1>1. PICK e \in todo, c \in Conn :
        /\ Serving(e, W, c, "REQUEST_WRITE")
        /\ \/ Commit(World)
           \/ IF conn[c].status = "ok"
              THEN \E w \in copy_init(Stage(World, c, "COPY"), c) : Commit(w)
              ELSE Finish(selector_set_interest(World, conn[c].client, {}), c, "DONE")
           \/ Finish(World, c, "ERROR")
  BY DEF request_write
<1>2. /\ Safe(World) /\ Tight(World) /\ Alive(World, c) /\ World.conn = conn
      /\ World.conn[c].st = "REQUEST_WRITE"
  BY <1>1, ServingFacts, WorldIs DEF TightInv
<1>3. /\ World \in WorldType /\ Shaped(World, c) /\ World.conn[c].client \in Fd
      /\ World.item[World.conn[c].client].owner = c /\ None \notin Conn /\ None \notin Fd
  BY <1>2, AliveFacts
<1>4. ASSUME conn[c].status = "ok", NEW v \in copy_init(Stage(World, c, "COPY"), c), Commit(v)
      PROVE  TightInv'
  <2> DEFINE u == Stage(World, c, "COPY")
  <2>1. /\ Only(World, u, c, None, None) /\ u.item = World.item
        /\ Kept(World.conn[c], u.conn[c]) /\ u.conn[c].refs = World.conn[c].refs
        /\ u.conn[c].st = "COPY"
    BY <1>3, StageIs DEF Stages
  <2>2. v \in copy_init(u, c)
    BY <1>4
  <2> HIDE DEF u
  <2>3. Own(World, c) \/ (World.conn[c].origin = None /\ OutOfMemory)
    BY <1>2, <1>3, <1>4 DEF Shaped
  <2>4. u.conn[c].client = World.conn[c].client /\ u.conn[c].origin = World.conn[c].origin
    BY <2>1 DEF Kept
  <2>5. Leaves(World, v, c) /\ v.conn[c].st = "COPY"
    BY <1>2, <2>1, <2>2, <2>3, <2>4, CopyInitTight
  <2> QED
    BY <1>1, <1>4, <2>5, HandlerTight
<1>5. CASE Finish(selector_set_interest(World, conn[c].client, {}), c, "DONE")
  <2> DEFINE l == World.conn[c].client
             u == selector_set_interest(World, l, {})
  <2>1. Finish(u, c, "DONE") /\ {} \in SUBSET {R, W} /\ "DONE" \in Stages
    BY <1>2, <1>5 DEF Stages
  <2> HIDE DEF l
  <2>2. l \in Fd /\ l = World.conn[c].client
    BY <1>3 DEF l
  <2>3. /\ Only(World, u, c, l, None) /\ u.conn = World.conn
        /\ u.item[l].owner = World.item[l].owner
    BY <1>3, <2>1, <2>2, InterestIs
  <2> HIDE DEF u
  <2>4. /\ Only(World, u, c, World.conn[c].client, None)
        /\ u.conn[c].client = World.conn[c].client /\ u.conn[c].origin = World.conn[c].origin
        /\ u.conn[c].refs = World.conn[c].refs /\ u.item[World.conn[c].client].owner = c
    BY <1>3, <2>2, <2>3
  <2> QED
    BY <1>1, <2>1, <2>4, FinishTight
<1>6. CASE Commit(World)
  BY <1>1, <1>6, IdleTight
<1>7. CASE Finish(World, c, "ERROR")
  BY <1>1, <1>7, FailTight DEF Stages
<1> QED
  BY <1>1, <1>4, <1>5, <1>6, <1>7

\* copy_read and copy_write.
LEMMA CopyEventTight == ASSUME ProxyInv, TightInv, NEW op, copy_event(op) PROVE TightInv'
<1>1. PICK e \in todo, c \in Conn :
        /\ Serving(e, op, c, "COPY")
        /\ LET d == IF (e[1] = conn[c].client) = (op = R) THEN "up" ELSE "down"
           IN \/ conn[c].origin = None /\ \E w \in copy_init(World, c) : Commit(w)
              \/ /\ conn[c].origin # None
                 /\ \E o \in {conn[c].open, conn[c].open \ {d}} :
                      IF o = {}
                      THEN Finish([World EXCEPT !.metrics.concurrent = @ - 1], c, "DONE")
                      ELSE \E a \in [o -> CopyArms] : Commit(Relay(World, c, o, a))
  BY DEF copy_event
<1>2. /\ Safe(World) /\ Tight(World) /\ Alive(World, c) /\ World.conn = conn
      /\ World.conn[c].st = "COPY"
  BY <1>1, ServingFacts, WorldIs DEF TightInv
<1>3. /\ World \in WorldType /\ Shaped(World, c) /\ World.conn[c].client \in Fd
      /\ World.item[World.conn[c].client].owner = c /\ World.conn[c] \in ConnType
      /\ Only(World, World, c, None, None)
  BY <1>2, AliveFacts DEF Only
<1>4. ASSUME NEW v \in copy_init(World, c), Commit(v), conn[c].origin = None
      PROVE  TightInv'
  <2>1. World.conn[c].origin = None /\ OutOfMemory
    BY <1>2, <1>3, <1>4 DEF Shaped, Own
  <2>2. Leaves(World, v, c) /\ v.conn[c].st = "COPY"
    BY <1>2, <1>3, <1>4, <2>1, CopyInitTight
  <2> QED
    BY <1>1, <1>4, <2>2, HandlerTight
<1>5. ASSUME conn[c].origin # None, NEW o \in SUBSET {"up", "down"}, o # {},
             NEW a \in [o -> CopyArms], Commit(Relay(World, c, o, a))
      PROVE  TightInv'
  <2> DEFINE v == Relay(World, c, o, a)
  <2>1. Own(World, c)
    BY <1>2, <1>3, <1>5 DEF Shaped
  <2>2. Arms(o, a)
    BY CopyAssumption DEF R, W, Arms
  <2>3. o \in (SUBSET {"up", "down"}) \ {{}}
    BY <1>5
  <2>4. Leaves(World, v, c) /\ v.conn[c].st = "COPY"
    BY <1>2, <1>3, <2>1, <2>2, <2>3, RelayTight
  <2>5. Commit(v)
    BY <1>5
  <2> HIDE DEF v
  <2> QED
    BY <1>1, <2>4, <2>5, HandlerTight
<1>6. CASE Finish([World EXCEPT !.metrics.concurrent = @ - 1], c, "DONE")
  <2> DEFINE m == [World.metrics EXCEPT !.concurrent = @ - 1]
             u == [World EXCEPT !.metrics = m]
  <2>1. m \in [attempts : Nat, historic : Nat, concurrent : Int, max : Nat]
    BY <1>3 DEF WorldType
  <2>2. Finish(u, c, "DONE")
    BY <1>3, <1>6 DEF WorldType
  <2> HIDE DEF m
  <2>3. /\ u \in WorldType /\ u.conn = World.conn /\ u.item = World.item
        /\ u.sock = World.sock /\ u.stopped = World.stopped
    BY <1>3, <2>1 DEF WorldType
  <2> HIDE DEF u
  <2>4. /\ Only(World, u, c, World.conn[c].client, None)
        /\ u.conn[c].client = World.conn[c].client /\ u.conn[c].origin = World.conn[c].origin
        /\ u.conn[c].refs = World.conn[c].refs /\ u.item[World.conn[c].client].owner = c
    BY <1>3, <2>3 DEF Only
  <2> QED
    BY <1>1, <2>2, <2>4, FinishTight DEF Stages
<1>7. ASSUME conn[c].origin # None, NEW d, NEW o \in {conn[c].open, conn[c].open \ {d}},
             IF o = {}
             THEN Finish([World EXCEPT !.metrics.concurrent = @ - 1], c, "DONE")
             ELSE \E a \in [o -> CopyArms] : Commit(Relay(World, c, o, a))
      PROVE  TightInv'
  <2>1. o \in SUBSET {"up", "down"}
    BY <1>2, <1>3 DEF ConnType
  <2> QED
    BY <1>5, <1>6, <1>7, <2>1
<1> QED
  BY <1>1, <1>4, <1>7

\* socksv5_passive_accept.
LEMMA AcceptTight ==
    ASSUME ProxyInv, TightInv, socksv5_passive_accept
    PROVE  TightInv'
<1>1. <<0, R>> \in todo /\ Serve(<<0, R>>) /\ jobs' = jobs
  BY DEF socksv5_passive_accept
<1>2. Safe(World) /\ Tight(World) /\ World \in WorldType /\ None \notin Conn /\ None \notin Fd
  BY <1>1, WorldIs, ConnAssumption
  DEF Serve, Running, ProxyInv, Live, Safe, Basic, TightInv, None, Fd
<1>3. CASE Commit(World)
  <2>1. World' = World
    BY <1>2, <1>3, CommitIs
  <2> QED
    BY <1>1, <2>1, SameTight
<1>4. CASE FreeFds(World) # {} /\ ~(pool = << >> /\ Fresh = {})
  <2>1. PICK f \in FreeFds(World) : f = Lowest(FreeFds(World))
    BY <1>4, LowestFree
  <2>2. PICK c \in Conn : c = NextStruct /\ Spare(World, c)
    BY <1>4, NextIsSpare
  <2> DEFINE n == socks5_new([World EXCEPT !.sock[f] = "client"], c, f)
             v == selector_register(n, f, c, {R})
  <2>3. f \in Fd /\ World.sock[f] = "free" /\ World.item[f].owner = None
    BY <1>2, FreeUnused
  <2>4. Commit(v)
    BY <1>4, <2>1, <2>2, <2>3 DEF socksv5_passive_accept, ITEM_USED
  <2>5. Owned(World, c) = {} /\ ~Alive(World, c)
    BY <1>2, <2>2, SpareUnused DEF Spare, Safe
  <2>6. /\ n \in WorldType /\ n.item = World.item /\ n.stopped = World.stopped
        /\ \A g \in Fd \ {f} : n.sock[g] = World.sock[g]
        /\ \A d \in Conn \ {c} : n.conn[d] = World.conn[d]
        /\ n.conn[c] = New(f)
    BY <1>2, <2>2, NewIs
  <2> HIDE DEF n
  <2>7. /\ Only(n, v, c, f, None) /\ v.conn = n.conn
        /\ v.item[f].owner = c /\ v.item[f].int = {R}
    BY <2>3, <2>6, RegisterIs
  <2> HIDE DEF v
  <2>8. /\ New(f).live /\ New(f).client = f /\ New(f).origin = None /\ New(f).refs = 1
        /\ New(f).st = "HELLO_READ" /\ ~New(f).resolved
        /\ New(f).replies = 0
    BY DEF New, Blank
  <2>9. v.conn[c] = New(f) /\ Alive(v, c) /\ Uses(v, c, f)
    BY <2>3, <2>6, <2>7, <2>8 DEF Alive, Uses
  <2>10. Shaped(v, c)
    BY <2>7, <2>8, <2>9 DEF Shaped, Own, ClientInt
  <2>11. /\ v \in WorldType /\ \A d \in Conn \ {c} : v.conn[d] = World.conn[d]
         /\ \A g \in Fd \ {f} : v.item[g] = World.item[g] /\ v.sock[g] = World.sock[g]
         /\ v.stopped = "abort" => Faulty
    BY <1>2, <2>6, <2>7 DEF Only, Tight
  <2>12. \A g \in Fd \ {f} : World.item[g].owner # c
    BY <2>5 DEF Owned
  <2> DEFINE F == {f}
  <2>13. F \in SUBSET Fd /\ \A g \in Fd \ F : g \in Fd \ {f}
    BY <2>3
  <2>14. \A g \in F : /\ Uses(World, c, g) \/ World.sock[g] = "free"
                      /\ v.item[g].owner \in {c, None}
                      /\ v.item[g].owner = c => Uses(v, c, g)
    BY <2>3, <2>7, <2>9
  <2> HIDE DEF F
  <2>15. /\ \A g \in Fd \ F : v.item[g] = World.item[g] /\ v.sock[g] = World.sock[g]
         /\ \A g \in Fd \ F : World.item[g].owner # c
    BY <2>11, <2>12, <2>13
  <2>16. Leaves(World, v, c)
    BY <1>2, <2>9, <2>10, <2>11, <2>13, <2>14, <2>15, TightKept
  <2>17. ~Resolving(v, c)
    BY <2>8, <2>9 DEF Resolving
  <2> QED
    BY <1>1, <2>4, <2>16, <2>17, LeftTight
<1> QED
  BY <1>3, <1>4 DEF socksv5_passive_accept

\* The others' notifications are still there.
LEMMA OthersWait ==
    ASSUME NEW w, NEW c \in Conn, NEW q, Queued(w, q), q # << >>, Head(q) = w.conn[c].client,
           Alive(w, c), NEW d \in Conn \ {c}, Resolving(w, d),
           \E i \in 1..Len(q) : q[i] = w.conn[d].client
    PROVE  \E i \in 1..Len(Tail(q)) : Tail(q)[i] = w.conn[d].client
<1>1. PICK i \in 1..Len(q) : q[i] = w.conn[d].client
  OBVIOUS
<1>2. /\ q \in Seq(Fd) /\ Len(q) \in Nat /\ Len(Tail(q)) = Len(q) - 1 /\ Head(q) = q[1]
      /\ \A j \in 1..Len(Tail(q)) : Tail(q)[j] = q[j + 1]
  BY HeadTailProperties, LenProperties, EmptySeq DEF Queued
<1>3. w.conn[d].client # w.conn[c].client
  BY DEF Alive, Resolving
<1>4. i # 1 /\ (i - 1) \in 1..Len(Tail(q)) /\ (i - 1) + 1 = i
  BY <1>1, <1>2, <1>3
<1> QED
  BY <1>1, <1>2, <1>4

\* A notification: the request is answered or its first address tried.
LEMMA NotifyTight ==
    ASSUME OneRetry, ProxyInv, TightInv, handle_block_notifications
    PROVE  TightInv'
<1>1. /\ Safe(World) /\ Conns(World) /\ Queued(World, jobs) /\ World \in WorldType
      /\ Tight(World)
  BY WorldIs
  DEF handle_block_notifications, ProxyInv, Running, Live, Safe, Basic, TightInv
<1>2. CASE jobs = << >>
  <2>1. Commit(World) /\ jobs' = jobs
    BY <1>2 DEF handle_block_notifications
  <2>2. World' = World
    BY <1>1, <2>1, CommitIs
  <2> QED
    BY <2>1, <2>2, SameTight
<1>3. CASE jobs # << >>
  <2> DEFINE f == Head(jobs)
             c == World.item[f].owner
  <2>1. f \in Fd /\ Waiting(World, f)
    BY <1>1, <1>3, QueueLess
  <2>2. /\ c \in Conn /\ f = World.conn[c].client /\ World.conn[c].st = "REQUEST_RESOLV"
        /\ Alive(World, c)
    BY <2>1 DEF Waiting, Alive
  <2>3. ITEM_USED(World, f) /\ conn[c].st = "REQUEST_RESOLV" /\ c = item[f].owner
    BY <2>1, <2>2, ConnAssumption, WorldIs DEF ITEM_USED, None
  <2>4. jobs' = Tail(jobs)
    BY <1>3 DEF handle_block_notifications
  <2>5. PICK r \in ConnectResults : Commit(request_resolv_done(World, c, f, r))
    BY <1>3, <2>3 DEF handle_block_notifications
  <2>6. Head(jobs) = World.conn[c].client
    BY <2>2
  <2> HIDE DEF f, c
  <2> DEFINE v == request_resolv_done(World, c, f, r)
  <2>7. World.conn[c].origin = None /\ World.conn[c].refs = 1 /\ World.conn[c] \in ConnType
    BY <1>1, <2>2 DEF Conns, Sound, Staged, Early, WorldType
  <2>8. Leaves(World, v, c) /\ v.conn[c].st # "REQUEST_RESOLV"
    <3>1. CASE World.conn[c].addrs = 0
      <4> DEFINE u == Status(World, c, "err")
      <4>1. v = Stage(error_handler(u, c), c, "REQUEST_WRITE")
        BY <3>1 DEF request_resolv_done
      <4>2. /\ Only(World, u, c, None, None) /\ u.item = World.item /\ u.sock = World.sock
            /\ KeptButStatus(World.conn[c], u.conn[c]) /\ u.conn[c].status = "err"
        BY <1>1, <2>2, StatusIs
      <4> HIDE DEF u, v
      <4>3. /\ u.conn[c].client = World.conn[c].client /\ u.conn[c].origin = None
            /\ u.conn[c].refs = 1
        BY <2>7, <4>2 DEF KeptButStatus, Kept
      <4> QED
        BY <1>1, <2>2, <2>7, <4>1, <4>2, <4>3, RefusedTight
    <3>2. CASE World.conn[c].addrs # 0
      <4> DEFINE x == World.conn[c]
                 y == [x EXCEPT !.st = "REQUEST_CONNECTING", !.addrs = @ - 1, !.resolved = TRUE]
                 u == [World EXCEPT !.conn[c] = y]
      <4>1. x.addrs \in 1..MaxAddrs /\ MaxAddrs \in Nat /\ MaxAddrs <= 2
        BY <2>7, <3>2, MaxAddrsAssumption DEF ConnType, OneRetry
      <4>2. /\ y \in ConnType /\ y.client = x.client /\ y.origin = None /\ y.refs = 1
            /\ y.st = "REQUEST_CONNECTING" /\ y.addrs = x.addrs - 1
        <5>1. x.addrs - 1 \in 0..MaxAddrs /\ "REQUEST_CONNECTING" \in Stages
          BY <4>1 DEF Stages
        <5> DEFINE n == x.addrs - 1
        <5>2. x \in ConnType /\ n \in 0..MaxAddrs /\ x.origin = None /\ x.refs = 1
          BY <2>7, <5>1
        <5>3. y = [x EXCEPT !.st = "REQUEST_CONNECTING", !.addrs = n, !.resolved = TRUE]
          OBVIOUS
        <5> HIDE DEF x, n, y
        <5>4. /\ [x EXCEPT !.st = "REQUEST_CONNECTING", !.addrs = n, !.resolved = TRUE] \in ConnType
              /\ y.client = x.client /\ y.origin = None /\ y.refs = 1
              /\ y.st = "REQUEST_CONNECTING" /\ y.addrs = n
          BY <5>1, <5>2, <5>3 DEF ConnType
        <5> QED
          BY <5>3, <5>4 DEF n
      <4>3. v = connecting_init(u, c, f, r)
        <5>1. u = [Stage(World, c, "REQUEST_CONNECTING")
                     EXCEPT !.conn[c].addrs = @ - 1, !.conn[c].resolved = TRUE]
          <6>1. World \in WorldType /\ c \in Conn
            BY <1>1, <2>2
          <6> QED
            BY ONLY <6>1 DEF Stage, WorldType
        <5> QED
          BY <3>2, <5>1 DEF request_resolv_done
      <4> HIDE DEF y, v
      <4>4. /\ Only(World, u, c, None, None)
            /\ u.conn[c] = y /\ u.item = World.item /\ u.sock = World.sock
        BY ONLY <1>1, <2>2, <4>2, SetIs
      <4> HIDE DEF u
      <4>5. HasNext(u, c) => u.conn[c].addrs = 1
        BY <4>1, <4>2, <4>4 DEF HasNext
      <4>6. /\ u.conn[c].client = World.conn[c].client /\ u.conn[c].origin = None
            /\ u.conn[c].refs = 1 /\ u.conn[c].st = "REQUEST_CONNECTING"
        BY <4>2, <4>4
      <4> QED
        BY <1>1, <2>2, <2>7, <4>3, <4>4, <4>5, <4>6, InitTight
    <3> QED
      BY <3>1, <3>2
  <2>9. Commit(v)
    BY <2>5
  <2> HIDE DEF v
  <2>10. \A d \in Conn \ {c} : Resolving(World, d) =>
            ((\E i \in 1..Len(jobs) : jobs[i] = World.conn[d].client)
               => (\E i \in 1..Len(jobs') : jobs'[i] = World.conn[d].client))
    BY <1>1, <1>3, <2>2, <2>4, <2>6, OthersWait
  <2>11. ~Resolving(v, c)
    BY <2>8 DEF Resolving
  <2> QED
    BY <2>2, <2>8, <2>9, <2>10, <2>11, LeftTight
<1> QED
  BY <1>2, <1>3

\* The result of a resolution: its notification is queued, unless memory ran out.
LEMMA ResolvTight ==
    ASSUME ProxyInv, TightInv, NEW c \in Conn, request_resolv_blocking(c)
    PROVE  TightInv'
<1>1. PICK n \in 0..MaxAddrs : conn' = [conn EXCEPT ![c].thread = FALSE, ![c].addrs = n]
  BY DEF request_resolv_blocking
<1>2. /\ Running /\ conn[c].thread
      /\ jobs' = <<conn[c].client>> \o jobs \/ (OutOfMemory /\ jobs' = jobs)
      /\ UNCHANGED <<item, sock, pool, pool_size, metrics, stopped, phase, todo, accepts>>
  BY DEF request_resolv_blocking
<1> DEFINE x == World.conn[c]
           r == [x EXCEPT !.thread = FALSE, !.addrs = n]
           v == [World EXCEPT !.conn[c] = r]
           l == x.client
<1>3. /\ Safe(World) /\ Conns(World) /\ Queued(World, jobs) /\ Tight(World)
      /\ World \in WorldType /\ x \in ConnType
  BY <1>2, WorldIs DEF ProxyInv, Running, Live, Safe, Basic, WorldType, TightInv
<1>4. /\ Alive(World, c) /\ x.st = "REQUEST_RESOLV" /\ x.origin = None /\ x.refs = 1
      /\ l \in Fd /\ l = conn[c].client
  BY <1>2, <1>3, WorldIs DEF Conns, Resolving, Sound, Staged, Early, Alive
<1>5. /\ r \in ConnType /\ r.client = l /\ r.origin = None /\ r.refs = 1
      /\ r.st = "REQUEST_RESOLV" /\ r.resolved = x.resolved
  BY <1>3, <1>4 DEF ConnType
<1>6. Commit(v)
  <2>1. [conn EXCEPT ![c].thread = FALSE, ![c].addrs = n] = [conn EXCEPT ![c] = r]
    BY <1>3, WorldIs DEF WorldType
  <2> QED
    BY <1>1, <1>2, <2>1 DEF Commit, World
<1> HIDE DEF r
<1>7. /\ Only(World, v, c, None, None)
      /\ v.conn[c] = r /\ v.item = World.item /\ v.sock = World.sock
  BY ONLY <1>3, <1>5, SetIs
<1> HIDE DEF v
<1>8. /\ Shaped(World, c) /\ World.item[l].owner = c /\ None \notin Conn /\ None \notin Fd
  BY <1>3, <1>4, AliveFacts
<1>9. Shaped(v, c)
  BY <1>4, <1>5, <1>7, <1>8 DEF Shaped, Early, Login, Own, ClientInt
<1>10. Only(World, v, c, l, None) /\ v.item[l].owner = c /\ v.conn[c].client = l
  BY <1>5, <1>7, <1>8 DEF Only
<1> HIDE DEF l
<1>11. l = World.conn[c].client /\ World.conn[c].origin \in {None, None}
       /\ None = World.conn[c].origin
  BY <1>4 DEF l
<1>12. Leaves(World, v, c)
  BY <1>3, <1>4, <1>9, <1>10, <1>11, StepTight
<1>13. CASE jobs' = <<conn[c].client>> \o jobs
  <2>1. jobs \in Seq(Fd) /\ jobs' = <<l>> \o jobs
    BY <1>3, <1>4, <1>13 DEF Queued
  <2>2. /\ Len(jobs') = Len(jobs) + 1 /\ Len(jobs) \in Nat /\ jobs'[1] = l
        /\ \A i \in 1..Len(jobs) : jobs'[i + 1] = jobs[i]
    BY <1>4, <2>1, Pushed, LenProperties
  <2>3. \E i \in 1..Len(jobs') : jobs'[i] = v.conn[c].client
    BY <1>10, <2>2
  <2>4. \A i \in 1..Len(jobs) : (i + 1) \in 1..Len(jobs')
    BY <2>2
  <2>5. \A d \in Conn \ {c} : Resolving(World, d) =>
           ((\E i \in 1..Len(jobs) : jobs[i] = World.conn[d].client)
              => (\E i \in 1..Len(jobs') : jobs'[i] = World.conn[d].client))
    BY <2>2, <2>4
  <2> QED
    BY <1>6, <1>12, <2>3, <2>5, LeftTight
<1>14. CASE OutOfMemory /\ jobs' = jobs
  BY <1>6, <1>12, <1>14, LeftTight
<1> QED
  BY <1>2, <1>13, <1>14

\* The network answers an attempt.
LEMMA AttemptEndsTight ==
    ASSUME ProxyInv, TightInv, NEW f \in Fd, attempt_ends(f)
    PROVE  TightInv'
<1>1. PICK s \in {"connected", "error"} : sock' = [sock EXCEPT ![f] = s]
  BY DEF attempt_ends
<1>2. /\ Running /\ sock[f] = "connecting"
      /\ UNCHANGED <<conn, item, pool, pool_size, metrics, stopped, phase, todo, jobs, accepts>>
  BY DEF attempt_ends
<1> DEFINE v == [World EXCEPT !.sock[f] = s]
<1>3. World' = v
  BY <1>1, <1>2 DEF World
<1>4. World \in WorldType /\ Tight(World) /\ World.sock[f] = "connecting"
  BY <1>2, WorldIs DEF ProxyInv, Basic, TightInv
<1>5. /\ v.conn = World.conn /\ v.item = World.item /\ v.stopped = World.stopped
      /\ v.sock = [World.sock EXCEPT ![f] = s]
  BY <1>4 DEF WorldType
<1> HIDE DEF v
<1>6. World.sock \in [Fd -> SockType]
  BY <1>4 DEF WorldType
<1>7. \A g \in Fd : World.sock[g] = "new" => v.sock[g] = "new"
  BY <1>4, <1>5, <1>6
<1>8. v.stopped = "abort" => Faulty
  BY <1>4, <1>5 DEF Tight
<1>9. Tight(v) /\ \A d \in Conn : Resolving(v, d) <=> Resolving(World, d)
  BY <1>4, <1>5, <1>7, <1>8, SocksTight
<1>10. Awaited(v, jobs')
  BY <1>2, <1>5, <1>9 DEF TightInv, Awaited
<1> QED
  BY <1>3, <1>9, <1>10, TightPrime

\* selector_select, and an event nobody serves any more.
LEMMA SelectTight ==
    ASSUME ProxyInv, TightInv, selector_select \/ skip_event
    PROVE  TightInv'
<1>1. CASE selector_select
  <2>1. ~BadFd
    BY <1>1, WorldIs DEF ProxyInv, Basic, BadFd
  <2>2. UNCHANGED <<conn, item, sock, pool, pool_size, metrics, stopped, jobs>>
    BY <1>1, <2>1 DEF selector_select
  <2> QED
    BY <2>2, SameTight DEF World
<1>2. CASE skip_event
  BY <1>2, SameTight DEF skip_event, World
<1> QED
  BY <1>1, <1>2

\* Every event finds a handler in its stage, as long as memory lasts.
LEMMA NoAbort == ASSUME ProxyInv, TightInv, stm_abort, ~OutOfMemory PROVE FALSE
<1>1. PICK e \in todo, c \in Conn :
        /\ Serving(e, e[2], c, conn[c].st)
        /\ conn[c].st \notin (IF e[2] = R THEN ReadStages ELSE WriteStages)
  BY DEF stm_abort
<1> DEFINE x == World.conn[c]
           l == x.client
           o == x.origin
           i == World.item[e[1]].int
<1>2. /\ Safe(World) /\ Tight(World) /\ Alive(World, c) /\ Sound(World, c) /\ LoopTypes
      /\ x = conn[c] /\ x \in ConnType
      /\ e[1] \in Fd /\ Uses(World, c, e[1]) /\ World.item[e[1]].owner = c
  BY <1>1, ServingFacts, WorldIs DEF TightInv, ProxyInv
<1>3. e[2] \in i /\ i \in SUBSET {R, W}
  BY <1>1, <1>2, WorldIs DEF Serving, Safe, Basic, WorldType, ItemType
<1>4. /\ x.st \notin (IF e[2] = R THEN ReadStages ELSE WriteStages)
      /\ x.st \in Stages \ {"DONE", "ERROR"}
      /\ x.st \in Early => o = None
  BY <1>1, <1>2 DEF Sound, Staged, ConnType
<1>5. Shaped(World, c) /\ None \notin Fd /\ None \notin Conn
  BY <1>2, AliveFacts
<1>6. \/ e[1] = l /\ i = ClientInt(World, c)
      \/ Own(World, c) /\ i = OriginInt(World, c) /\ o # None
  BY <1>2, <1>5 DEF Uses, ClientInt, OriginInt, Own
<1> HIDE DEF l, o, i
<1>7. R # W
  BY DEF R, W
<1>8. CASE x.st \in Early
  <2>1. i = ClientInt(World, c)
    BY <1>4, <1>6, <1>8
  <2> QED
    BY <1>3, <1>4, <1>5, <1>7, <1>8, <2>1 DEF Shaped, Early, ReadStages, WriteStages
<1>9. CASE x.st = "REQUEST_CONNECTING"
  <2>1. ClientInt(World, c) \in {{}, {W}} /\ (Own(World, c) => OriginInt(World, c) \in {{}, {W}})
    BY <1>5, <1>9 DEF Shaped, Attempting
  <2> QED
    BY <1>3, <1>4, <1>6, <1>7, <1>9, <2>1 DEF WriteStages
<1>10. CASE x.st = "REQUEST_WRITE"
  <2>1. ClientInt(World, c) = {W} /\ (Own(World, c) => OriginInt(World, c) = {})
    BY <1>5, <1>10 DEF Shaped
  <2> QED
    BY <1>3, <1>4, <1>6, <1>7, <1>10, <2>1 DEF WriteStages
<1>11. CASE x.st = "COPY"
  BY <1>3, <1>4, <1>11 DEF ReadStages, WriteStages
<1> QED
  BY <1>4, <1>8, <1>9, <1>10, <1>11 DEF Stages, Early

\* An event without a handler: only after memory ran out.
LEMMA StmAbortTight == ASSUME ProxyInv, TightInv, stm_abort PROVE TightInv'
<1>1. PICK e \in todo, c \in Conn :
        Serving(e, e[2], c, conn[c].st) /\ Commit([World EXCEPT !.stopped = "abort"])
  BY DEF stm_abort
<1>2. World \in WorldType /\ jobs' = jobs
  BY <1>1, ServingFacts DEF Safe, Basic
<1>3. OutOfMemory
  BY NoAbort
<1> QED
  BY <1>1, <1>2, <1>3, AbortTight DEF Faulty

\* An allocation whose result is not checked.
LEMMA MallocTight == ASSUME ProxyInv, TightInv, unchecked_malloc PROVE TightInv'
<1>1. Faulty /\ Commit([World EXCEPT !.stopped = "abort"]) /\ jobs' = jobs
  BY DEF unchecked_malloc, Serving, Faulty
<1>2. World \in WorldType
  BY DEF ProxyInv, Basic
<1> QED
  BY <1>1, <1>2, AbortTight

\* The references are the entries: the last of them releases the struct.
Exact(u) ==
    \A c \in Conn : u.conn[c].live =>
        u.conn[c].refs = Cardinality(Owned(u, c)) /\ Owned(u, c) # {}

\* They are as long as every entry is used and everyone has its shape.
LEMMA TightExact == ASSUME NEW w, Safe(w), Tight(w) PROVE Exact(w)
<1> SUFFICES ASSUME NEW c \in Conn, w.conn[c].live
             PROVE  w.conn[c].refs = Cardinality(Owned(w, c)) /\ Owned(w, c) # {}
  BY DEF Exact
<1> DEFINE l == w.conn[c].client
           o == w.conn[c].origin
<1>1. Alive(w, c)
  BY DEF Tight
<1>2. /\ l \in Fd /\ w.item[l].owner = c /\ o \in Fd \cup {None} /\ l # o
      /\ w.conn[c].refs = IF Own(w, c) THEN 2 ELSE 1
      /\ None \notin Conn
  BY <1>1, AliveFacts DEF Shaped
<1>3. \A f \in Owned(w, c) : f = l \/ f = o
  BY <1>2 DEF Tight, Owned, Uses
<1>4. l \in Owned(w, c)
  BY <1>2 DEF Owned
<1>5. Own(w, c) <=> o \in Owned(w, c)
  BY <1>2 DEF Own, Owned, None, Fd
<1> HIDE DEF l, o
<1>6. CASE Own(w, c)
  <2>1. Owned(w, c) = {l} \cup {o} /\ o \notin {l}
    BY <1>2, <1>3, <1>4, <1>5, <1>6
  <2>2. IsFiniteSet({l}) /\ Cardinality({l}) = 1
    BY FS_Singleton
  <2>3. Cardinality({l} \cup {o}) = 1 + 1
    <3>1. o \notin {l} /\ IsFiniteSet({l})
      BY <2>1, <2>2
    <3>2. Cardinality({l} \cup {o}) = Cardinality({l}) + 1
      BY ONLY <3>1, FS_AddElement
    <3> QED
      BY <2>2, <3>2
  <2> QED
    BY <1>2, <1>6, <2>1, <2>3
<1>7. CASE ~Own(w, c)
  <2>1. Owned(w, c) = {l}
    BY <1>3, <1>4, <1>5, <1>7
  <2> QED
    BY <1>2, <1>7, <2>1, FS_Singleton
<1> QED
  BY <1>6, <1>7

\* Unregistering an item keeps them so.
LEMMA ExactStep ==
    ASSUME NEW u \in WorldType, Exact(u), NEW f \in Fd,
           \A g \in Fd : u.item[g].owner # None => u.conn[u.item[g].owner].live,
           NEW v, v = selector_unregister_fd(u, f)
    PROVE  Exact(v)
<1>1. None \notin Conn
  BY ConnAssumption DEF None
<1>2. CASE u.item[f].owner = None
  <2>1. v = u
    BY <1>2 DEF selector_unregister_fd, ITEM_USED
  <2> QED
    BY <2>1
<1>3. CASE u.item[f].owner # None
  <2> DEFINE d == u.item[f].owner
             D == Owned(u, d)
  <2>1. d \in Conn /\ u.conn[d].live
    BY <1>3 DEF WorldType, ItemType
  <2>2. u.conn[d].refs = Cardinality(D) /\ f \in D /\ IsFiniteSet(D) /\ Cardinality(D) \in Nat
    <3>1. f \in D
      BY DEF Owned
    <3>2. u.conn[d].refs = Cardinality(D)
      BY <2>1 DEF Exact
    <3>3. IsFiniteSet(D) /\ Cardinality(D) \in Nat
      BY OwnedFinite
    <3> QED
      BY <3>1, <3>2, <3>3
  <2>3. Cardinality(D \ {f}) = Cardinality(D) - 1 /\ IsFiniteSet(D \ {f})
    BY <2>2, FS_RemoveElement
  <2>4. Cardinality(D \ {f}) \in Nat
    BY <2>3, FS_CardinalityType
  <2>5. u.conn[d].refs # 0
    BY <2>2, <2>3, <2>4
  <2>6. u.item[f].owner = d
    OBVIOUS
  <2> HIDE DEF d
  <2>7. /\ v.item[f] = Unused /\ Only(u, v, d, f, None)
        /\ \/ u.conn[d].refs = 1 /\ v.conn[d] = Blank
           \/ /\ u.conn[d].refs # 1 /\ v.conn[d].refs = u.conn[d].refs - 1
              /\ SameButRefs(v.conn[d], u.conn[d])
    BY <2>1, <2>5, <2>6, UnregisterIs
  <2>8. Owned(v, d) = D \ {f} /\ \A e \in Conn \ {d} : Owned(v, e) = Owned(u, e)
    <3>1. /\ v.item[f].owner = None /\ d # None
          /\ \A g \in Fd \ {f} : v.item[g] = u.item[g]
      BY <1>1, <2>1, <2>7 DEF Only, Unused, Fd, None
    <3>2. Owned(v, d) = D \ {f}
      BY <3>1 DEF Owned
    <3>3. ASSUME NEW e \in Conn \ {d} PROVE Owned(v, e) = Owned(u, e)
      <4>1. e # None
        BY <1>1
      <4> QED
        BY <2>6, <3>1, <4>1 DEF Owned
    <3> QED
      BY <3>2, <3>3
  <2> HIDE DEF D
  <2>9. ASSUME NEW c \in Conn, v.conn[c].live
        PROVE  v.conn[c].refs = Cardinality(Owned(v, c)) /\ Owned(v, c) # {}
    <3>1. CASE c # d
      <4>1. v.conn[c] = u.conn[c] /\ Owned(v, c) = Owned(u, c)
        BY <2>7, <2>8, <3>1 DEF Only
      <4> QED
        BY <2>9, <4>1 DEF Exact
    <3>2. CASE c = d
      <4>1. ~Blank.live
        BY DEF Blank
      <4>2. u.conn[d].refs # 1 /\ v.conn[d].refs = u.conn[d].refs - 1
        BY <2>7, <2>9, <3>2, <4>1
      <4>3. Cardinality({}) = 0
        BY FS_EmptySet
      <4>4. Cardinality(D \ {f}) # 0
        BY <2>2, <2>3, <4>2
      <4> QED
        BY <2>2, <2>3, <2>8, <3>2, <4>2, <4>3, <4>4
    <3> QED
      BY <3>1, <3>2
  <2> QED
    BY <2>9 DEF Exact
<1> QED
  BY <1>2, <1>3

\* So once all items are unregistered no struct is left in use.
LEMMA AllExact ==
    ASSUME ProxyInv, Running, Tight(World)
    PROVE  Prefix(Unregistered[MaxFd], MaxFd) /\ Exact(Unregistered[MaxFd])
<1> DEFINE U == Unregistered
           S == {k \in 0..MaxFd : ~(Prefix(U[k], k) /\ Exact(U[k]))}
<1>1. S = {}
  <2> SUFFICES ASSUME S # {} PROVE FALSE
    OBVIOUS
  <2>1. S \subseteq Nat
    BY MaxFdAssumption
  <2>2. PICK m \in S : \A k \in S : m <= k
    BY <2>1, LeastNat
  <2>3. CASE m = 0
    <3>1. /\ Safe(World) /\ Basic(World) /\ Conns(World) /\ \A f \in Fd : ~(f <= 0)
      BY WorldIs DEF ProxyInv, Running, Live, Safe, Fd
    <3>2. \A c \in Conn : World.conn[c].thread => 0 < World.conn[c].client
      BY <3>1 DEF Conns, Resolving, Alive, Fd
    <3>3. Prefix(World, 0) /\ Exact(World)
      BY <3>1, <3>2, TightExact DEF Prefix
    <3> QED
      BY <2>2, <2>3, <3>3, UnregisteredIs
  <2>4. CASE m # 0
    <3>1. /\ m - 1 \in 0..MaxFd /\ m - 1 \notin S /\ m \in 1..MaxFd /\ (m - 1) + 1 = m
          /\ m - 1 \in Nat
      BY <2>1, <2>2, <2>4, MaxFdAssumption
    <3>2. Prefix(U[m - 1], m - 1) /\ Exact(U[m - 1]) /\ m \in Fd
      BY <3>1 DEF Fd
    <3>3. U[m] = selector_unregister_fd(U[m - 1], m)
      BY <3>1, UnregisteredIs
    <3>4. Prefix(selector_unregister_fd(U[m - 1], m), m)
      BY <3>1, <3>2, PrefixStep
    <3>5. /\ U[m - 1] \in WorldType
          /\ \A g \in Fd : U[m - 1].item[g].owner # None
                             => U[m - 1].conn[U[m - 1].item[g].owner].live
      BY <3>2 DEF Prefix, Basic
    <3> HIDE DEF U
    <3>6. Exact(U[m])
      BY <3>2, <3>3, <3>5, ExactStep
    <3> QED
      BY <2>2, <3>3, <3>4, <3>6
  <2> QED
    BY <2>3, <2>4
<1> QED
  BY <1>1, MaxFdAssumption

\* main, after the loop.
LEMMA ShutdownTight == ASSUME ProxyInv, TightInv, shutdown PROVE TightInv'
<1> DEFINE u == Unregistered[MaxFd]
           v == [u EXCEPT !.stopped = "exit", !.pool = << >>]
<1>1. Running /\ Commit(v)
  BY DEF shutdown, ProxyInv, Running
<1>2. Prefix(u, MaxFd) /\ Exact(u)
  BY <1>1, AllExact DEF TightInv
<1> HIDE DEF u
<1>3. u \in WorldType /\ \A f \in Fd : u.item[f] = Unused
  <2>1. \A f \in Fd : f <= MaxFd
    BY MaxFdAssumption DEF Fd
  <2> QED
    BY <1>2, <2>1 DEF Prefix, Basic
<1>4. /\ v.conn = u.conn /\ v.item = u.item /\ v.stopped = "exit"
  BY <1>3 DEF WorldType
<1>5. v \in WorldType
  <2> DEFINE q == << >>
  <2>1. q \in Seq(Conn) /\ v = [u EXCEPT !.stopped = "exit", !.pool = q]
    OBVIOUS
  <2> HIDE DEF q, v
  <2>2. [u EXCEPT !.stopped = "exit", !.pool = q] \in WorldType
    BY <1>3, <2>1 DEF WorldType
  <2> QED
    BY <2>1, <2>2
<1> HIDE DEF v
<1>6. None \notin Conn /\ Unused.owner = None
  BY ConnAssumption DEF None, Unused
<1>7. \A f \in Fd : v.item[f].owner = None
  BY <1>3, <1>4, <1>6
<1>8. \A c \in Conn : ~Alive(v, c) /\ Owned(u, c) = {}
  BY <1>3, <1>4, <1>6, <1>7 DEF Alive, Owned
<1>9. \A c \in Conn : ~v.conn[c].live
  BY <1>2, <1>4, <1>8 DEF Exact
<1>10. Tight(v)
  BY <1>4, <1>7, <1>8, <1>9 DEF Tight
<1>11. Awaited(v, jobs')
  BY <1>8 DEF Awaited, Resolving
<1>12. World' = v
  BY <1>1, <1>5, CommitIs
<1> QED
  BY <1>10, <1>11, <1>12, TightPrime

\* Nobody is connected.
LEMMA InitTightInv == ASSUME Init PROVE TightInv
<1>1. /\ \A c \in Conn : World.conn[c] = Blank
      /\ \A f \in Fd : World.item[f] = Unused
      /\ World.stopped = "no"
  BY DEF Init, World
<1>2. Blank.client = None /\ ~Blank.live /\ Unused.owner = None /\ None \notin Fd
  BY DEF Blank, Unused, None, Fd
<1>3. \A c \in Conn : ~Alive(World, c) /\ ~World.conn[c].live
  BY <1>1, <1>2 DEF Alive
<1>4. Tight(World)
  BY <1>1, <1>2, <1>3 DEF Tight
<1> QED
  BY <1>3, <1>4 DEF TightInv, Awaited, Resolving

\* Every step keeps it.
LEMMA NextTight == ASSUME OneRetry, ProxyInv, TightInv, [Next]_vars PROVE TightInv'
<1>1. CASE Loop
  BY <1>1, SelectTight, StmAbortTight, AcceptTight, HelloReadTight, HelloWriteTight, AuthReadTight,
     AuthWriteTight, RequestReadTight, NotifyTight, ConnectTight, RequestWriteTight,
     CopyEventTight DEF Loop
<1>2. ASSUME NEW c \in Conn, request_resolv_blocking(c) PROVE TightInv'
  BY <1>2, ResolvTight
<1>3. ASSUME NEW f \in Fd, attempt_ends(f) PROVE TightInv'
  BY <1>3, AttemptEndsTight
<1>4. CASE shutdown
  BY <1>4, ShutdownTight
<1>5. CASE Terminated \/ UNCHANGED vars
  BY <1>5, SameTight DEF Terminated, vars, World
<1>6. CASE unchecked_malloc
  BY <1>6, MallocTight
<1> QED
  BY <1>1, <1>2, <1>3, <1>4, <1>5, <1>6 DEF Next

\* Every reachable state satisfies it.
LEMMA TightReachable == ASSUME OneRetry PROVE Spec => [](ProxyInv /\ TightInv)
<1>1. Init => ProxyInv /\ TightInv
  BY InitInv, InitTightInv
<1>2. ProxyInv /\ TightInv /\ [Next]_vars => ProxyInv' /\ TightInv'
  BY NextInv, NextTight
<1> QED
  BY <1>1, <1>2, PTL DEF Spec

\* A struct in use has as many references as entries, for names of at most two
\* addresses and connects that do not succeed at once: no path takes one too
\* many, which would leak the struct, or one too few (refer, socks5_destroy,
\* connection, selector_unregister_fd).
THEOREM ReferencesAreEntries == ASSUME OneRetry PROVE Spec => []RefsExact
<1>1. ASSUME ProxyInv, TightInv PROVE RefsExact
  <2> SUFFICES ASSUME NEW c \in Conn, conn[c].live
               PROVE  conn[c].refs = Cardinality(OwnedBy(c))
    BY DEF RefsExact
  <2>1. Alive(World, c)
    BY <1>1, WorldIs DEF TightInv, Tight
  <2>2. Safe(World)
    BY <1>1, <2>1, Views DEF ProxyInv, Live, Safe
  <2>3. Exact(World)
    BY <1>1, <2>2, TightExact DEF TightInv
  <2> QED
    BY <1>1, <2>3, Views, WorldIs DEF Exact
<1> QED
  BY <1>1, TightReachable, PTL

\* Within the same limits no descriptor is closed while it is registered, so
\* no number that accept or socket hands out again is registered already
\* (socksv5_done, connecting_write, selector_register).
THEOREM EntriesAreOpen == ASSUME OneRetry PROVE Spec => []RegisteredIsOpen
<1>1. ASSUME ProxyInv, TightInv PROVE RegisteredIsOpen
  <2> SUFFICES ASSUME NEW f \in Fd, item[f].owner # None PROVE sock[f] # "free"
    BY DEF RegisteredIsOpen
  <2>1. Basic(World) /\ Tight(World)
    BY <1>1 DEF ProxyInv, TightInv
  <2>2. item[f].owner \in Conn /\ Uses(World, item[f].owner, f)
    BY <2>1, WorldIs DEF Basic, WorldType, ItemType, Tight
  <2>3. Alive(World, item[f].owner)
    BY <2>2 DEF Uses
  <2>4. Links(World)
    BY <1>1, <2>2, <2>3, Views DEF Live
  <2> QED
    BY <2>2, <2>4, WorldIs DEF Links
<1> QED
  BY <1>1, TightReachable, PTL

\* Within the same limits main, after the loop, finds every struct through the
\* items it unregisters and none stays in use (main.c, selector_destroy,
\* socksv5_pool_destroy).
THEOREM ExitIsClean == ASSUME OneRetry PROVE Spec => []ExitReleasesAll
<1>1. ASSUME ProxyInv, TightInv PROVE ExitReleasesAll
  <2> SUFFICES ASSUME stopped = "exit"
               PROVE  pool = << >> /\ \A c \in Conn : ~conn[c].live /\ OwnedBy(c) = {}
    BY DEF ExitReleasesAll
  <2>1. pool = << >> /\ (\A f \in Fd : item[f].owner = None) /\ None \notin Conn
    BY <1>1, Views, WorldIs DEF ProxyInv, Gone
  <2>2. \A c \in Conn : ~conn[c].live
    BY <1>1, Views, WorldIs DEF TightInv, Tight
  <2> QED
    BY <2>1, <2>2 DEF OwnedBy
<1> QED
  BY <1>1, TightReachable, PTL

\* Within the same limits, if no client opens its login with a bad version and
\* as long as memory lasts, no event finds a stage without a handler and no
\* teardown an item that was not registered: no abort() is reached (stm.c,
\* copy.c, socksv5_done).  Without memory request_init can bring one about.
THEOREM NeverReachesAbort ==
    ASSUME OneRetry, ~BadVersion, ~OutOfMemory
    PROVE  Spec => []NeverAborts
<1>1. ProxyInv /\ TightInv => NeverAborts
  BY WorldIs DEF TightInv, Tight, NeverAborts, Faulty
<1> QED
  BY <1>1, TightReachable, PTL

\* Within the same limits, and as long as memory lasts, a registered connection
\* has a descriptor armed, a thread that resolves its name or a notification on
\* its way: the server never forgets a client (connecting_write,
\* compute_interests, request_resolv_blocking).
THEOREM NobodyIsForgotten == ASSUME OneRetry, ~OutOfMemory PROVE Spec => []NotForgotten
<1>1. ASSUME ProxyInv, TightInv PROVE NotForgotten
  <2> SUFFICES ASSUME NEW c \in Conn, Registered(conn[c].client, c)
               PROVE  \/ Armed(conn[c].client)
                      \/ Registered(conn[c].origin, c) /\ Armed(conn[c].origin)
                      \/ conn[c].thread
                      \/ \E i \in 1..Len(jobs) : jobs[i] = conn[c].client
    BY DEF NotForgotten
  <2>1. Alive(World, c)
    BY <1>1, Views
  <2>2. /\ Safe(World) /\ Tight(World) /\ Sound(World, c) /\ Awaited(World, jobs)
    BY <1>1, <2>1, Views DEF ProxyInv, Live, Safe, Conns, TightInv
  <2>3. /\ Shaped(World, c) /\ conn[c].client \in Fd /\ conn[c].origin \in Fd \cup {None}
        /\ conn[c] \in ConnType
    BY <2>1, <2>2, AliveFacts, WorldIs
  <2>4. ClientInt(World, c) # {} => Armed(conn[c].client)
    BY <2>3, WorldIs DEF ClientInt, Armed
  <2>5. Own(World, c) /\ OriginInt(World, c) # {} =>
          Registered(conn[c].origin, c) /\ Armed(conn[c].origin)
    BY <2>3, WorldIs DEF Own, OriginInt, Armed, Registered
  <2>6. conn[c].st \in Stages \ {"DONE", "ERROR"}
    BY <2>2, <2>3, WorldIs DEF Sound, Staged, ConnType
  <2>7. CASE conn[c].st = "REQUEST_RESOLV"
    BY <2>1, <2>2, <2>7, WorldIs DEF Awaited, Resolving
  <2>8. CASE conn[c].st = "REQUEST_CONNECTING"
    BY <2>3, <2>4, <2>5, <2>8, WorldIs DEF Shaped, Attempting
  <2>9. CASE conn[c].st = "COPY"
    BY <2>3, <2>4, <2>5, <2>9, WorldIs DEF Shaped
  <2>10. CASE conn[c].st \in Stages \ {"REQUEST_RESOLV", "REQUEST_CONNECTING", "COPY"}
    <3>1. ClientInt(World, c) \in {{R}, {W}}
      BY <2>3, <2>6, <2>10, WorldIs DEF Shaped, Stages
    <3> QED
      BY <2>4, <3>1
  <2> QED
    BY <2>6, <2>7, <2>8, <2>9, <2>10
<1> QED
  BY <1>1, TightReachable, PTL

=============================================================================
