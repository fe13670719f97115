-------------------------- MODULE ManagementProofs --------------------------
(***************************************************************************)
(* The users table and the two logins for every table size, every set of   *)
(* accounts and any number of connections.  TableSound is inductive with   *)
(* the types of the table; LogNamesUser rests on it, since a deletion must *)
(* not free the block of another entry; CommandsNeedLogin needs to know    *)
(* what the reply of each stage was computed from.                         *)
(***************************************************************************)
EXTENDS Management, DataLemmas, SequenceTheorems, TLAPS

\* The fields of the two kinds of record.
Fields == {"st", "cl", "who", "cmd", "in", "reply", "out", "extra", "did", "told"}
SockFields == {"st", "method", "index", "who", "shifted"}

TableTypes ==
    /\ users \in [Slots -> Block \cup {NULL}]
    /\ nusers \in 0..MAX_USERS
    /\ heap \in [Block -> Account \cup {Free}]

SessionTypes ==
    /\ DOMAIN mng = Mng
    /\ \A c \in Mng : DOMAIN mng[c] = Fields
    /\ \A c \in Mng : mng[c].cmd.op = "add" => mng[c].cmd.user \in Account

SockTypes ==
    /\ DOMAIN socks = Socks
    /\ \A s \in Socks : DOMAIN socks[s] = SockFields
    /\ \A s \in Socks : socks[s].index \in Slots /\ socks[s].shifted \in BOOLEAN

\* The granted reply and the answer to the greeting say what the client is.
RepliesKnown ==
    \A c \in Mng :
        /\ mng[c].st = "MNG_USERPASS_WRITE" /\ mng[c].reply = "granted" => mng[c].who = "right"
        /\ mng[c].st = "MNG_HELLO_WRITE" => mng[c].reply # "no_auth"

LoginInv == SessionTypes /\ RepliesKnown /\ CommandsNeedLogin

\* A command that adds a user holds an account.
LEMMA AddsAccount ==
    \A cmd \in Command : cmd.op = "add" => cmd.user \in Account
BY DEF Command, Queries

-----------------------------------------------------------------------------
(* The login of administrators *)

\* Initially there is no session.
LEMMA LoginInit == Init => LoginInv
BY DEF Init, LoginInv, SessionTypes, RepliesKnown, CommandsNeedLogin, Ended, NoCommand,
       Fields, CommandStages

\* Every step keeps it: a session reaches the command stages only from a
\* granted login, whatever the settings are.
LEMMA LoginNext ==
    ASSUME LoginInv, [Next]_vars
    PROVE  LoginInv'
<1> USE DEF LoginInv
<1>1. CASE UNCHANGED vars
  BY <1>1 DEF vars, SessionTypes, RepliesKnown, CommandsNeedLogin
<1>2. ASSUME NEW c \in Mng, client_start(c) PROVE LoginInv'
  BY <1>2 DEF client_start, With, Ended, NoCommand,
               SessionTypes, RepliesKnown, CommandsNeedLogin, Fields, CommandStages
<1>3. ASSUME NEW c \in Mng, handshake_response(c) PROVE LoginInv'
  BY <1>3 DEF handshake_response, Quits, Only, Session, With,
               SessionTypes, RepliesKnown, CommandsNeedLogin, Fields, CommandStages
<1>4. ASSUME NEW c \in Mng, credentials_response(c) PROVE LoginInv'
  <2>1. ASSUME NEW cmd \in Command,
               Session(c, [cl |-> "answer", in |-> "request", out |-> "none", cmd |-> cmd])
        PROVE  LoginInv'
    <3>1. /\ DOMAIN mng' = Mng /\ \A d \in Mng : DOMAIN mng'[d] = Fields
          /\ mng'[c].cmd = cmd /\ \A d \in Mng : d # c => mng'[d] = mng[d]
          /\ mng'[c].st = mng[c].st /\ mng'[c].reply = mng[c].reply
          /\ mng'[c].who = mng[c].who
      BY <2>1 DEF Session, With, SessionTypes, Fields
    <3> QED
      BY <3>1, AddsAccount DEF SessionTypes, RepliesKnown, CommandsNeedLogin
  <2>2. ASSUME Session(c, [cl |-> "over"]) PROVE LoginInv'
    BY <2>2 DEF Session, With, SessionTypes, RepliesKnown, CommandsNeedLogin, Fields
  <2> QED
    BY <1>4, <2>1, <2>2 DEF credentials_response, Quits, Only
<1>5. ASSUME NEW c \in Mng, request_response(c) PROVE LoginInv'
  BY <1>5 DEF request_response, Only, Session, With,
               SessionTypes, RepliesKnown, CommandsNeedLogin, Fields, CommandStages
<1>6. ASSUME NEW c \in Mng, client_killed(c) PROVE LoginInv'
  BY <1>6 DEF client_killed, Quits, Only, Session, With,
               SessionTypes, RepliesKnown, CommandsNeedLogin, Fields, CommandStages
<1>7. ASSUME NEW c \in Mng, mng_passive_accept(c) PROVE LoginInv'
  BY <1>7 DEF mng_passive_accept, Closed, Only, Session, With, vars,
               SessionTypes, RepliesKnown, CommandsNeedLogin, Fields, CommandStages
<1>8. ASSUME NEW c \in Mng, peer_closed(c) PROVE LoginInv'
  BY <1>8 DEF peer_closed, Closed, Only, Session, With,
               SessionTypes, RepliesKnown, CommandsNeedLogin, Fields, CommandStages
<1>9. ASSUME NEW c \in Mng, hello_read(c) PROVE LoginInv'
  BY <1>9 DEF hello_read, Reading, Closed, Only, Session, With,
               SessionTypes, RepliesKnown, CommandsNeedLogin, Fields, CommandStages
<1>10. ASSUME NEW c \in Mng, hello_write(c) PROVE LoginInv'
  BY <1>10 DEF hello_write, Sending, Closed, Only, Session, With,
               SessionTypes, RepliesKnown, CommandsNeedLogin, Fields, CommandStages
<1>11. ASSUME NEW c \in Mng, auth_read(c) PROVE LoginInv'
  BY <1>11 DEF auth_read, Reading, Closed, Dies, Only, Session, With,
               SessionTypes, RepliesKnown, CommandsNeedLogin, Fields, CommandStages
<1>12. ASSUME NEW c \in Mng, auth_write(c) PROVE LoginInv'
  BY <1>12 DEF auth_write, Sending, Closed, Only, Session, With,
               SessionTypes, RepliesKnown, CommandsNeedLogin, Fields, CommandStages
<1>13. ASSUME NEW c \in Mng, mng_request_index_read(c) PROVE LoginInv'
  BY <1>13 DEF mng_request_index_read, Reading, Answer, Dies, Only, Session, With,
               SessionTypes, RepliesKnown, CommandsNeedLogin, Fields, CommandStages
<1>14. ASSUME NEW c \in Mng, mng_request_read(c) PROVE LoginInv'
  BY <1>14 DEF mng_request_read, Reading, process_mng_params_request, add_user, delete_user,
               disableAuth, disablePasswordDissectors, Done, Answer, Dies, Only, Session, With,
               SessionTypes, RepliesKnown, CommandsNeedLogin, Fields, CommandStages
<1>15. ASSUME NEW c \in Mng, mng_request_write(c) PROVE LoginInv'
  BY <1>15 DEF mng_request_write, Sending, Closed, Only, Session, With,
               SessionTypes, RepliesKnown, CommandsNeedLogin, Fields, CommandStages
<1>16. ASSUME NEW s \in Socks, socks_hello_init(s) \/ socks_hello(s) \/ socks_login(s) \/ socks_close(s)
      PROVE  LoginInv'
  BY <1>16 DEF socks_hello_init, socks_hello, socks_login, checkCredentials, socks_close, Sock,
               SessionTypes, RepliesKnown, CommandsNeedLogin
<1> QED
  BY <1>1, <1>2, <1>3, <1>4, <1>5, <1>6, <1>7, <1>8, <1>9, <1>10, <1>11, <1>12, <1>13, <1>14, <1>15, <1>16 DEF Next, Client, Server

\* CommandsNeedLogin for every set of users, administrators and connections:
\* no order of commands, settings and failures opens the command stages of
\* mng_nio.c to a client without an administrator's credentials.
THEOREM LoginBeforeCommands == Spec => []CommandsNeedLogin
<1>1. LoginInv => CommandsNeedLogin
  BY DEF LoginInv
<1> QED
  BY LoginInit, LoginNext, <1>1, PTL DEF Spec

-----------------------------------------------------------------------------
(* The users table *)

TableInv == TableTypes /\ TableSound

\* deleteUser stops at the first entry of that name, if there is one.
LEMMA FirstFound ==
    ASSUME TableTypes, NEW n, \E i \in Live(Table) : Entry(Table, i).name = n
    PROVE  /\ First(Table, n) \in 0..(nusers - 1)
           /\ Entry(Table, First(Table, n)).name = n
           /\ \A j \in 0..(First(Table, n) - 1) : Entry(Table, j).name # n
<1> DEFINE S == {i \in Live(Table) : Entry(Table, i).name = n}
<1>1. S \subseteq Nat /\ S # {}
  BY DEF Live, Table, TableTypes
<1>2. PICK m \in S : \A k \in S : m <= k
  BY <1>1, LeastNat
<1>3. \A j \in 0..(m - 1) : Entry(Table, j).name # n
  BY <1>2, MaxUsersAssumption DEF Live, Table, TableTypes
<1>4. \E i \in Live(Table) : Entry(Table, i).name = n /\ \A j \in 0..(i - 1) : Entry(Table, j).name # n
  BY <1>2, <1>3
<1>5. /\ First(Table, n) \in Live(Table) /\ Entry(Table, First(Table, n)).name = n
      /\ \A j \in 0..(First(Table, n) - 1) : Entry(Table, j).name # n
  BY <1>4 DEF First
<1> QED
  BY <1>5 DEF Live, Table

\* An addition leaves the entries before it alone.
LEMMA AddSound ==
    ASSUME TableInv, nusers < MAX_USERS, NEW u \in Account,
           NEW b \in Block, heap[b] = Free, SetTable(addUser(Table, u, b))
    PROVE  /\ TableInv' /\ nusers' = nusers + 1
           /\ \A i \in 0..(nusers - 1) : users'[i] = users[i] /\ heap'[users'[i]] = heap[users[i]]
           /\ heap'[users'[nusers]] = u
<1>1. /\ users' = [users EXCEPT ![nusers] = b] /\ nusers' = nusers + 1
      /\ heap' = [heap EXCEPT ![b] = u]
  BY MaxUsersAssumption DEF SetTable, addUser, Table, TableInv, TableTypes
<1>2. TableTypes'
  BY <1>1, MaxUsersAssumption DEF TableInv, TableTypes, Slots
<1>3. TableSound'
  BY <1>1, MaxUsersAssumption, NobodyAssumption
     DEF TableInv, TableTypes, TableSound, Live, Table, Slots
<1> QED
  BY <1>1, <1>2, <1>3, MaxUsersAssumption
     DEF TableInv, TableTypes, TableSound, Live, Table, Slots

\* A deletion leaves the entries before it alone, and one after it moves down.
LEMMA DeleteSound ==
    ASSUME TableInv, NEW n, \E i \in Live(Table) : Entry(Table, i).name = n,
           SetTable(deleteUser(Table, n))
    PROVE  /\ TableInv' /\ nusers' = nusers - 1
           /\ \A i \in 0..(First(Table, n) - 1) :
                 users'[i] = users[i] /\ heap'[users'[i]] = heap[users[i]]
           /\ \A i \in First(Table, n)..(nusers - 2) : heap'[users'[i]] = heap[users[i + 1]]
<1> DEFINE k == First(Table, n)
<1>1. k \in 0..(nusers - 1)
  BY FirstFound DEF TableInv
<1> HIDE DEF k
<1>2. /\ users' = [i \in Slots |-> IF i \in k..(nusers - 2) THEN users[i + 1]
                                   ELSE IF i = k THEN NULL ELSE users[i]]
      /\ nusers' = nusers - 1
      /\ heap' = [heap EXCEPT ![users[k]] = Free]
  BY DEF SetTable, deleteUser, Table, k
<1>3. TableTypes'
  <2>1. nusers' \in 0..MAX_USERS
    BY <1>1, <1>2, MaxUsersAssumption DEF TableInv, TableTypes
  <2>2. heap' \in [Block -> Account \cup {Free}]
    BY <1>2 DEF TableInv, TableTypes
  <2>3. \A i \in k..(nusers - 2) : i + 1 \in Slots
    BY <1>1, MaxUsersAssumption DEF TableInv, TableTypes, Slots
  <2>4. users' \in [Slots -> Block \cup {NULL}]
    BY <1>2, <2>3 DEF TableInv, TableTypes
  <2> QED
    BY <2>1, <2>2, <2>4 DEF TableTypes
<1>4. \A i \in 0..(nusers' - 1) :
         users'[i] = users[IF i < k THEN i ELSE i + 1]
  BY <1>1, <1>2, MaxUsersAssumption DEF TableInv, TableTypes, Slots
<1>5. TableSound'
  <2>1. \A i \in 0..(nusers' - 1) : users'[i] \in Block /\ heap'[users'[i]] # Free
    BY <1>1, <1>2, <1>4, MaxUsersAssumption DEF TableInv, TableTypes, TableSound, Live, Table, Slots
  <2>2. \A i, j \in 0..(nusers' - 1) : users'[i] = users'[j] => i = j
    BY <1>1, <1>2, <1>4, MaxUsersAssumption DEF TableInv, TableTypes, TableSound, Live, Table, Slots
  <2>3. \A b \in Block : heap'[b] # Free => \E i \in 0..(nusers' - 1) : users'[i] = b
    <3> SUFFICES ASSUME NEW b \in Block, heap'[b] # Free
                 PROVE  \E i \in 0..(nusers' - 1) : users'[i] = b
      OBVIOUS
    <3>1. heap[b] # Free /\ b # users[k]
      BY <1>1, <1>2, MaxUsersAssumption DEF TableInv, TableTypes, TableSound, Live, Table, Slots
    <3>2. PICK i \in 0..(nusers - 1) : users[i] = b
      BY <3>1 DEF TableInv, TableSound, Live, Table
    <3>3. CASE i < k
      BY <1>1, <1>2, <1>4, <3>2, <3>3 DEF TableInv, TableTypes
    <3>4. CASE i > k
      <4>1. i - 1 \in 0..(nusers' - 1) /\ users'[i - 1] = b
        BY <1>1, <1>2, <1>4, <3>2, <3>4 DEF TableInv, TableTypes
      <4> QED
        BY <4>1
    <3> QED
      BY <1>1, <3>1, <3>2, <3>3, <3>4
  <2> QED
    BY <2>1, <2>2, <2>3 DEF TableSound, Live, Table
<1>6. \A i \in 0..(k - 1) : users'[i] = users[i] /\ heap'[users'[i]] = heap[users[i]]
  <2> SUFFICES ASSUME NEW i \in 0..(k - 1)
               PROVE  users'[i] = users[i] /\ heap'[users[i]] = heap[users[i]]
    OBVIOUS
  <2>1. i \in 0..(nusers' - 1) /\ i \in 0..(nusers - 1) /\ i # k
    BY <1>1, <1>2 DEF TableInv, TableTypes
  <2>2. users'[i] = users[i]
    BY <1>1, <1>4, <2>1
  <2>3. users[i] \in Block /\ users[i] # users[k]
    BY <1>1, <2>1 DEF TableInv, TableSound, Live, Table
  <2> QED
    BY <1>2, <2>2, <2>3 DEF TableInv, TableTypes
<1>7. \A i \in k..(nusers - 2) : heap'[users'[i]] = heap[users[i + 1]]
  <2> SUFFICES ASSUME NEW i \in k..(nusers - 2)
               PROVE  heap'[users'[i]] = heap[users[i + 1]]
    OBVIOUS
  <2>1. i \in 0..(nusers' - 1) /\ i + 1 \in 0..(nusers - 1) /\ i + 1 # k /\ ~(i < k)
    BY <1>1, <1>2 DEF TableInv, TableTypes
  <2>2. users'[i] = users[i + 1]
    BY <1>4, <2>1
  <2>3. users[i + 1] \in Block /\ users[i + 1] # users[k]
    BY <1>1, <2>1 DEF TableInv, TableSound, Live, Table
  <2> QED
    BY <1>2, <2>2, <2>3 DEF TableInv, TableTypes
<1> QED
  BY <1>2, <1>3, <1>5, <1>6, <1>7 DEF TableInv, k

-----------------------------------------------------------------------------
(* The table and the sessions that point into it *)

MInv == SessionTypes /\ TableInv /\ SockTypes /\ LogNamesUser

\* The users of the command line are in blocks of their own.
LEMMA TableInit == Init => MInv
<1> SUFFICES ASSUME Init PROVE MInv
  OBVIOUS
<1>1. SessionTypes /\ SockTypes /\ LogNamesUser
  <2>1. SessionTypes
    BY LoginInit DEF LoginInv
  <2>2. socks = [s \in Socks |-> NoSocks]
    BY DEF Init
  <2>3. /\ DOMAIN NoSocks = SockFields /\ NoSocks.st = "FREE" /\ NoSocks.index \in Slots
        /\ NoSocks.shifted \in BOOLEAN
    BY MaxUsersAssumption DEF NoSocks, SockFields, Slots
  <2> QED
    BY <2>1, <2>2, <2>3 DEF SockTypes, LogNamesUser
<1>2. PICK given \in BoundedSeq(Account, MAX_USERS) :
         /\ nusers = Len(given)
         /\ \E at \in [1..Len(given) -> Block] :
              /\ \A i, j \in 1..Len(given) : at[i] = at[j] => i = j
              /\ users = [i \in Slots |-> IF i < Len(given) THEN at[i + 1] ELSE NULL]
              /\ heap = [b \in Block |-> IF \E i \in 1..Len(given) : at[i] = b
                                         THEN given[CHOOSE i \in 1..Len(given) : at[i] = b]
                                         ELSE Free]
  BY DEF Init
<1>3. PICK at \in [1..Len(given) -> Block] :
         /\ \A i, j \in 1..Len(given) : at[i] = at[j] => i = j
         /\ users = [i \in Slots |-> IF i < Len(given) THEN at[i + 1] ELSE NULL]
         /\ heap = [b \in Block |-> IF \E i \in 1..Len(given) : at[i] = b
                                    THEN given[CHOOSE i \in 1..Len(given) : at[i] = b]
                                    ELSE Free]
  BY <1>2
<1>4. Len(given) \in 0..MAX_USERS /\ given \in [1..Len(given) -> Account]
  BY MaxUsersAssumption DEF BoundedSeq, SeqOf
<1>5. \A b \in Block : (\E i \in 1..Len(given) : at[i] = b) =>
         heap[b] \in Account
  <2> SUFFICES ASSUME NEW b \in Block, \E i \in 1..Len(given) : at[i] = b
               PROVE  heap[b] \in Account
    OBVIOUS
  <2>1. (CHOOSE i \in 1..Len(given) : at[i] = b) \in 1..Len(given)
    OBVIOUS
  <2> QED
    BY <1>3, <1>4, <2>1
<1>6. TableTypes
  <2>1. nusers \in 0..MAX_USERS
    BY <1>2, <1>4
  <2>2. \A i \in Slots : i < Len(given) => i + 1 \in 1..Len(given)
    BY <1>4, MaxUsersAssumption DEF Slots
  <2>3. users \in [Slots -> Block \cup {NULL}]
    BY <1>3, <2>2
  <2>4. \A b \in Block : heap[b] \in Account \cup {Free}
    BY <1>3, <1>5
  <2>5. heap \in [Block -> Account \cup {Free}]
    BY <1>3, <2>4
  <2> QED
    BY <2>1, <2>3, <2>5 DEF TableTypes
<1>7. TableSound
  <2>1. \A i \in 0..(nusers - 1) : i + 1 \in 1..Len(given) /\ users[i] = at[i + 1]
    BY <1>2, <1>3, <1>4, MaxUsersAssumption DEF Slots
  <2>2. ASSUME NEW i \in 0..(nusers - 1) PROVE users[i] \in Block /\ heap[users[i]] # Free
    <3>1. at[i + 1] \in Block /\ heap[at[i + 1]] \in Account
      BY <1>3, <1>5, <2>1
    <3> QED
      BY <2>1, <3>1, NobodyAssumption
  <2>3. ASSUME NEW i \in 0..(nusers - 1), NEW j \in 0..(nusers - 1), users[i] = users[j]
        PROVE  i = j
    <3>1. i + 1 = j + 1
      BY <1>3, <2>1, <2>3
    <3>2. nusers \in Nat
      BY <1>6 DEF TableTypes
    <3> QED
      BY <3>1, <3>2
  <2>4. ASSUME NEW b \in Block, heap[b] # Free
        PROVE  \E i \in 0..(nusers - 1) : users[i] = b
    <3>1. PICK i \in 1..Len(given) : at[i] = b
      BY <1>3, <2>4
    <3>2. i - 1 \in 0..(nusers - 1) /\ users[i - 1] = b
      BY <1>2, <1>3, <1>4, <3>1, MaxUsersAssumption DEF Slots
    <3> QED
      BY <3>2
  <2> QED
    BY <2>2, <2>3, <2>4 DEF TableSound, Live, Table
<1> QED
  BY <1>1, <1>6, <1>7 DEF MInv, TableInv

\* What only a session or its client sees leaves the table, the settings and
\* the SOCKS connections alone.
LEMMA SessionsOnly ==
    ASSUME NEW c \in Mng,
           \/ client_start(c) \/ Client(c) \/ client_killed(c)
           \/ mng_passive_accept(c) \/ peer_closed(c) \/ hello_read(c) \/ hello_write(c)
           \/ auth_read(c) \/ auth_write(c) \/ mng_request_index_read(c)
           \/ mng_request_write(c)
    PROVE  UNCHANGED <<table, settings, socks>>
BY DEF client_start, Client, handshake_response, credentials_response, request_response,
       client_killed, Quits, mng_passive_accept, peer_closed, hello_read, hello_write,
       auth_read, auth_write, mng_request_index_read, mng_request_write, Sending, Answer,
       Closed, Only, Dies, vars, table, settings

\* A command keeps the table sound, and the entry of a session that it does
\* not shift.
LEMMA CommandKeeps ==
    ASSUME MInv, NEW c \in Mng, mng_request_read(c)
    PROVE  (TableInv /\ SockTypes /\ LogNamesUser)'
<1> USE DEF MInv
<1>1. CASE UNCHANGED <<table, socks>>
  BY <1>1 DEF table, TableInv, TableTypes, TableSound, SockTypes, LogNamesUser, Live, Entry, Table
<1>2. CASE mng[c].cmd.op = "add" /\ add_user(c) /\ nusers # MAX_USERS
  <2>1. PICK b \in Block : heap[b] = Free /\ SetTable(addUser(Table, mng[c].cmd.user, b))
    BY <1>2 DEF add_user
  <2>2. mng[c].cmd.user \in Account /\ nusers < MAX_USERS /\ socks' = socks
    <3>1. mng[c].cmd.user \in Account
      BY <1>2 DEF SessionTypes
    <3>2. nusers < MAX_USERS
      BY <1>2, MaxUsersAssumption DEF TableInv, TableTypes
    <3>3. socks' = socks
      BY <1>2 DEF add_user
    <3> QED
      BY <3>1, <3>2, <3>3
  <2>3. /\ TableInv' /\ nusers' = nusers + 1
        /\ \A i \in 0..(nusers - 1) : users'[i] = users[i] /\ heap'[users'[i]] = heap[users[i]]
    BY <2>1, <2>2, AddSound
  <2>4. LogNamesUser'
    BY <2>2, <2>3 DEF LogNamesUser, Entry, Table, SockTypes, Slots, TableInv, TableTypes
  <2> QED
    BY <2>2, <2>3, <2>4 DEF SockTypes
<1>3. CASE mng[c].cmd.op = "delete" /\ delete_user(c)
  <2> DEFINE n == mng[c].cmd.name
             k == First(Table, n)
  <2>1. CASE \A i \in Live(Table) : Entry(Table, i).name # n
    <3>1. UNCHANGED <<table, socks>>
      BY <1>3, <2>1 DEF delete_user, deleteUser, SetTable, Table, table
    <3> QED
      BY <3>1, <1>1
  <2>2. CASE \E i \in Live(Table) : Entry(Table, i).name = n
    <3>1. SetTable(deleteUser(Table, n)) /\ Shift(k)
      BY <1>3, <2>2 DEF delete_user
    <3>2. k \in 0..(nusers - 1)
      BY <2>2, FirstFound DEF TableInv
    <3>3. /\ TableInv' /\ nusers' = nusers - 1
          /\ \A i \in 0..(k - 1) : users'[i] = users[i] /\ heap'[users'[i]] = heap[users[i]]
      BY <2>2, <3>1, DeleteSound
    <3> HIDE DEF n, k
    <3>4. /\ DOMAIN socks' = Socks
          /\ \A s \in Socks :
                /\ DOMAIN socks'[s] = SockFields
                /\ socks'[s].st = socks[s].st /\ socks'[s].method = socks[s].method
                /\ socks'[s].index = socks[s].index /\ socks'[s].who = socks[s].who
                /\ socks'[s].shifted = (socks[s].shifted
                                        \/ (socks[s].st = "REQUEST" /\ k <= socks[s].index))
      BY <3>1 DEF Shift, With, SockTypes, SockFields
    <3>5. SockTypes'
      BY <3>4 DEF SockTypes
    <3>6. LogNamesUser'
      <4> SUFFICES ASSUME NEW s \in Socks, socks[s].st = "REQUEST", socks[s].method = "user",
                          ~socks[s].shifted, ~(k <= socks[s].index)
                   PROVE  socks[s].index < nusers'
                          /\ heap'[users'[socks[s].index]] = socks[s].who
        BY <3>4 DEF LogNamesUser, Entry, Table
      <4>1. socks[s].index \in 0..(k - 1)
        BY <3>2, MaxUsersAssumption DEF SockTypes, Slots, TableInv, TableTypes
      <4> QED
        BY <3>2, <3>3, <4>1 DEF LogNamesUser, Entry, Table, TableInv, TableTypes
    <3> QED
      BY <3>3, <3>5, <3>6
  <2> QED
    BY <2>1, <2>2
<1> QED
  BY <1>1, <1>2, <1>3
     DEF mng_request_read, process_mng_params_request, add_user, disableAuth,
         disablePasswordDissectors, Answer, Dies, Only

\* A SOCKS connection learns its entry when it logs in.
LEMMA SocksKeeps ==
    ASSUME MInv, NEW s \in Socks,
           socks_hello_init(s) \/ socks_hello(s) \/ socks_login(s) \/ socks_close(s)
    PROVE  UNCHANGED table /\ (SockTypes /\ LogNamesUser)'
<1> USE DEF MInv
<1>1. CASE socks_hello_init(s)
  BY <1>1 DEF socks_hello_init, Sock, With, SockTypes, SockFields, LogNamesUser, table, Entry, Table
<1>2. CASE socks_hello(s)
  BY <1>2 DEF socks_hello, Sock, With, SockTypes, SockFields, LogNamesUser, table, Entry, Table
<1>3. CASE socks_login(s)
  <2>1. PICK i \in Live(Table) : checkCredentials(s, i)
    BY <1>3 DEF socks_login
  <2>2. i \in Slots /\ i < nusers
    BY <2>1, MaxUsersAssumption DEF Live, Table, Slots, TableInv, TableTypes
  <2> QED
    BY <2>1, <2>2 DEF checkCredentials, Sock, With, SockTypes, SockFields, LogNamesUser, table,
                      Entry, Table
<1>4. CASE socks_close(s)
  <2>1. /\ UNCHANGED table /\ DOMAIN socks' = Socks /\ socks'[s] = NoSocks
        /\ \A t \in Socks : t # s => socks'[t] = socks[t]
    BY <1>4 DEF socks_close, SockTypes
  <2>2. /\ DOMAIN NoSocks = SockFields /\ NoSocks.st = "FREE" /\ NoSocks.index \in Slots
        /\ NoSocks.shifted \in BOOLEAN
    BY MaxUsersAssumption DEF NoSocks, SockFields, Slots
  <2> QED
    BY <2>1, <2>2 DEF SockTypes, LogNamesUser, table, Entry, Table
<1> QED
  BY <1>1, <1>2, <1>3, <1>4

\* Every step keeps it.
LEMMA TableNext ==
    ASSUME LoginInv, MInv, [Next]_vars
    PROVE  MInv'
<1>1. SessionTypes'
  BY LoginNext DEF LoginInv
<1>2. ASSUME UNCHANGED <<table, socks>> PROVE (TableInv /\ SockTypes /\ LogNamesUser)'
  BY <1>2 DEF MInv, table, TableInv, TableTypes, TableSound, SockTypes, LogNamesUser, Live, Entry,
              Table
<1>3. ASSUME NEW s \in Socks,
             socks_hello_init(s) \/ socks_hello(s) \/ socks_login(s) \/ socks_close(s)
      PROVE  (TableInv /\ SockTypes /\ LogNamesUser)'
  BY <1>3, SocksKeeps DEF MInv, table, TableInv, TableTypes, TableSound, Live, Table
<1>4. CASE UNCHANGED vars
  BY <1>1, <1>2, <1>4 DEF vars, table, MInv
<1> QED
  BY <1>1, <1>2, <1>3, <1>4, SessionsOnly, CommandKeeps DEF Next, Server, MInv

\* TableSound for every table size and any accounts: addUser and deleteUser
\* neither leak, nor free twice, nor leave a freed name below nusers.
THEOREM TableStaysSound == Spec => []TableSound
<1>1. LoginInv /\ MInv => TableSound
  BY DEF MInv, TableInv
<1> QED
  BY LoginInit, LoginNext, TableInit, TableNext, <1>1, PTL DEF Spec

\* LogNamesUser for every table size and any number of connections: until an
\* entry at or below a session's userIndex is deleted, users[userIndex] is the
\* account that logged in, whatever is added and deleted meanwhile.
THEOREM LogNamesLoggedIn == Spec => []LogNamesUser
<1>1. LoginInv /\ MInv => LogNamesUser
  BY DEF MInv
<1> QED
  BY LoginInit, LoginNext, TableInit, TableNext, <1>1, PTL DEF Spec

-----------------------------------------------------------------------------
(* What clientM16 prints.  TruthfulAnswer is about a session's end; what     *)
(* makes it inductive is where the two halves of a session are when they     *)
(* talk: the client asks for a command only of a session that waits for one, *)
(* and what it then hears is the answer.                                     *)

Answering == {"MNG_REQUEST_WRITE", "CLOSED"}

\* The server's half: the command was run exactly when the reply says so.
ServerTells(m) ==
    /\ m.did <=> m.reply \in {"ok", "long"}
    /\ m.did => m.st \in Answering
    /\ m.reply \in {"empty", "long"} => m.cmd.op = "list"

\* Lock step, up to the request; the reply is one of the stage that made it.
LockStep(m) ==
    /\ m.st \in {"BACKLOG", "MNG_HELLO_READ"} => m.out = "none"
    /\ m.st = "MNG_HELLO_WRITE" => m.reply \in {"refused", "user"}
    /\ m.st = "MNG_USERPASS_WRITE" => m.reply \in {"granted", "denied"}
    /\ m.st = "MNG_REQUEST_WRITE" => m.reply \notin {"user", "granted"}
    /\ m.in = "login" => m.st \in {"MNG_USERPASS_READ", "CLOSED"} /\ m.out = "none"
    /\ m.in \in {"request", "params"} => m.cl \in {"answer", "over"}
    /\ m.out = "whole" /\ m.cl = "method" /\ m.reply = "user" => m.st = "MNG_USERPASS_READ"
    /\ m.st = "MNG_USERPASS_WRITE" => m.out # "whole"
    /\ m.cl = "verdict" /\ m.out = "whole" /\ m.reply = "granted"
         => m.st = "MNG_REQUEST_READ_INDEX"
    /\ m.st \in {"MNG_REQUEST_READ_INDEX", "MNG_REQUEST_READ"} => m.out # "part"
    /\ m.out = "part" /\ m.reply = "ok" => m.cmd.op \in Queries

\* And from there to what is printed, run saying whether the server lives.
ClientHears(m, run) ==
    /\ m.cl = "answer" =>
         /\ m.st \in CommandStages \cup {"CLOSED"}
         /\ m.st \in {"MNG_REQUEST_READ_INDEX", "MNG_REQUEST_READ"} => m.out = "none"
         /\ m.st = "CLOSED" /\ m.out = "none" => m.cmd.op = "list"
    /\ m.told # "nothing" => m.cl = "over"
    /\ m.told = "ok" => m.did
    /\ m.told = "garbled" => m.did /\ m.cmd.op \in Queries
    /\ m.told = "error" => m.extra \/ (~m.did /\ m.st \in Answering)
    /\ m.told = "noise" => ~run \/ m.cmd.op = "list"

AnswerOK(m, run) == ServerTells(m) /\ LockStep(m) /\ ClientHears(m, run)

AnswerInv == \A c \in Mng : AnswerOK(mng[c], Running)

\* A step of one session, the process living on or dying.
LEMMA OneSession ==
    ASSUME SessionTypes, AnswerInv, NEW c \in Mng, NEW r, mng' = [mng EXCEPT ![c] = r],
           AnswerOK(r, Running), stopped' = "no" => stopped = "no"
    PROVE  AnswerInv'
<1>1. mng'[c] = r /\ \A d \in Mng : d # c => mng'[d] = mng[d]
  BY DEF SessionTypes
<1>2. Running' => Running
  BY DEF Running
<1>3. ASSUME NEW m, AnswerOK(m, Running) PROVE AnswerOK(m, Running')
  BY <1>2, <1>3 DEF AnswerOK, ClientHears
<1>4. ASSUME NEW d \in Mng PROVE AnswerOK(mng'[d], Running')
  BY <1>1, <1>3 DEF AnswerInv
<1> QED
  BY <1>4 DEF AnswerInv

\* The same with the fields that change.
LEMMA OneSessionWith ==
    ASSUME SessionTypes, AnswerInv, NEW c \in Mng, NEW fields, Session(c, fields),
           AnswerOK(With(mng[c], fields), Running), UNCHANGED stopped
    PROVE  AnswerInv'
<1>1. mng' = [mng EXCEPT ![c] = With(mng[c], fields)]
  BY DEF Session
<1> QED
  BY <1>1, OneSession

\* Where no session changes, the process may only die.
LEMMA NoSession ==
    ASSUME AnswerInv, mng' = mng, stopped' = "no" => stopped = "no"
    PROVE  AnswerInv'
<1>1. Running' => Running
  BY DEF Running
<1>2. ASSUME NEW d \in Mng PROVE AnswerOK(mng'[d], Running')
  BY <1>1, <1>2 DEF AnswerInv, AnswerOK, ClientHears
<1> QED
  BY <1>2 DEF AnswerInv

\* The step of every action.  A session's step is one set of new fields or
\* another; the invariant is checked for each.
LEMMA AnswerNext ==
    ASSUME LoginInv, AnswerInv, [Next]_vars
    PROVE  AnswerInv'
<1> USE DEF LoginInv
<1>1. CASE UNCHANGED vars
  BY <1>1, NoSession DEF vars
<1>2. ASSUME NEW c \in Mng, client_start(c) PROVE AnswerInv'
  <2>1. PICK w \in {"anonymous", "wrong", "right"} :
           mng' = [mng EXCEPT ![c] = With(Ended, [st |-> "BACKLOG", cl |-> "method", who |-> w,
                                                  in |-> "greeting"])]
    BY <1>2 DEF client_start
  <2>2. AnswerOK(With(Ended, [st |-> "BACKLOG", cl |-> "method", who |-> w, in |-> "greeting"]),
                 Running)
    BY DEF With, Ended, AnswerOK, ServerTells, LockStep, ClientHears, NoCommand, Answering,
           CommandStages
  <2> QED
    BY <1>2, <2>1, <2>2, OneSession DEF client_start
<1>3. ASSUME NEW c \in Mng, handshake_response(c) PROVE AnswerInv'
  <2>1. AnswerOK(mng[c], Running) /\ DOMAIN mng[c] = Fields
    BY DEF AnswerInv, SessionTypes
  <2> QED
    BY <1>3, <2>1, OneSessionWith, NoSession
       DEF handshake_response, Quits, Only, Hears, Cut, RepliesKnown, Running,
         AnswerOK, ServerTells, LockStep, ClientHears, With, Fields, SessionTypes, CommandStages,
         Answering
<1>4. ASSUME NEW c \in Mng, credentials_response(c) PROVE AnswerInv'
  <2>1. AnswerOK(mng[c], Running) /\ DOMAIN mng[c] = Fields
    BY DEF AnswerInv, SessionTypes
  <2> QED
    BY <1>4, <2>1, OneSessionWith, NoSession
       DEF credentials_response, Quits, Only, Hears, Cut, RepliesKnown, Running,
         AnswerOK, ServerTells, LockStep, ClientHears, With, Fields, SessionTypes, CommandStages,
         Answering
<1>5. ASSUME NEW c \in Mng, request_response(c) PROVE AnswerInv'
  <2>1. AnswerOK(mng[c], Running) /\ DOMAIN mng[c] = Fields
    BY DEF AnswerInv, SessionTypes
  <2> QED
    BY <1>5, <2>1, OneSessionWith, NoSession
       DEF request_response, Only, Queries, Hears, Cut, RepliesKnown, Running,
         AnswerOK, ServerTells, LockStep, ClientHears, With, Fields, SessionTypes, CommandStages,
         Answering
<1>6. ASSUME NEW c \in Mng, client_killed(c) PROVE AnswerInv'
  <2>1. AnswerOK(mng[c], Running) /\ DOMAIN mng[c] = Fields
    BY DEF AnswerInv, SessionTypes
  <2>2. AnswerOK(With(mng[c], [cl |-> "over"]), Running)
    BY <2>1 DEF AnswerOK, ServerTells, LockStep, ClientHears, With, Fields
  <2> QED
    BY <1>6, <2>2, OneSessionWith DEF client_killed, Quits, Only
<1>7. ASSUME NEW c \in Mng, mng_passive_accept(c) PROVE AnswerInv'
  <2>1. AnswerOK(mng[c], Running) /\ DOMAIN mng[c] = Fields
    BY DEF AnswerInv, SessionTypes
  <2> QED
    BY <1>7, <2>1, OneSessionWith, NoSession
       DEF mng_passive_accept, Closed, Only, RepliesKnown, Running, vars,
         AnswerOK, ServerTells, LockStep, ClientHears, With, Fields, SessionTypes, CommandStages,
         Answering
<1>8. ASSUME NEW c \in Mng, peer_closed(c) PROVE AnswerInv'
  <2>1. AnswerOK(mng[c], Running) /\ DOMAIN mng[c] = Fields
    BY DEF AnswerInv, SessionTypes
  <2> QED
    BY <1>8, <2>1, OneSessionWith, NoSession
       DEF peer_closed, Closed, Only, ReadStages, Gone, RepliesKnown, Running,
         AnswerOK, ServerTells, LockStep, ClientHears, With, Fields, SessionTypes, CommandStages,
         Answering
<1>9. ASSUME NEW c \in Mng, hello_read(c) PROVE AnswerInv'
  <2>1. AnswerOK(mng[c], Running) /\ DOMAIN mng[c] = Fields
    BY DEF AnswerInv, SessionTypes
  <2> QED
    BY <1>9, <2>1, OneSessionWith, NoSession
       DEF hello_read, Reading, Closed, Only, RepliesKnown, Running,
         AnswerOK, ServerTells, LockStep, ClientHears, With, Fields, SessionTypes, CommandStages,
         Answering
<1>10. ASSUME NEW c \in Mng, hello_write(c) PROVE AnswerInv'
  <2>1. AnswerOK(mng[c], Running) /\ DOMAIN mng[c] = Fields
    BY DEF AnswerInv, SessionTypes
  <2> QED
    BY <1>10, <2>1, OneSessionWith, NoSession
       DEF hello_write, Sending, Closed, Only, Gone, RepliesKnown, Running,
         AnswerOK, ServerTells, LockStep, ClientHears, With, Fields, SessionTypes, CommandStages,
         Answering
<1>11. ASSUME NEW c \in Mng, auth_read(c) PROVE AnswerInv'
  <2>1. AnswerOK(mng[c], Running) /\ DOMAIN mng[c] = Fields
    BY DEF AnswerInv, SessionTypes
  <2> QED
    BY <1>11, <2>1, OneSessionWith, NoSession
       DEF auth_read, Reading, Closed, Dies, Only, RepliesKnown, Running,
         AnswerOK, ServerTells, LockStep, ClientHears, With, Fields, SessionTypes, CommandStages,
         Answering
<1>12. ASSUME NEW c \in Mng, auth_write(c) PROVE AnswerInv'
  <2>1. AnswerOK(mng[c], Running) /\ DOMAIN mng[c] = Fields
    BY DEF AnswerInv, SessionTypes
  <2> QED
    BY <1>12, <2>1, OneSessionWith, NoSession
       DEF auth_write, Sending, Closed, Only, Gone, RepliesKnown, Running,
         AnswerOK, ServerTells, LockStep, ClientHears, With, Fields, SessionTypes, CommandStages,
         Answering
<1>13. ASSUME NEW c \in Mng, mng_request_index_read(c) PROVE AnswerInv'
  <2>1. AnswerOK(mng[c], Running) /\ DOMAIN mng[c] = Fields
    BY DEF AnswerInv, SessionTypes
  <2> QED
    BY <1>13, <2>1, OneSessionWith, NoSession
       DEF mng_request_index_read, Reading, Answer, Dies, Only, Queries, RepliesKnown, Running,
         AnswerOK, ServerTells, LockStep, ClientHears, With, Fields, SessionTypes, CommandStages,
         Answering
<1>14. ASSUME NEW c \in Mng, mng_request_read(c) PROVE AnswerInv'
  <2>1. AnswerOK(mng[c], Running) /\ DOMAIN mng[c] = Fields
    BY DEF AnswerInv, SessionTypes
  <2> QED
    BY <1>14, <2>1, OneSessionWith, NoSession
       DEF mng_request_read, Reading, process_mng_params_request, add_user, delete_user,
         disableAuth, disablePasswordDissectors, Done, Answer, Dies, Only, RepliesKnown, Running,
         AnswerOK, ServerTells, LockStep, ClientHears, With, Fields, SessionTypes, CommandStages,
         Answering
<1>15. ASSUME NEW c \in Mng, mng_request_write(c) PROVE AnswerInv'
  <2>1. AnswerOK(mng[c], Running) /\ DOMAIN mng[c] = Fields
    BY DEF AnswerInv, SessionTypes
  <2>2. ASSUME mng[c].st = "MNG_REQUEST_WRITE",
               Session(c, [st |-> "CLOSED",
                           out |-> IF mng[c].reply = "empty" THEN "none" ELSE "whole"]),
               UNCHANGED stopped
        PROVE  AnswerInv'
    BY <2>1, <2>2, OneSessionWith
       DEF AnswerOK, ServerTells, LockStep, ClientHears, With, Fields, CommandStages, Answering
  <2>3. ASSUME mng[c].st = "MNG_REQUEST_WRITE", Multibyte(c), Session(c, [out |-> "part"]),
               UNCHANGED stopped
        PROVE  AnswerInv'
    BY <2>1, <2>3, OneSessionWith
       DEF Multibyte, AnswerOK, ServerTells, LockStep, ClientHears, With, Fields, CommandStages,
           Answering
  <2>4. ASSUME mng[c].st = "MNG_REQUEST_WRITE", Gone(c), Session(c, [st |-> "CLOSED"]),
               UNCHANGED stopped
        PROVE  AnswerInv'
    BY <2>1, <2>4, OneSessionWith
       DEF Gone, AnswerOK, ServerTells, LockStep, ClientHears, With, Fields, Answering
  <2> QED
    BY <1>15, <2>2, <2>3, <2>4 DEF mng_request_write, Sending, Closed, Only
<1>16. ASSUME NEW s \in Socks,
             socks_hello_init(s) \/ socks_hello(s) \/ socks_login(s) \/ socks_close(s)
      PROVE  AnswerInv'
  BY <1>16, NoSession
     DEF socks_hello_init, socks_hello, socks_login, checkCredentials, socks_close, Sock
<1> QED
  BY <1>1, <1>2, <1>3, <1>4, <1>5, <1>6, <1>7, <1>8, <1>9, <1>10, <1>11, <1>12, <1>13, <1>14, <1>15, <1>16 DEF Next, Client, Server

\* Initially nobody has asked.
LEMMA AnswerInit == Init => AnswerInv
BY DEF Init, AnswerInv, AnswerOK, ServerTells, LockStep, ClientHears, Ended, NoCommand,
       Answering, CommandStages

\* TruthfulAnswer for every number of clients and any settings: whatever order
\* the halves of the sessions run in, and wherever a client or the process
\* dies, clientM16 prints success, or values that did not arrive whole
\* (request_response), only of a command that was run and the second only of
\* a query, an error of one that was run only behind a repeated login reply,
\* and what no byte told it only when the server died or had no list.
THEOREM AnswersTruthful == Spec => []TruthfulAnswer
<1>1. AnswerInv => TruthfulAnswer
  BY DEF AnswerInv, AnswerOK, ClientHears, TruthfulAnswer
<1> QED
  BY LoginInit, LoginNext, AnswerInit, AnswerNext, <1>1, PTL DEF Spec

-----------------------------------------------------------------------------
(* The abstract registry.  The refinement needs the invariants of the table  *)
(* (a freed or moved block would change an account that stays) and that a    *)
(* SOCKS connection past its greeting holds the method it was greeted with.  *)

SettingsOK == auth_method \in {"user", "none"} /\ password_dissectors \in BOOLEAN

SockKinds ==
    \A s \in Socks :
        /\ socks[s].st \in {"FREE", "HELLO", "LOGIN", "REQUEST"}
        /\ socks[s].st # "FREE" => socks[s].method \in {"user", "none"}
        /\ socks[s].st = "LOGIN" => socks[s].method = "user"

RegistryInv == SettingsOK /\ SockKinds

\* The accounts of the table, in its order, as Registry sees them.
AccountList == [i \in 1..nusers |-> Entry(Table, i - 1)]

\* And the sessions.
SessionMap == [s \in Socks |-> SessionOf(s)]

\* RemoveAt as a function of the positions.
LEMMA RemoveAtIs ==
    ASSUME NEW S, NEW s \in Seq(S), NEW k \in 1..Len(s)
    PROVE  RemoveAt(s, k) = [j \in 1..(Len(s) - 1) |-> IF j < k THEN s[j] ELSE s[j + 1]]
<1> DEFINE a == SubSeq(s, 1, k - 1)
           b == SubSeq(s, k + 1, Len(s))
<1>1. /\ a \in Seq(S) /\ Len(a) = k - 1 /\ \A j \in 1..(k - 1) : a[j] = s[j]
  OBVIOUS
<1>2. /\ b \in Seq(S) /\ Len(b) = Len(s) - k /\ \A j \in 1..(Len(s) - k) : b[j] = s[k + j]
  OBVIOUS
<1> HIDE DEF a, b
<1>3. a \o b \in Seq(S) /\ Len(a \o b) = Len(a) + Len(b)
  BY <1>1, <1>2, ConcatProperties
<1>4. \A j \in 1..(Len(s) - 1) : (a \o b)[j] = IF j < k THEN s[j] ELSE s[j + 1]
  BY <1>1, <1>2
<1>5. Len(a \o b) = Len(s) - 1
  BY <1>1, <1>2, <1>3
<1>6. a \o b = [j \in 1..(Len(s) - 1) |-> (a \o b)[j]]
  BY <1>3, <1>5, LenProperties
<1> QED
  BY <1>4, <1>6 DEF RemoveAt, a, b

\* Append as a function of the positions.
LEMMA AppendIs ==
    ASSUME NEW S, NEW s \in Seq(S), NEW u \in S
    PROVE  Append(s, u) = [j \in 1..(Len(s) + 1) |-> IF j <= Len(s) THEN s[j] ELSE u]
<1> DEFINE a == Append(s, u)
<1>1. /\ a \in Seq(S) /\ Len(a) = Len(s) + 1 /\ \A i \in 1..Len(s) : a[i] = s[i]
      /\ a[Len(s) + 1] = u
  BY AppendProperties
<1> HIDE DEF a
<1>2. a = [j \in 1..(Len(s) + 1) |-> a[j]]
  BY <1>1, LenProperties
<1>3. Len(s) \in Nat
  OBVIOUS
<1>4. \A j \in 1..(Len(s) + 1) : a[j] = IF j <= Len(s) THEN s[j] ELSE u
  BY <1>1, <1>3
<1> QED
  BY <1>2, <1>4 DEF a

\* A sound table is a list of accounts.
LEMMA ListOfAccounts ==
    ASSUME TableInv
    PROVE  AccountList \in Seq(Account) /\ Len(AccountList) = nusers /\ nusers \in 0..MAX_USERS
<1>1. nusers \in 0..MAX_USERS /\ nusers \in Nat
  BY MaxUsersAssumption DEF TableInv, TableTypes
<1>2. \A i \in 1..nusers : i - 1 \in Live(Table)
  BY <1>1 DEF Live, Table
<1>3. \A i \in 1..nusers : Entry(Table, i - 1) \in Account
  BY <1>2 DEF TableInv, TableTypes, TableSound, Entry, Table
<1>4. AccountList \in [1..nusers -> Account]
  BY <1>3 DEF AccountList
<1> QED
  BY <1>1, <1>4

\* An addition appends.
LEMMA AddAppends ==
    ASSUME TableInv, nusers < MAX_USERS, NEW u \in Account,
           NEW b \in Block, heap[b] = Free, SetTable(addUser(Table, u, b))
    PROVE  AccountList' = Append(AccountList, u)
<1>1. /\ nusers' = nusers + 1 /\ heap'[users'[nusers]] = u
      /\ \A i \in 0..(nusers - 1) : heap'[users'[i]] = heap[users[i]]
  BY AddSound
<1>2. AccountList \in Seq(Account) /\ Len(AccountList) = nusers /\ nusers \in Nat
  BY ListOfAccounts, MaxUsersAssumption
<1>3. Append(AccountList, u) =
         [j \in 1..(nusers + 1) |-> IF j <= nusers THEN AccountList[j] ELSE u]
  BY <1>2, AppendIs
<1>4. \A j \in 1..(nusers + 1) :
         heap'[users'[j - 1]] = IF j <= nusers THEN AccountList[j] ELSE u
  BY <1>1, <1>2 DEF AccountList, Entry, Table
<1>5. AccountList' = [j \in 1..(nusers + 1) |-> heap'[users'[j - 1]]]
  BY <1>1 DEF AccountList, Entry, Table
<1> QED
  BY <1>3, <1>4, <1>5

\* A deletion removes the first account of its name.
LEMMA DeleteRemoves ==
    ASSUME TableInv, NEW n, \E i \in Live(Table) : Entry(Table, i).name = n,
           SetTable(deleteUser(Table, n))
    PROVE  LET k == First(Table, n) + 1
           IN /\ k \in 1..nusers /\ AccountList[k].name = n
              /\ \A j \in 1..(k - 1) : AccountList[j].name # n
              /\ AccountList' = RemoveAt(AccountList, k)
<1> DEFINE f == First(Table, n)
<1>1. f \in 0..(nusers - 1) /\ Entry(Table, f).name = n
      /\ \A j \in 0..(f - 1) : Entry(Table, j).name # n
  BY FirstFound DEF TableInv
<1>2. /\ nusers' = nusers - 1
      /\ \A i \in 0..(f - 1) : heap'[users'[i]] = heap[users[i]]
      /\ \A i \in f..(nusers - 2) : heap'[users'[i]] = heap[users[i + 1]]
  BY DeleteSound
<1> HIDE DEF f
<1>3. AccountList \in Seq(Account) /\ Len(AccountList) = nusers /\ nusers \in Nat
  BY ListOfAccounts, MaxUsersAssumption
<1>4. f \in Nat /\ f + 1 \in 1..nusers
  BY <1>1, <1>3
<1>5. AccountList[f + 1].name = n
  BY <1>1, <1>4 DEF AccountList
<1>6. \A j \in 1..f : AccountList[j].name # n
  BY <1>1, <1>3, <1>4 DEF AccountList
<1>7. RemoveAt(AccountList, f + 1) =
         [j \in 1..(nusers - 1) |-> IF j < f + 1 THEN AccountList[j] ELSE AccountList[j + 1]]
  BY <1>3, <1>4, RemoveAtIs
<1>8. \A j \in 1..(nusers - 1) :
         heap'[users'[j - 1]] = IF j < f + 1 THEN AccountList[j] ELSE AccountList[j + 1]
  BY <1>2, <1>3, <1>4 DEF AccountList, Entry, Table
<1>9. AccountList' = [j \in 1..(nusers - 1) |-> heap'[users'[j - 1]]]
  BY <1>2 DEF AccountList, Entry, Table
<1>10. AccountList' = RemoveAt(AccountList, f + 1)
  BY <1>7, <1>8, <1>9
<1> QED
  BY <1>4, <1>5, <1>6, <1>10 DEF f

\* The settings are what the commands may set; a connection takes its method
\* from them once.
LEMMA RegistryInvNext ==
    ASSUME MInv, RegistryInv, [Next]_vars
    PROVE  RegistryInv'
<1> USE DEF MInv, RegistryInv
<1>1. ASSUME UNCHANGED <<settings, socks>> PROVE RegistryInv'
  BY <1>1 DEF settings, SettingsOK, SockKinds
<1>2. CASE UNCHANGED vars
  BY <1>1, <1>2 DEF vars, settings
<1>3. ASSUME NEW c \in Mng, mng_request_read(c) PROVE RegistryInv'
  <2>1. SettingsOK'
    BY <1>3 DEF mng_request_read, process_mng_params_request, add_user, delete_user, disableAuth,
                disablePasswordDissectors, Answer, Only, Dies, settings, SettingsOK
  <2>2. \/ socks' = socks
        \/ \E k : Shift(k)
    BY <1>3 DEF mng_request_read, process_mng_params_request, add_user, delete_user, disableAuth,
                disablePasswordDissectors, Answer, Only, Dies
  <2>3. ASSUME NEW k, Shift(k) PROVE SockKinds'
    BY <2>3 DEF Shift, With, SockTypes, SockFields, SockKinds
  <2> QED
    BY <2>1, <2>2, <2>3 DEF SockKinds
<1>4. ASSUME NEW s \in Socks,
             socks_hello_init(s) \/ socks_hello(s) \/ socks_login(s) \/ socks_close(s)
      PROVE  RegistryInv'
  <2>1. SettingsOK'
    BY <1>4 DEF socks_hello_init, socks_hello, socks_login, checkCredentials, socks_close, Sock,
                settings, SettingsOK
  <2>2. CASE socks_hello_init(s) \/ socks_hello(s)
    BY <2>1, <2>2 DEF socks_hello_init, socks_hello, Sock, With, SockTypes, SockFields, SockKinds,
                      SettingsOK
  <2>3. CASE socks_login(s)
    <3>1. PICK i \in Live(Table) : checkCredentials(s, i)
      BY <2>3 DEF socks_login
    <3> QED
      BY <2>1, <2>3, <3>1 DEF socks_login, checkCredentials, Sock, With, SockTypes, SockFields,
                              SockKinds
  <2>4. CASE socks_close(s)
    BY <2>1, <2>4 DEF socks_close, NoSocks, SockTypes, SockKinds
  <2> QED
    BY <1>4, <2>2, <2>3, <2>4
<1> QED
  BY <1>1, <1>2, <1>3, <1>4, SessionsOnly DEF Next, Server

\* The users of the command line are the first list.
LEMMA RegistryInit == Init => RegistryInv /\ Accounts!Init
<1> SUFFICES ASSUME Init PROVE RegistryInv /\ Accounts!Init
  OBVIOUS
<1>1. TableInv
  BY TableInit DEF MInv
<1>2. AccountList \in Seq(Account) /\ Len(AccountList) = nusers /\ nusers \in 0..MAX_USERS
  BY <1>1, ListOfAccounts
<1>3. AccountList \in [1..nusers -> Account]
  BY <1>2, LenProperties
<1>4. AccountList \in BoundedSeq(Account, MAX_USERS)
  BY <1>2, <1>3 DEF BoundedSeq, SeqOf
<1>5. \A s \in Socks : SessionOf(s) = [kind |-> "out", who |-> Nobody]
  BY DEF Init, NoSocks, SessionOf
<1>6. RegistryInv
  BY DEF Init, NoSocks, RegistryInv, SettingsOK, SockKinds
<1>7. Accounts!Init
  <2>1. auth_method = "user" /\ password_dissectors \in BOOLEAN
    BY DEF Init
  <2> QED
    BY <1>4, <1>5, <2>1
       DEF Accounts!Init, Accounts!Account, Account, Accounts!Out, AccountList,
           Accounts!BoundedSeq, Accounts!SeqOf, BoundedSeq, SeqOf
<1> QED
  BY <1>6, <1>7

\* What Registry does not see.
LEMMA RegistryStutters ==
    ASSUME UNCHANGED <<table, settings>>, \A s \in Socks : SessionOf(s)' = SessionOf(s)
    PROVE  UNCHANGED Accounts!vars
BY DEF Accounts!vars, table, settings, Entry, Table

\* A command is an operation on the list, a setting, or nothing.
LEMMA CommandStep ==
    ASSUME MInv, RegistryInv, NEW c \in Mng, mng_request_read(c)
    PROVE  Accounts!Next \/ UNCHANGED Accounts!vars
<1> USE DEF MInv
<1>1. CASE UNCHANGED <<table, settings, socks>>
  BY <1>1, RegistryStutters DEF SessionOf
<1>2. CASE mng[c].cmd.op = "add" /\ add_user(c) /\ nusers # MAX_USERS
  <2> DEFINE u == mng[c].cmd.user
  <2>1. PICK b \in Block : heap[b] = Free /\ SetTable(addUser(Table, u, b))
    BY <1>2 DEF add_user
  <2>2. u \in Account
    BY <1>2 DEF SessionTypes
  <2>3. nusers < MAX_USERS
    BY <1>2, MaxUsersAssumption DEF TableInv, TableTypes
  <2>4. UNCHANGED <<settings, socks>>
    BY <1>2 DEF add_user
  <2> HIDE DEF u
  <2>5. AccountList' = Append(AccountList, u) /\ Len(AccountList) = nusers
    BY <2>1, <2>2, <2>3, AddAppends, ListOfAccounts
  <2>6. \A s \in Socks : SessionOf(s)' = SessionOf(s)
    BY <2>4 DEF SessionOf
  <2>7. Accounts!Add(u)
    BY <2>3, <2>4, <2>5, <2>6 DEF Accounts!Add, AccountList, settings
  <2> QED
    BY <2>2, <2>7 DEF Accounts!Next, Accounts!Account, Account
<1>3. CASE mng[c].cmd.op = "delete" /\ delete_user(c)
  <2> DEFINE n == mng[c].cmd.name
             k == First(Table, n)
  <2>1. CASE \A i \in Live(Table) : Entry(Table, i).name # n
    <3>1. UNCHANGED <<table, settings, socks>>
      BY <1>3, <2>1 DEF delete_user, deleteUser, SetTable, Table, table
    <3> QED
      BY <3>1, <1>1
  <2>2. CASE \E i \in Live(Table) : Entry(Table, i).name = n
    <3>1. SetTable(deleteUser(Table, n)) /\ Shift(k) /\ UNCHANGED settings
      BY <1>3, <2>2 DEF delete_user
    <3>2. /\ k + 1 \in 1..nusers /\ AccountList[k + 1].name = n
          /\ \A j \in 1..((k + 1) - 1) : AccountList[j].name # n
          /\ AccountList' = RemoveAt(AccountList, k + 1)
      BY <2>2, <3>1, DeleteRemoves
    <3>3. AccountList \in Seq(Account) /\ Len(AccountList) = nusers
      BY ListOfAccounts
    <3> HIDE DEF n, k
    <3>4. n \in Names
      <4>1. AccountList[k + 1] \in Account
        BY <3>2, <3>3
      <4> QED
        BY <3>2, <4>1 DEF Account
    <3>5. \A s \in Socks : SessionOf(s)' = SessionOf(s)
      <4>1. \A s \in Socks : /\ socks'[s].st = socks[s].st /\ socks'[s].method = socks[s].method
                             /\ socks'[s].who = socks[s].who
        BY <3>1 DEF Shift, With, SockTypes, SockFields
      <4> QED
        BY <4>1 DEF SessionOf
    <3>6. Accounts!Delete(n)
      BY <3>1, <3>2, <3>3, <3>5
         DEF Accounts!Delete, AccountList, settings, RemoveAt, Accounts!RemoveAt
    <3> QED
      BY <3>4, <3>6 DEF Accounts!Next
  <2> QED
    BY <2>1, <2>2
<1>4. CASE disableAuth(c) \/ disablePasswordDissectors(c)
  <2>1. auth_method' \in {"user", "none"}
    BY <1>4 DEF disableAuth, disablePasswordDissectors, RegistryInv, SettingsOK
  <2>2. password_dissectors' \in BOOLEAN
    BY <1>4 DEF disableAuth, disablePasswordDissectors, RegistryInv, SettingsOK
  <2>3. UNCHANGED <<table, socks>>
    BY <1>4 DEF disableAuth, disablePasswordDissectors
  <2>4. \A s \in Socks : SessionOf(s)' = SessionOf(s)
    BY <2>3 DEF SessionOf
  <2>5. Accounts!Configure
    BY <2>1, <2>2, <2>3, <2>4 DEF Accounts!Configure, table, Entry, Table
  <2> QED
    BY <2>5 DEF Accounts!Next
<1> QED
  BY <1>1, <1>2, <1>3, <1>4
     DEF mng_request_read, process_mng_params_request, add_user, Answer, Dies, Only

\* A step of a SOCKS connection begins, admits or ends a session, or only
\* asks for a login.
LEMMA SocksStep ==
    ASSUME MInv, RegistryInv, NEW s \in Socks,
           socks_hello_init(s) \/ socks_hello(s) \/ socks_login(s) \/ socks_close(s)
    PROVE  Accounts!Next \/ UNCHANGED Accounts!vars
<1> USE DEF MInv, RegistryInv
<1>1. UNCHANGED <<table, settings>>
  BY DEF socks_hello_init, socks_hello, socks_login, checkCredentials, socks_close, Sock
<1>2. UNCHANGED <<AccountList, auth_method, password_dissectors>>
  BY <1>1 DEF table, settings, AccountList, Entry, Table
<1>3. /\ DOMAIN socks' = Socks
      /\ \A t \in Socks : t # s => socks'[t] = socks[t]
  BY DEF socks_hello_init, socks_hello, socks_login, checkCredentials, socks_close, Sock, SockTypes
<1>4. ASSUME NEW v, SessionOf(s)' = v PROVE SessionMap' = [SessionMap EXCEPT ![s] = v]
  <2>1. \A t \in Socks : t # s => SessionOf(t)' = SessionOf(t)
    BY <1>3 DEF SessionOf
  <2> QED
    BY <1>4, <2>1 DEF SessionMap
<1>5. CASE socks_hello_init(s)
  <2>1. socks'[s].st = "HELLO" /\ socks'[s].method = auth_method /\ socks[s].st = "FREE"
    BY <1>5 DEF socks_hello_init, Sock, With, SockTypes, SockFields
  <2>2. /\ SessionOf(s) = [kind |-> "out", who |-> Nobody]
        /\ SessionOf(s)' = [kind |-> auth_method, who |-> Nobody]
    BY <2>1 DEF SessionOf
  <2>3. SessionMap[s] = [kind |-> "out", who |-> Nobody]
    BY <2>2 DEF SessionMap
  <2>4. [SessionMap EXCEPT ![s].kind = auth_method]
           = [SessionMap EXCEPT ![s] = [kind |-> auth_method, who |-> Nobody]]
    <3>1. [[kind |-> "out", who |-> Nobody] EXCEPT !.kind = auth_method]
             = [kind |-> auth_method, who |-> Nobody]
      OBVIOUS
    <3>2. [SessionMap EXCEPT ![s].kind = auth_method]
             = [SessionMap EXCEPT ![s] = [SessionMap[s] EXCEPT !.kind = auth_method]]
      BY DEF SessionMap
    <3> QED
      BY <2>3, <3>1, <3>2, Zenon
  <2>5. SessionMap' = [SessionMap EXCEPT ![s].kind = auth_method]
    BY <1>4, <2>2, <2>4
  <2>6. Accounts!Begin(s)
    BY <1>2, <2>3, <2>5 DEF Accounts!Begin, Accounts!Out, AccountList, SessionMap
  <2> QED
    BY <2>6 DEF Accounts!Next
<1>6. CASE socks_hello(s)
  <2>1. /\ socks[s].st = "HELLO" /\ socks'[s].method = socks[s].method
        /\ socks'[s].st = IF socks[s].method = "user" THEN "LOGIN" ELSE "REQUEST"
    BY <1>6 DEF socks_hello, Sock, With, SockTypes, SockFields
  <2>2. SessionOf(s)' = SessionOf(s)
    BY <2>1 DEF SessionOf, SockKinds
  <2>3. \A t \in Socks : SessionOf(t)' = SessionOf(t)
    BY <1>3, <2>2 DEF SessionOf
  <2> QED
    BY <1>1, <2>3, RegistryStutters
<1>7. CASE socks_login(s)
  <2>1. PICK i \in Live(Table) : checkCredentials(s, i)
    BY <1>7 DEF socks_login
  <2>2. /\ socks[s].st = "LOGIN" /\ socks'[s].method = "user" /\ socks'[s].st = "REQUEST"
        /\ socks'[s].who = Entry(Table, i)
    BY <1>7, <2>1 DEF socks_login, checkCredentials, Sock, With, SockTypes, SockFields, SockKinds
  <2>3. /\ SessionOf(s) = [kind |-> "user", who |-> Nobody]
        /\ SessionOf(s)' = [kind |-> "admitted", who |-> Entry(Table, i)]
    BY <2>2 DEF SessionOf
  <2>4. nusers \in Nat
    BY MaxUsersAssumption DEF TableInv, TableTypes
  <2>5. i + 1 \in 1..nusers /\ (i + 1) - 1 = i
    BY <2>4 DEF Live, Table
  <2>6. i + 1 \in 1..Len(AccountList) /\ AccountList[i + 1] = Entry(Table, i)
    <3>1. Len(AccountList) = nusers
      BY ListOfAccounts
    <3> QED
      BY <2>5, <3>1 DEF AccountList
  <2>7. \E j \in 1..Len(AccountList) :
           SessionMap' = [SessionMap EXCEPT ![s] = [kind |-> "admitted", who |-> AccountList[j]]]
    BY <1>4, <2>3, <2>6
  <2>8. SessionMap[s].kind = "user"
    BY <2>3 DEF SessionMap
  <2>9. Accounts!Admit(s)
    BY <1>2, <2>7, <2>8 DEF Accounts!Admit, AccountList, SessionMap
  <2> QED
    BY <2>9 DEF Accounts!Next
<1>8. CASE socks_close(s)
  <2>1. socks'[s].st = "FREE" /\ socks[s].st # "FREE"
    BY <1>8 DEF socks_close, NoSocks, SockTypes
  <2>2. SessionOf(s)' = [kind |-> "out", who |-> Nobody] /\ SessionOf(s).kind # "out"
    BY <2>1 DEF SessionOf, SockKinds
  <2>3. SessionMap[s] # [kind |-> "out", who |-> Nobody]
    BY <2>2 DEF SessionMap
  <2>4. SessionMap' = [SessionMap EXCEPT ![s] = [kind |-> "out", who |-> Nobody]]
    BY <1>4, <2>2
  <2>5. Accounts!Leave(s)
    BY <1>2, <2>3, <2>4 DEF Accounts!Leave, Accounts!Out, AccountList, SessionMap
  <2> QED
    BY <2>5 DEF Accounts!Next
<1> QED
  BY <1>5, <1>6, <1>7, <1>8

\* Every step of the service is a step of the registry, or one it does not see.
LEMMA RegistryStep ==
    ASSUME MInv, RegistryInv, [Next]_vars
    PROVE  [Accounts!Next]_(Accounts!vars)
<1>1. ASSUME UNCHANGED <<table, settings, socks>> PROVE UNCHANGED Accounts!vars
  BY <1>1, RegistryStutters DEF SessionOf
<1>2. CASE UNCHANGED vars
  BY <1>1, <1>2 DEF vars, table, settings
<1> QED
  BY <1>1, <1>2, SessionsOnly, CommandStep, SocksStep DEF Next, Server

\* RegistrySpec for every table size, any accounts and connections: addUser,
\* deleteUser and the handlers that share users[] act as one list, a login is
\* judged by the list as it stands, and a session keeps the method that was
\* set when it began (hello_read_init).
THEOREM ImplementsRegistry == Spec => RegistrySpec
<1>1. Init => Accounts!Init /\ RegistryInv
  BY RegistryInit
<1> QED
  BY <1>1, LoginInit, LoginNext, TableInit, TableNext, RegistryInvNext, RegistryStep, PTL
     DEF Spec, RegistrySpec, Accounts!Spec

=============================================================================
