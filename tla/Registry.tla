------------------------------ MODULE Registry ------------------------------
(***************************************************************************)
(* What the management service promises: a bounded list of accounts, two   *)
(* settings, and SOCKS sessions that are admitted by the list and the      *)
(* setting as they stand.  Management shows that the array of pointers and *)
(* the handlers that share it implement this.                              *)
(***************************************************************************)
EXTENDS Naturals, Sequences, SequencesExt

CONSTANTS Names, Passes, MAX_USERS, Socks, Nobody

Account == [name : Names, pass : Passes]

VARIABLES accounts,   \* the accounts, oldest first
          auth,       \* "user": new sessions must log in; "none": they need not
          dissectors, \* whether passwords are looked for
          session     \* session[s]: how far the SOCKS session got, and as whom

vars == <<accounts, auth, dissectors, session>>

Out == [kind |-> "out", who |-> Nobody]

Init ==
    /\ accounts \in BoundedSeq(Account, MAX_USERS)
    /\ auth = "user" /\ dissectors \in BOOLEAN
    /\ session = [s \in Socks |-> Out]

Add(u) ==
    /\ Len(accounts) < MAX_USERS
    /\ accounts' = Append(accounts, u)
    /\ UNCHANGED <<auth, dissectors, session>>

\* The oldest account of that name goes, the others keep their order.
Delete(n) ==
    /\ \E i \in 1..Len(accounts) :
         /\ accounts[i].name = n
         /\ \A j \in 1..(i - 1) : accounts[j].name # n
         /\ accounts' = RemoveAt(accounts, i)
    /\ UNCHANGED <<auth, dissectors, session>>

Configure ==
    /\ auth' \in {"user", "none"} /\ dissectors' \in BOOLEAN
    /\ UNCHANGED <<accounts, session>>

\* A session is bound to the setting in force when it begins.
Begin(s) ==
    /\ session[s] = Out
    /\ session' = [session EXCEPT ![s].kind = auth]
    /\ UNCHANGED <<accounts, auth, dissectors>>

Admit(s) ==
    /\ session[s].kind = "user"
    /\ \E i \in 1..Len(accounts) :
         session' = [session EXCEPT ![s] = [kind |-> "admitted", who |-> accounts[i]]]
    /\ UNCHANGED <<accounts, auth, dissectors>>

Leave(s) ==
    /\ session[s] # Out
    /\ session' = [session EXCEPT ![s] = Out]
    /\ UNCHANGED <<accounts, auth, dissectors>>

Next ==
    \/ \E u \in Account : Add(u)
    \/ \E n \in Names : Delete(n)
    \/ Configure
    \/ \E s \in Socks : Begin(s) \/ Admit(s) \/ Leave(s)

Spec == Init /\ [][Next]_vars
=============================================================================
