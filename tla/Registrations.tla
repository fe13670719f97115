---------------------------- MODULE Registrations ----------------------------
(***************************************************************************)
(* What the selector promises to the rest of the program, and what Proxy   *)
(* assumes of it: a descriptor is registered with an interest and an       *)
(* owner, an event goes to the owner the descriptor has at that moment if  *)
(* its interest asks for it, and an owner is released once for each of its *)
(* registrations.                                                          *)
(***************************************************************************)
EXTENDS Naturals

CONSTANTS Fds, Data, Nobody

Op == {"r", "w"}
Absent == [owner |-> Nobody, int |-> {}]

VARIABLES reg,   \* reg[f]: the registration of descriptor f
          held,  \* held[d]: registrations of d not released yet
          event  \* the event being handled: descriptor, operation and owner

vars == <<reg, held, event>>

NoEvent == [fd |-> 0, op |-> "none", data |-> Nobody]

Init ==
    /\ reg = [f \in Fds |-> Absent]
    /\ held = [d \in Data |-> 0]
    /\ event = NoEvent

Entries == [owner : Data, int : SUBSET Op]

Register(f) ==
    /\ reg[f] = Absent /\ reg'[f] \in Entries
    /\ reg' = [reg EXCEPT ![f] = reg'[f]]
    /\ held' = [held EXCEPT ![reg'[f].owner] = @ + 1]
    /\ UNCHANGED event

SetInterest(f) ==
    /\ reg[f] # Absent /\ reg'[f].int \in SUBSET Op
    /\ reg' = [reg EXCEPT ![f].int = reg'[f].int]
    /\ UNCHANGED <<held, event>>

Unregister(f) ==
    /\ reg[f] # Absent
    /\ reg' = [reg EXCEPT ![f] = Absent]
    /\ held' = [held EXCEPT ![reg[f].owner] = @ - 1]
    /\ UNCHANGED event

Deliver(f, op) ==
    /\ event = NoEvent /\ op \in reg[f].int
    /\ event' = [fd |-> f, op |-> op, data |-> reg[f].owner]
    /\ UNCHANGED <<reg, held>>

Return == event # NoEvent /\ event' = NoEvent /\ UNCHANGED <<reg, held>>

\* Every owner is released.
Destroy ==
    /\ event = NoEvent
    /\ reg' = [f \in Fds |-> Absent]
    /\ held' = [d \in Data |-> 0]
    /\ UNCHANGED event

Next ==
    \/ \E f \in Fds :
         \/ Register(f) \/ SetInterest(f) \/ Unregister(f)
         \/ \E op \in Op : Deliver(f, op)
    \/ Return
    \/ Destroy

Spec == Init /\ [][Next]_vars
=============================================================================
