-------------------------------- MODULE Relay --------------------------------
(***************************************************************************)
(* What the COPY stage promises, without buffers, interests or a selector: *)
(* two byte streams, one from each side to the other.  A stream accepts    *)
(* bytes from its source, hands them to its sink in order and without gaps *)
(* or repetitions, and is shut once.  The relay is over exactly when both  *)
(* streams are shut.  A byte is named by its position in its stream.       *)
(***************************************************************************)
EXTENDS Integers, Sequences

CONSTANTS Side,     \* the two sources; a stream is named by its source
          Capacity  \* bytes accepted and not delivered that a stream may hold

VARIABLES accepted,  \* accepted[s]: bytes taken from source s
          delivered, \* delivered[s]: the bytes of s handed to the other side
          open,      \* the streams not shut yet
          over       \* the relay has ended

vars == <<accepted, delivered, open, over>>

Init ==
    /\ accepted \in [Side -> 0..Capacity]
    /\ delivered = [s \in Side |-> << >>]
    /\ open = Side
    /\ over = FALSE

Accept(s) ==
    /\ s \in open
    /\ \E n \in 1..Capacity :
          /\ accepted[s] + n - Len(delivered[s]) <= Capacity
          /\ accepted' = [accepted EXCEPT ![s] = @ + n]
    /\ UNCHANGED <<delivered, open, over>>

Deliver(s) ==
    /\ s \in open
    /\ \E n \in 1..Capacity :
          /\ Len(delivered[s]) + n <= accepted[s]
          /\ delivered' = [delivered EXCEPT ![s] =
                              @ \o [i \in 1..n |-> Len(delivered[s]) + i]]
    /\ UNCHANGED <<accepted, open, over>>

Shut(s) ==
    /\ s \in open
    /\ open' = open \ {s}
    /\ over' = (open' = {})
    /\ UNCHANGED <<accepted, delivered>>

Next == \E s \in Side : Accept(s) \/ Deliver(s) \/ Shut(s)

\* What may happen.
Safety == Init /\ [][Next]_vars

\* And what must: an open stream does not sit on bytes it has accepted.
Spec == Safety /\ \A s \in Side : WF_vars(Deliver(s))
=============================================================================
