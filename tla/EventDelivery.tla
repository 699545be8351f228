--------------------------- MODULE EventDelivery ---------------------------
(***************************************************************************)
(* What the event collector promises to the components that publish into   *)
(* it: an accepted event is settled at most once, its fate never changes,  *)
(* and it overtakes fewer older events than there are consumers, so that   *)
(* with the one consumer the application registers events are settled in   *)
(* the order they were accepted.  An event is the number of its acceptance.*)
(***************************************************************************)
EXTENDS Integers, FiniteSets

CONSTANTS MaxEvents,  \* bound on the events accepted
          Width       \* how many events may be in hand at once

Fates == {"none", "handled", "failed", "cut"}

VARIABLES total,  \* events accepted so far
          fate    \* what became of each event

vars == <<total, fate>>

Init == /\ total = 0
        /\ fate = [e \in 1..MaxEvents |-> "none"]

\* The older events that are still unsettled when e is settled.
Overtaken(e) == {d \in 1..(e - 1) : fate[d] = "none"}

Accept == /\ total < MaxEvents
          /\ total' = total + 1
          /\ UNCHANGED fate

Settle(e) == /\ e <= total
             /\ fate[e] = "none"
             /\ Cardinality(Overtaken(e)) < Width
             /\ \E f \in Fates \ {"none"} : fate' = [fate EXCEPT ![e] = f]
             /\ UNCHANGED total

Next == Accept \/ \E e \in 1..MaxEvents : Settle(e)

Spec == Init /\ [][Next]_vars
=============================================================================
