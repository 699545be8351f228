----------------------------- MODULE EventStore -----------------------------
(***************************************************************************)
(* What a storage backend promises the collector: an event it took stays   *)
(* pending until it has been written to the disk, and what has been        *)
(* written stays.  Only the end of the process takes pending events away,  *)
(* and only a process that runs does anything.  An event is the number of  *)
(* its write().                                                            *)
(***************************************************************************)
EXTENDS Integers

CONSTANT MaxEvents

VARIABLES up,       \* does the process run
          offered,  \* calls of write()
          pending,  \* events kept in memory only
          durable,  \* events written to the disk
          gone      \* events refused, or pending when a process ended

vars == <<up, offered, pending, durable, gone>>

Init == up = TRUE /\ offered = 0 /\ pending = {} /\ durable = {} /\ gone = {}

\* Some of the events in hand become durable, the others stay pending.
Keep(inHand) ==
    /\ durable \subseteq durable'
    /\ durable' \subseteq durable \cup inHand
    /\ pending' = inHand \ durable'

\* write() takes the event; it may flush.
Write == /\ up
         /\ offered < MaxEvents
         /\ offered' = offered + 1
         /\ Keep(pending \cup {offered + 1})
         /\ UNCHANGED <<up, gone>>

\* write() raises on an event that it cannot encode.
Refuse == /\ up
          /\ offered < MaxEvents
          /\ offered' = offered + 1
          /\ gone' = gone \cup {offered + 1}
          /\ UNCHANGED <<up, pending, durable>>

Flush == up /\ Keep(pending) /\ UNCHANGED <<up, offered, gone>>

\* The process ends and what is only in memory goes with it.
End == /\ up
       /\ up' = FALSE
       /\ gone' = gone \cup pending
       /\ pending' = {}
       /\ UNCHANGED <<offered, durable>>

Restart == ~up /\ up' = TRUE /\ UNCHANGED <<offered, pending, durable, gone>>

Next == Write \/ Refuse \/ Flush \/ End \/ Restart

Spec == Init /\ [][Next]_vars
=============================================================================
