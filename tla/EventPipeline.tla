---------------------------- MODULE EventPipeline ----------------------------
(***************************************************************************)
(* What the application promises for the lines of the bridged log, from    *)
(* the log to the disk.  The bridge may lose a line until the collector    *)
(* has taken its event, in the order of the log; from then on only the end *)
(* of the process can keep it from the disk, lines reach the disk in the   *)
(* order of the log, and what is on the disk or lost stays there.          *)
(***************************************************************************)
EXTENDS Integers

CONSTANT MaxLines

VARIABLES up,    \* does the process run
          place  \* where the event of each line is

vars == <<up, place>>

Lines == 1..MaxLines
At(p) == {n \in Lines : place[n] = p}
Move(lines, p) == place' = [n \in Lines |-> IF n \in lines THEN p ELSE place[n]]

Init == up = TRUE /\ place = [n \in Lines |-> "log"]

Read == /\ up
        /\ \E lines \in SUBSET At("log") : Move(lines, "hand")
        /\ UNCHANGED up

\* The oldest line in hand, older than all that are taken later.
Accept == /\ up
          /\ \E n \in At("hand") : /\ \A m \in At("hand") : n <= m
                                   /\ \A m \in At("taken") \cup At("disk") : m < n
                                   /\ Move({n}, "taken")
          /\ UNCHANGED up

Lose == /\ \E lines \in SUBSET (At("log") \cup At("hand")) : Move(lines, "lost")
        /\ UNCHANGED up

\* One or more of the taken lines, the oldest ones first.
Persist == /\ up
           /\ \E n \in At("taken") : Move({m \in At("taken") : m <= n}, "disk")
           /\ UNCHANGED up

End == /\ up' = FALSE
       /\ Move(At("hand") \cup At("taken"), "lost")

Restart == up' = TRUE /\ ~up /\ UNCHANGED place

Next == Read \/ Accept \/ Lose \/ Persist \/ End \/ Restart

Spec == Init /\ [][Next]_vars
=============================================================================
