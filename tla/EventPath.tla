------------------------------ MODULE EventPath ------------------------------
(***************************************************************************)
(* The way of an event through the application, put together from the      *)
(* modules of its components as app.py puts them together: the watcher of  *)
(* LogBridge publishes the lines of Cowrie's log into EventCollector, the  *)
(* collector's one consumer is the write() of JSONLStorage, and stop()     *)
(* stops the bridge, then the collector, then flushes.  Processes are      *)
(* killed and started again.                                               *)
(*                                                                         *)
(* Each action is a step of one component, or of two that call each other. *)
(* The lines of the log are written whole and it is not rotated here: what *)
(* becomes of broken lines and rotations is decided within LogBridge.  On  *)
(* the disk is what JSONLStorage has recorded, a line that it wrote behind *)
(* a broken one included: LossIsTorn there says how many those can be.     *)
(***************************************************************************)
EXTENDS Integers, Sequences, FiniteSets, SequencesExt

CONSTANTS MaxLines,       \* bound on the lines of the log
          QueueSize,      \* aggregator.event_queue_size
          FlushInterval,  \* aggregator.flush_interval
          MaxFailures,    \* bound on the flushes that fail
          MaxLives        \* bound on the processes, one after the other

ASSUME PathAssumption ==
    /\ MaxLines \in Nat /\ QueueSize \in Nat
    /\ FlushInterval \in Nat /\ MaxFailures \in Nat
    /\ MaxLives \in Nat \ {0}

VARIABLES \* those of LogBridge, EventCollector and JSONLStorage
          base, end, rotations, watch, pos, batch, published, excused, rotated,
          stat, moved, raced,
          queue, unfinished, total, running, phase, atStop, timedOut, pub, cons,
          item, cancel, fate,
          buffer, age, day, files, torn, up, offered, gone, failures, tears, waited,
          stage,   \* how far start() and stop() of the application have come
          lives,   \* processes so far
          before,  \* history: lines published by earlier processes
          lineOf   \* history: the line that each write() of the storage stores

B == INSTANCE LogBridge WITH MaxRotations <- 0, Splits <- FALSE
C == INSTANCE EventCollector WITH Publishers <- {"watcher"}, Consumers <- {"store"},
                                  MaxEvents <- MaxLines
S == INSTANCE JSONLStorage WITH MaxEvents <- MaxLines, Days <- 1

bridge == <<base, end, rotations, watch, pos, batch, published, excused, rotated,
            stat, moved, raced>>
collector == <<queue, unfinished, total, running, phase, atStop, timedOut, pub,
               cons, item, cancel, fate>>
storage == <<buffer, age, day, files, torn, up, offered, gone, failures, tears, waited>>
appVars == <<stage, lives, before, lineOf>>
vars == <<bridge, collector, storage, appVars>>

Init == /\ B!Init /\ C!Init /\ S!Init
        /\ stage = "new"
        /\ lives = 1
        /\ before = 0
        /\ lineOf = <<>>

\* write() does not suspend: between the delivery of an event to the consumer
\* and the end of its write() no other task runs.  Nor does one run between the
\* two steps of _read_new_lines(), when only the writer of the log does.
Calm == cons["store"] # "handling"
Suspended == watch # "opening"

(***************************************************************************)
(* Steps of one component                                                  *)
(***************************************************************************)
Log == B!AppendUnits /\ UNCHANGED <<collector, storage, appVars>>

Clock == S!Tick /\ UNCHANGED <<bridge, collector, appVars>>

\* The watcher does anything but publish, unless it is suspended in put().
Watch == /\ Calm /\ pub["watcher"] = "idle"
         /\ \/ B!ReadNothing \/ B!Stat \/ B!Read \/ B!OpenFails
            \/ B!Drop \/ B!Raise \/ B!Wake
         /\ UNCHANGED <<collector, storage, appVars>>

Consume == /\ up /\ Suspended
           /\ \/ C!Begin("store") \/ C!Get("store") \/ C!Deliver("store")
              \/ C!GetTimeout("store") \/ C!LeaveLoop("store")
           /\ UNCHANGED <<bridge, storage, appVars>>

(***************************************************************************)
(* Calls from one component to another                                     *)
(***************************************************************************)
\* _on_honeypot_event() puts the event of the next line of the batch.
Publish == /\ Calm /\ watch = "publishing" /\ pub["watcher"] = "idle"
           /\ C!Publish("watcher")
           /\ IF C!Full THEN UNCHANGED bridge ELSE B!Publish
           /\ UNCHANGED <<storage, appVars>>

PublishLater == /\ Calm /\ C!Resume("watcher")
                /\ B!Publish
                /\ UNCHANGED <<storage, appVars>>

\* _store_event(), of the event that Consume has just delivered; it raises when
\* its flush fails, and the collector goes on.
Store == /\ C!Finish("store")
         /\ S!Write
         /\ LET outcome == IF failures' > failures THEN "failed" ELSE "handled"
            IN  fate' = [fate EXCEPT ![item["store"]] = outcome]
         /\ lineOf' = Append(lineOf, published[before + item["store"]])
         /\ UNCHANGED <<bridge, stage, lives, before>>

(***************************************************************************)
(* start() and stop() of app.py                                            *)
(***************************************************************************)
Start == /\ up /\ stage = "new"
         /\ C!Start /\ B!Start
         /\ stage' = "serving"
         /\ UNCHANGED <<storage, lives, before, lineOf>>

\* The watcher is cancelled wherever it is suspended, in put() too.
StopBridge == /\ Calm /\ Suspended /\ stage = "serving"
              /\ B!Stop
              /\ IF pub["watcher"] = "waiting" THEN C!CancelPublish("watcher")
                                               ELSE UNCHANGED collector
              /\ stage' = "unbridged"
              /\ UNCHANGED <<storage, lives, before, lineOf>>

\* Mutant: the collector is stopped while the bridge runs.
StopCollectorEarly == /\ Calm /\ stage \in {"serving", "unbridged"} /\ C!Stop
                      /\ UNCHANGED <<bridge, storage, appVars>>

StopCollector == /\ Calm /\ stage = "unbridged" /\ C!Stop
                 /\ UNCHANGED <<bridge, storage, appVars>>

CollectorStops == /\ Calm /\ up /\ C!StopStep
                  /\ UNCHANGED <<bridge, storage, appVars>>

\* flush() and close() of the storage; a failure leaves stop() with an error.
FlushStorage == /\ stage = "unbridged" /\ phase = "stopped"
                /\ S!Flush
                /\ stage' = IF failures' > failures THEN "failed" ELSE "stopped"
                /\ UNCHANGED <<bridge, collector, lives, before, lineOf>>

\* The process ends after stop(), or is killed at any time.
End == /\ S!End
       /\ IF watch = "off" THEN UNCHANGED bridge ELSE B!Stop
       /\ stage' = "down"
       /\ UNCHANGED <<collector, lives, before, lineOf>>

\* The next process has a new collector; the log and the files are the old ones.
Restart ==
    /\ stage = "down" /\ lives < MaxLives
    /\ lives' = lives + 1
    /\ stage' = "new"
    /\ before' = Len(published)
    /\ S!Restart
    /\ queue' = <<>> /\ unfinished' = 0 /\ total' = 0
    /\ running' = FALSE /\ phase' = "new" /\ atStop' = 0 /\ timedOut' = FALSE
    /\ pub' = [pub EXCEPT !["watcher"] = "idle"]
    /\ cons' = [cons EXCEPT !["store"] = "off"]
    /\ item' = [item EXCEPT !["store"] = 0]
    /\ cancel' = [cancel EXCEPT !["store"] = FALSE]
    /\ fate' = [e \in C!Events |-> "none"]
    /\ UNCHANGED <<bridge, lineOf>>

Next == \/ Log \/ Clock \/ Watch \/ Consume
        \/ Publish \/ PublishLater \/ Store
        \/ Start \/ StopBridge \/ StopCollector \/ CollectorStops \/ FlushStorage
        \/ End \/ Restart

Spec == Init /\ [][Next]_vars

(***************************************************************************)
(* Properties                                                              *)
(***************************************************************************)
Lines == 1..MaxLines

Place(n) ==
    IF n \in {lineOf[w] : w \in S!Recorded} THEN "disk"
    ELSE IF up /\ n \in {published[i] : i \in before + 1..Len(published)} THEN "taken"
    ELSE IF n \in Range(published) \cup excused THEN "lost"
    ELSE IF n \in batch THEN "hand"
    ELSE "log"

\* The components together keep the promise of the pipeline: an event that the
\* collector has accepted reaches the disk, in the order of the log, whatever
\* flush fails and however the stages of stop() are interleaved with the
\* watcher and the consumer, unless the process ends before.
Path == INSTANCE EventPipeline WITH place <- [n \in Lines |-> Place(n)]
PathSpec == Path!Spec

\* stop() leaves nothing behind: no publisher is blocked on the queue of a
\* collector that has stopped, where nobody would take anything any more, and,
\* unless the collector gave up on join(), every event it accepted is on disk
\* when stop() returns.
Drained ==
    /\ up /\ phase = "stopped" => pub["watcher"] = "idle"
    /\ stage = "stopped" /\ ~timedOut => \A n \in Lines : Place(n) \notin {"hand", "taken"}
=============================================================================
