---------------------------- MODULE JSONLStorage ----------------------------
(***************************************************************************)
(* JSONLStorage of aggregator/storage.py: events are encoded and buffered; *)
(* a write() that finds the last flush FlushInterval or more ago appends   *)
(* the buffer to the file of the current day.  No method suspends while it *)
(* holds the lock, so each call is one step.                               *)
(*                                                                         *)
(* An event is the number of its write().  A file is the sequence of its   *)
(* lines, -e standing for the line of event e behind a broken line, which  *)
(* no reader can decode.  A write() to the file that fails may have put    *)
(* part of the batch there, and may have broken off within a line; a       *)
(* process killed during it is that failure followed by End.               *)
(***************************************************************************)
EXTENDS Integers, Sequences, FiniteSets, SequencesExt

CONSTANTS FlushInterval,  \* _flush_interval, in clock ticks
          MaxEvents,      \* bound on the calls of write()
          MaxFailures,    \* bound on the flushes that fail
          Days            \* bound on the dates the process lives through

ASSUME StorageAssumption ==
    /\ FlushInterval \in Nat
    /\ MaxEvents \in Nat
    /\ MaxFailures \in Nat
    /\ Days \in Nat \ {0}

VARIABLES buffer,   \* _buffer
          age,      \* time since _last_flush, saturating at FlushInterval
          day,      \* today's date
          files,    \* lines of the file of each day
          torn,     \* does a file end within a line
          up,       \* does the process run
          offered,  \* history: calls of write()
          gone,     \* history: events refused, or lost when the process ended
          failures, \* history: flushes that failed
          tears,    \* history: those that broke off within a line
          waited    \* history: age of the oldest event in the buffer

vars == <<buffer, age, day, files, torn, up, offered, gone, failures, tears, waited>>
diskVars == <<files, torn>>
histVars == <<failures, tears>>

Events == 1..MaxEvents

TypeOK == /\ buffer \in Seq(Events)
          /\ age \in 0..FlushInterval
          /\ day \in 1..Days
          /\ files \in [1..Days -> Seq(Events \cup {-e : e \in Events})]
          /\ torn \in [1..Days -> BOOLEAN]
          /\ up \in BOOLEAN
          /\ offered \in 0..MaxEvents
          /\ gone \subseteq Events
          /\ failures \in 0..MaxFailures
          /\ tears \in 0..failures
          /\ waited \in 0..FlushInterval + 1

Init == /\ buffer = <<>>
        /\ age = 0
        /\ day = 1
        /\ files = [d \in 1..Days |-> <<>>]
        /\ torn = [d \in 1..Days |-> FALSE]
        /\ up = TRUE
        /\ offered = 0
        /\ gone = {}
        /\ failures = 0
        /\ tears = 0
        /\ waited = 0

\* Today's file after lines are appended: the first of them continues a line
\* that an earlier write left broken.
Appended(lines) ==
    [files EXCEPT ![day] = IF torn[day] /\ lines # <<>>
                           THEN @ \o <<-Head(lines)>> \o Tail(lines)
                           ELSE @ \o lines]

\* Mutant: the buffer is not cleared.
FlushKeepsBuffer(batch) ==
    /\ files' = Appended(batch)
    /\ torn' = IF batch = <<>> THEN torn ELSE [torn EXCEPT ![day] = FALSE]
    /\ buffer' = batch
    /\ age' = IF batch = <<>> THEN age ELSE 0
    /\ waited' = 0
    /\ UNCHANGED histVars

\* _do_flush() of batch, the buffer together with the event just written.
FlushOK(batch) ==
    /\ files' = Appended(batch)
    /\ torn' = IF batch = <<>> THEN torn ELSE [torn EXCEPT ![day] = FALSE]
    /\ buffer' = <<>>
    /\ age' = IF batch = <<>> THEN age ELSE 0
    /\ waited' = 0
    /\ UNCHANGED histVars

\* Mutant: the buffer is cleared before the file is written.
FlushFailsCleared(batch) ==
    /\ batch # <<>>
    /\ failures < MaxFailures
    /\ failures' = failures + 1
    /\ buffer' = <<>>
    /\ UNCHANGED <<age, waited, tears, diskVars>>

\* Mutant: a flush that fails counts as the last flush.
FlushFailsStamps(batch) ==
    /\ batch # <<>>
    /\ failures < MaxFailures
    /\ failures' = failures + 1
    /\ buffer' = batch
    /\ age' = 0
    /\ UNCHANGED <<waited, tears, diskVars>>

\* The file system fails after k whole lines: the buffer keeps all of them.
FlushFails(batch) ==
    /\ batch # <<>>
    /\ failures < MaxFailures
    /\ \E k \in 0..Len(batch), tear \in BOOLEAN :
          /\ tear => k < Len(batch)
          /\ files' = Appended(SubSeq(batch, 1, k))
          /\ torn' = [torn EXCEPT ![day] = tear \/ (k = 0 /\ @)]
          /\ tears' = IF tear THEN tears + 1 ELSE tears
    /\ failures' = failures + 1
    /\ buffer' = batch
    /\ UNCHANGED <<age, waited>>

Write ==
    /\ up
    /\ offered < MaxEvents
    /\ offered' = offered + 1
    /\ LET batch == Append(buffer, offered + 1)
       IN  IF age >= FlushInterval
           THEN FlushOK(batch) \/ FlushFails(batch)
           ELSE buffer' = batch /\ UNCHANGED <<age, waited, diskVars, histVars>>
    /\ UNCHANGED <<day, up, gone>>

\* json.dumps() raises on an event: it is refused, the buffer is untouched.
Refuse ==
    /\ up
    /\ offered < MaxEvents
    /\ offered' = offered + 1
    /\ gone' = gone \cup {offered + 1}
    /\ UNCHANGED <<buffer, age, day, diskVars, up, histVars, waited>>

\* flush() and close(), which SisyphusGate.stop() calls one after the other.
Flush == /\ up
         /\ FlushOK(buffer) \/ FlushFails(buffer)
         /\ UNCHANGED <<day, up, offered, gone>>

Readable == {e \in Events : \E d \in 1..Days : e \in Range(files[d])}
Recorded == Readable \cup {e \in Events : \E d \in 1..Days : -e \in Range(files[d])}

\* The process exits, after stop() or without it, or is killed.
End == /\ up
       /\ up' = FALSE
       /\ gone' = gone \cup (Range(buffer) \ Recorded)
       /\ buffer' = <<>>
       /\ waited' = 0
       /\ UNCHANGED <<age, day, diskVars, offered, histVars>>

\* Mutant: the last flush was at the epoch.
RestartAtEpoch == /\ ~up
                  /\ up' = TRUE
                  /\ age' = FlushInterval + 1
                  /\ UNCHANGED <<buffer, day, diskVars, offered, gone, histVars, waited>>

\* A new process: __init__() takes the time of its start for the last flush.
Restart == /\ ~up
           /\ up' = TRUE
           /\ age' = 0
           /\ UNCHANGED <<buffer, day, diskVars, offered, gone, histVars, waited>>

Tick == /\ up
        /\ age' = IF age < FlushInterval THEN age + 1 ELSE age
        /\ waited' = IF buffer # <<>> /\ waited <= FlushInterval
                     THEN waited + 1 ELSE waited
        /\ UNCHANGED <<buffer, day, diskVars, up, offered, gone, histVars>>

Midnight == /\ day < Days
            /\ day' = day + 1
            /\ UNCHANGED <<buffer, age, diskVars, up, offered, gone, histVars, waited>>

Next == Write \/ Refuse \/ Flush \/ End \/ Restart \/ Tick \/ Midnight

Spec == Init /\ [][Next]_vars

(***************************************************************************)
(* Properties                                                              *)
(***************************************************************************)
Accepted == (1..offered) \ gone
Rising(s) == \A i, j \in 1..Len(s) : i < j => s[i] < s[j]

\* While no flush has failed, the files of all days in turn, followed by the
\* buffer, are exactly the accepted events in the order they were written.
ExactLog ==
    failures = 0 =>
        /\ (UNION {Range(files[d]) : d \in 1..Days}) \cup Range(buffer) = Accepted
        /\ \A c, d \in 1..Days : c < d => Rising(files[c] \o files[d])
        /\ \A d \in 1..Days : Rising(files[d] \o buffer)

\* A write that breaks off within a line costs at most one event, the first of
\* the batch that is retried on top of it.  Other failures cost none: the
\* buffer is cleared only by a whole write.
LossIsTorn == Cardinality(Accepted \ (Readable \cup Range(buffer))) <= tears

\* The backend keeps the promise of a store: whatever fails, an event stays in
\* the buffer until its line has been written or the process ends.
Store == INSTANCE EventStore WITH pending <- Range(buffer) \ Recorded,
                                  durable <- Recorded
StoreSpec == Store!Spec

\* The interval bounds the wait of what is buffered as far as write() can: a
\* write() leaves events that have waited for the interval in the buffer only
\* if its flush failed, or if it was itself refused before it looked at the
\* clock.  A failed flush does not postpone the next one.  Without another
\* write() nothing bounds the wait.
WriteBoundsWait ==
    [][offered' > offered /\ waited >= FlushInterval /\ buffer # <<>> =>
           buffer' = <<>> \/ failures' > failures \/ gone' # gone]_vars
=============================================================================
