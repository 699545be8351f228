---------------------------- MODULE SQLiteStorage ----------------------------
(***************************************************************************)
(* SQLiteStorage of aggregator/storage.py: the buffering of JSONLStorage,  *)
(* and a flush that inserts the buffered events one by one in one          *)
(* transaction and commits.  The first exception leaves the loop: nothing  *)
(* rolls back, so the rows inserted so far stay in the open transaction of *)
(* the connection, which the next flush goes on with.                      *)
(*                                                                         *)
(* An event is the number of its write().  A poison event is one whose     *)
(* insertion always raises: its data has no JSON form, a column has a type *)
(* that sqlite3 cannot bind, or its timestamp is None, which the column's  *)
(* NOT NULL refuses.  The sessions table is written in the same            *)
(* transaction as the events table and is not kept apart from it.          *)
(***************************************************************************)
EXTENDS Integers, Sequences, FiniteSets, SequencesExt

CONSTANTS FlushInterval,  \* _flush_interval, in clock ticks
          MaxEvents,      \* bound on the calls of write()
          MaxRaises       \* bound on the flushes that raise

ASSUME SQLiteAssumption ==
    /\ FlushInterval \in Nat
    /\ MaxEvents \in Nat
    /\ MaxRaises \in Nat

VARIABLES buffer,   \* _buffer
          age,      \* time since _last_flush, saturating at FlushInterval
          txn,      \* rows inserted and not committed
          rows,     \* committed rows of the events table
          up,       \* does the process run
          offered,  \* history: calls of write()
          poison,   \* history: the events that cannot be inserted
          gone,     \* history: events lost when the process ended
          raised,   \* history: flushes that raised
          faults    \* history: those that the database made raise

vars == <<buffer, age, txn, rows, up, offered, poison, gone, raised, faults>>

Events == 1..MaxEvents

TypeOK == /\ buffer \in Seq(Events)
          /\ age \in 0..FlushInterval
          /\ txn \in Seq(Events)
          /\ rows \in Seq(Events)
          /\ up \in BOOLEAN
          /\ offered \in 0..MaxEvents
          /\ poison \subseteq Events
          /\ gone \subseteq Events
          /\ raised \in 0..MaxRaises
          /\ faults \in 0..raised

Init == /\ buffer = <<>>
        /\ age = 0
        /\ txn = <<>>
        /\ rows = <<>>
        /\ up = TRUE
        /\ offered = 0
        /\ poison = {}
        /\ gone = {}
        /\ raised = 0
        /\ faults = 0

\* Mutant: every event can be inserted.
InsertableAll(batch, bad) == Len(batch)

\* How many events of batch are inserted before the first poison one.
Insertable(batch, bad) ==
    CHOOSE k \in 0..Len(batch) :
        /\ \A i \in 1..k : batch[i] \notin bad
        /\ k < Len(batch) => batch[k + 1] \in bad

\* _do_flush() of batch commits: this needs every row inserted.
FlushOK(batch, bad) ==
    /\ Insertable(batch, bad) = Len(batch)
    /\ rows' = IF batch = <<>> THEN rows ELSE rows \o txn \o batch
    /\ txn' = IF batch = <<>> THEN txn ELSE <<>>
    /\ buffer' = <<>>
    /\ age' = IF batch = <<>> THEN age ELSE 0
    /\ UNCHANGED <<raised, faults>>

\* Mutant: every row is committed as it is inserted.
FlushPoisonedCommits(batch, bad) ==
    /\ raised < MaxRaises
    /\ LET k == Insertable(batch, bad)
       IN  /\ k < Len(batch)
           /\ rows' = rows \o txn \o SubSeq(batch, 1, k)
    /\ txn' = <<>>
    /\ raised' = raised + 1
    /\ buffer' = batch
    /\ UNCHANGED <<age, faults>>

\* Mutant: the buffer is cleared before the rows are inserted.
FlushPoisonedCleared(batch, bad) ==
    /\ raised < MaxRaises
    /\ Insertable(batch, bad) < Len(batch)
    /\ raised' = raised + 1
    /\ buffer' = <<>>
    /\ UNCHANGED <<age, txn, rows, faults>>

\* A poison event raises after k rows: they stay in the open transaction.
FlushPoisoned(batch, bad) ==
    /\ raised < MaxRaises
    /\ LET k == Insertable(batch, bad)
       IN  /\ k < Len(batch)
           /\ txn' = txn \o SubSeq(batch, 1, k)
    /\ raised' = raised + 1
    /\ buffer' = batch
    /\ UNCHANGED <<age, rows, faults>>

\* The database raises in an insertion or in the commit (locked, disk full);
\* some of its errors roll the transaction back.
FlushFaults(batch, bad) ==
    /\ batch # <<>>
    /\ raised < MaxRaises
    /\ \E k \in 0..Insertable(batch, bad) :
          txn' \in {txn \o SubSeq(batch, 1, k), <<>>}
    /\ raised' = raised + 1
    /\ faults' = faults + 1
    /\ buffer' = batch
    /\ UNCHANGED <<age, rows>>

DoFlush(batch, bad) == \/ FlushOK(batch, bad)
                       \/ FlushPoisoned(batch, bad)
                       \/ FlushFaults(batch, bad)

Write ==
    /\ up
    /\ offered < MaxEvents
    /\ offered' = offered + 1
    /\ poison' \in {poison, poison \cup {offered + 1}}
    /\ LET batch == Append(buffer, offered + 1)
       IN  IF age >= FlushInterval
           THEN DoFlush(batch, poison')
           ELSE buffer' = batch /\ UNCHANGED <<age, txn, rows, raised, faults>>
    /\ UNCHANGED <<up, gone>>

\* flush() and close(): close() only flushes, the connection stays open.
Flush == /\ up
         /\ DoFlush(buffer, poison)
         /\ UNCHANGED <<up, offered, poison, gone>>

\* The process exits or is killed: the open transaction is rolled back.
End == /\ up
       /\ up' = FALSE
       /\ gone' = gone \cup (Range(buffer) \ Range(rows))
       /\ buffer' = <<>>
       /\ txn' = <<>>
       /\ UNCHANGED <<age, rows, offered, poison, raised, faults>>

\* Mutant: the last flush was at the epoch.
RestartAtEpoch ==
    /\ ~up
    /\ up' = TRUE
    /\ age' = FlushInterval + 1
    /\ UNCHANGED <<buffer, txn, rows, offered, poison, gone, raised, faults>>

Restart == /\ ~up
           /\ up' = TRUE
           /\ age' = 0
           /\ UNCHANGED <<buffer, txn, rows, offered, poison, gone, raised, faults>>

Tick == /\ up
        /\ age < FlushInterval
        /\ age' = age + 1
        /\ UNCHANGED <<buffer, txn, rows, up, offered, poison, gone, raised, faults>>

Next == Write \/ Flush \/ End \/ Restart \/ Tick

Spec == Init /\ [][Next]_vars

(***************************************************************************)
(* Properties                                                              *)
(***************************************************************************)
\* Unless the database itself raised, the table and the buffer are exactly the
\* accepted events in the order they were written: what a poisoned flush left
\* in the open transaction is never committed.
ExactRows ==
    faults = 0 =>
        LET all == rows \o buffer
        IN  /\ Range(all) = (1..offered) \ gone
            /\ \A i, j \in 1..Len(all) : i < j => all[i] < all[j]

\* No poison event is ever stored, and while one is buffered no event is: it
\* holds back every event written after it until the process ends.
PoisonFreezes == [][/\ Range(rows') \cap poison' = {}
                    /\ Range(buffer) \cap poison # {} => rows' = rows]_vars

\* The backend keeps the promise of a store: whatever raises, an event stays in
\* the buffer until its row is committed or the process ends.
Store == INSTANCE EventStore WITH pending <- Range(buffer) \ Range(rows),
                                  durable <- Range(rows)
StoreSpec == Store!Spec
=============================================================================
