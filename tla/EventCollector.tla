--------------------------- MODULE EventCollector ---------------------------
(***************************************************************************)
(* aggregator/collector.py: publishers await publish(), which puts an      *)
(* event on a bounded asyncio.Queue; consumer tasks compete for the        *)
(* queue's items; stop() joins the queue for at most five seconds, cancels *)
(* the consumer tasks and gathers them.                                    *)
(*                                                                         *)
(* An event is the number of its acceptance: the total-th put.  A step is  *)
(* what one task does between two suspension points.  asyncio.Queue and    *)
(* asyncio.wait_for are external; they behave as in Python 3.11, the       *)
(* version of the Dockerfile.                                              *)
(***************************************************************************)
EXTENDS Integers, Sequences, FiniteSets

CONSTANTS Publishers,  \* tasks that call publish()
          Consumers,   \* callables registered with add_consumer()
          QueueSize,   \* maxsize of the queue; 0 means unbounded
          MaxEvents    \* bound on the events offered to the collector

ASSUME CollectorAssumption ==
    /\ IsFiniteSet(Publishers)
    /\ IsFiniteSet(Consumers)
    /\ QueueSize \in Nat
    /\ MaxEvents \in Nat

VARIABLES queue,       \* _queue
          unfinished,  \* the queue's count of puts without a task_done
          total,       \* _total_events
          running,     \* _running
          phase,       \* how far start() and stop() have come
          atStop,      \* history: total when stop() was called
          timedOut,    \* history: stop() gave up on join()
          pub,         \* what each publisher's task is doing
          cons,        \* where each consumer's task is suspended
          item,        \* the event a consumer's task has taken
          cancel,      \* task.cancel() called, not yet thrown into the task
          fate         \* history: what became of each event

qVars == <<queue, unfinished, total>>
stopVars == <<running, phase, atStop, timedOut>>
consVars == <<cons, item, cancel>>
vars == <<queue, unfinished, total, running, phase, atStop, timedOut, pub,
          cons, item, cancel, fate>>

Events == 1..MaxEvents
Fates == {"none", "handled", "failed", "cut"}
Phases == {"new", "running", "joining", "waiting", "joined", "gathering",
           "stopped"}

TypeOK == /\ queue \in Seq(Events)
          /\ unfinished \in Nat
          /\ total \in 0..MaxEvents
          /\ running \in BOOLEAN
          /\ phase \in Phases
          /\ atStop \in 0..MaxEvents
          /\ timedOut \in BOOLEAN
          /\ pub \in [Publishers -> {"idle", "waiting"}]
          /\ cons \in [Consumers -> {"off", "created", "getting", "held",
                                     "handling", "done"}]
          /\ item \in [Consumers -> 0..MaxEvents]
          /\ cancel \in [Consumers -> BOOLEAN]
          /\ fate \in [Events -> Fates]

Init == /\ queue = <<>>
        /\ unfinished = 0
        /\ total = 0
        /\ running = FALSE
        /\ phase = "new"
        /\ atStop = 0
        /\ timedOut = FALSE
        /\ pub = [p \in Publishers |-> "idle"]
        /\ cons = [c \in Consumers |-> "off"]
        /\ item = [c \in Consumers |-> 0]
        /\ cancel = [c \in Consumers |-> FALSE]
        /\ fate = [e \in Events |-> "none"]

(***************************************************************************)
(* publish()                                                               *)
(***************************************************************************)
Full == QueueSize > 0 /\ Len(queue) >= QueueSize

Waiting == {p \in Publishers : pub[p] = "waiting"}

Put == /\ queue' = Append(queue, total + 1)
       /\ unfinished' = unfinished + 1
       /\ total' = total + 1

\* A call of publish() puts at once or suspends in put().
Publish(p) ==
    /\ pub[p] = "idle"
    /\ total + Cardinality(Waiting) < MaxEvents
    /\ \/ ~Full /\ Put /\ UNCHANGED pub
       \/ Full /\ pub' = [pub EXCEPT ![p] = "waiting"] /\ UNCHANGED qVars
    /\ UNCHANGED <<stopVars, consVars, fate>>

\* A woken putter looks at full() again: a newcomer may have been faster.
Resume(p) ==
    /\ pub[p] = "waiting"
    /\ ~Full
    /\ Put
    /\ pub' = [pub EXCEPT ![p] = "idle"]
    /\ UNCHANGED <<stopVars, consVars, fate>>

\* The publisher's task is cancelled in put(), as LogBridge.stop() does.
CancelPublish(p) ==
    /\ pub[p] = "waiting"
    /\ pub' = [pub EXCEPT ![p] = "idle"]
    /\ UNCHANGED <<qVars, stopVars, consVars, fate>>

(***************************************************************************)
(* _consume_loop()                                                         *)
(***************************************************************************)
\* Mutant: the loop does not look at _running.
LoopForever == "getting"

LoopTop == IF running \/ queue # <<>> THEN "getting" ELSE "done"

Busy == {c \in Consumers : cons[c] \in {"held", "handling"}}

Begin(c) ==
    /\ cons[c] = "created"
    /\ ~cancel[c]
    /\ cons' = [cons EXCEPT ![c] = LoopTop]
    /\ UNCHANGED <<qVars, stopVars, pub, item, cancel, fate>>

\* Mutant: the oldest item is looked at and left in the queue.
GetPeeks(c) ==
    /\ cons[c] = "getting"
    /\ queue # <<>>
    /\ item' = [item EXCEPT ![c] = Head(queue)]
    /\ cons' = [cons EXCEPT ![c] = "held"]
    /\ UNCHANGED <<qVars, stopVars, pub, cancel, fate>>

\* Mutant: the newest item is taken first.
GetNewest(c) ==
    /\ cons[c] = "getting"
    /\ queue # <<>>
    /\ item' = [item EXCEPT ![c] = queue[Len(queue)]]
    /\ queue' = SubSeq(queue, 1, Len(queue) - 1)
    /\ cons' = [cons EXCEPT ![c] = "held"]
    /\ UNCHANGED <<unfinished, total, stopVars, pub, cancel, fate>>

\* The get() inside wait_for takes the oldest item.
Get(c) ==
    /\ cons[c] = "getting"
    /\ queue # <<>>
    /\ item' = [item EXCEPT ![c] = Head(queue)]
    /\ queue' = Tail(queue)
    /\ cons' = [cons EXCEPT ![c] = "held"]
    /\ UNCHANGED <<unfinished, total, stopVars, pub, cancel, fate>>

\* wait_for returns the item to the loop, which calls the consumer.  If the
\* task was cancelled meanwhile, wait_for swallows the cancellation.
Deliver(c) ==
    /\ cons[c] = "held"
    /\ cons' = [cons EXCEPT ![c] = "handling"]
    /\ cancel' = [cancel EXCEPT ![c] = FALSE]
    /\ UNCHANGED <<qVars, stopVars, pub, item, fate>>

\* Mutant: a timeout ends the loop although the collector runs.
GetTimeoutQuits(c) ==
    /\ cons[c] = "getting"
    /\ ~cancel[c]
    /\ cons' = [cons EXCEPT ![c] = "done"]
    /\ UNCHANGED <<qVars, stopVars, pub, item, cancel, fate>>

GetTimeout(c) ==
    /\ cons[c] = "getting"
    /\ ~cancel[c]
    /\ cons' = [cons EXCEPT ![c] = LoopTop]
    /\ UNCHANGED <<qVars, stopVars, pub, item, cancel, fate>>

\* Mutant: task_done() is called in the finally clause and after it.
TaskDoneTwice ==
    /\ unfinished' = unfinished - 2
    /\ phase' = IF phase = "waiting" /\ unfinished' = 0 THEN "joined" ELSE phase
    /\ UNCHANGED <<queue, total, running, atStop, timedOut>>

\* task_done(), which wakes join() when no put is left unfinished.
TaskDone ==
    /\ unfinished' = unfinished - 1
    /\ phase' = IF phase = "waiting" /\ unfinished' = 0 THEN "joined" ELSE phase
    /\ UNCHANGED <<queue, total, running, atStop, timedOut>>

\* The consumer returns, or raises an exception that the loop logs.
Finish(c) ==
    /\ cons[c] = "handling"
    /\ ~cancel[c]
    /\ \E f \in {"handled", "failed"} : fate' = [fate EXCEPT ![item[c]] = f]
    /\ TaskDone
    /\ cons' = [cons EXCEPT ![c] = LoopTop]
    /\ UNCHANGED <<pub, item, cancel>>

\* CancelledError inside the consumer: task_done() runs, the loop ends.
CutOff(c) ==
    /\ cons[c] = "handling"
    /\ cancel[c]
    /\ fate' = [fate EXCEPT ![item[c]] = "cut"]
    /\ TaskDone
    /\ cons' = [cons EXCEPT ![c] = "done"]
    /\ UNCHANGED <<pub, item, cancel>>

\* CancelledError before the task ran, or while nothing has been taken.
LeaveLoop(c) ==
    /\ cons[c] \in {"created", "getting"}
    /\ cancel[c]
    /\ cons' = [cons EXCEPT ![c] = "done"]
    /\ UNCHANGED <<qVars, stopVars, pub, item, cancel, fate>>

ConsumerStep(c) == \/ Begin(c) \/ Get(c) \/ Deliver(c) \/ GetTimeout(c)
                   \/ Finish(c) \/ CutOff(c) \/ LeaveLoop(c)

(***************************************************************************)
(* start() and stop()                                                      *)
(***************************************************************************)
Start == /\ phase = "new"
         /\ running' = TRUE
         /\ phase' = "running"
         /\ cons' = [c \in Consumers |-> "created"]
         /\ UNCHANGED <<qVars, atStop, timedOut, pub, item, cancel, fate>>

Stop == /\ phase = "running"
        /\ running' = FALSE
        /\ phase' = "joining"
        /\ atStop' = total
        /\ UNCHANGED <<qVars, timedOut, pub, consVars, fate>>

\* Mutant: stop() does not wait for the events in hand, only for the queue.
JoinStartQueueOnly ==
    /\ phase = "joining"
    /\ phase' = IF queue # <<>> THEN "waiting" ELSE "joined"
    /\ UNCHANGED <<qVars, running, atStop, timedOut, pub, consVars, fate>>

\* The task that wait_for made of join() runs for the first time.
JoinStart == /\ phase = "joining"
             /\ phase' = IF unfinished > 0 THEN "waiting" ELSE "joined"
             /\ UNCHANGED <<qVars, running, atStop, timedOut, pub, consVars, fate>>

\* Cancel every consumer task that has not ended; the end of stop()'s wait.
CancelTasks == /\ phase' = "gathering"
               /\ cancel' = [c \in Consumers |-> cons[c] # "done"]
               /\ UNCHANGED <<qVars, running, atStop, pub, cons, item, fate>>

JoinReturns == phase = "joined" /\ CancelTasks /\ UNCHANGED timedOut

JoinTimeout == phase = "waiting" /\ CancelTasks /\ timedOut' = TRUE

Gathered == /\ phase = "gathering"
            /\ \A c \in Consumers : cons[c] = "done"
            /\ phase' = "stopped"
            /\ UNCHANGED <<qVars, running, atStop, timedOut, pub, consVars, fate>>

StopStep == JoinStart \/ JoinReturns \/ JoinTimeout \/ Gathered

Next == \/ \E p \in Publishers : Publish(p) \/ Resume(p) \/ CancelPublish(p)
        \/ \E c \in Consumers : ConsumerStep(c)
        \/ Start
        \/ Stop
        \/ StopStep

\* The event loop runs every task that can go on, its timers fire, and a
\* consumer, a write to the storage, returns or raises.
Fairness == /\ \A p \in Publishers : WF_vars(Resume(p))
            /\ \A c \in Consumers : WF_vars(ConsumerStep(c))
            /\ WF_vars(StopStep)

Spec == Init /\ [][Next]_vars

FairSpec == Spec /\ Fairness

(***************************************************************************)
(* Properties                                                              *)
(***************************************************************************)
Queued == {queue[i] : i \in 1..Len(queue)}
InHand == {item[c] : c \in Busy}
Settled == {e \in 1..total : fate[e] # "none"}

\* publish() and _consume_loop() neither lose nor duplicate an event: every
\* accepted event is in the queue once, or in the hands of one consumer, or
\* settled, and never two of these; nothing else is anywhere.
OnePlace ==
    /\ Queued \cup InHand \cup Settled = 1..total
    /\ Queued \cap InHand = {}
    /\ Queued \cap Settled = {}
    /\ InHand \cap Settled = {}
    /\ \A i, j \in 1..Len(queue) : queue[i] = queue[j] => i = j
    /\ \A c, d \in Busy : item[c] = item[d] => c = d

\* The count join() waits on is exact: task_done() is called once for every
\* event taken, whether its consumer returns, raises or is cancelled.
JoinCount == unfinished = Len(queue) + Cardinality(Busy)

\* If stop() did not give up on join(), everything accepted before stop() was
\* called has been given to a consumer that ended by itself: the cancellation
\* that follows cuts off, and the end of the loops leaves behind, only events
\* published after stop().
GracefulStop ==
    phase \in {"joined", "gathering", "stopped"} /\ ~timedOut =>
        \A e \in 1..atStop : fate[e] \in {"handled", "failed"}

\* The collector implements the abstract delivery contract.
Delivery == INSTANCE EventDelivery WITH Width <- Cardinality(Consumers)
DeliverySpec == Delivery!Spec

\* stop() returns, even when join() times out, a consumer is cut off or a
\* cancellation is swallowed.
StopReturns == phase = "joining" ~> phase = "stopped"

\* An accepted event does not stay in the collector: it is settled, or the
\* collector is stopped before.
EventuallySettled ==
    \A e \in Events : e <= total /\ phase # "new"
                        ~> fate[e] # "none" \/ phase = "stopped"
=============================================================================
